----------------------------- MODULE BlockLifetime -----------------------------
(***************************************************************************)
(* What the reference counting of media memory blocks promises.            *)
(*                                                                         *)
(* A party may use a block while it has a right to it: it owns the block   *)
(* (it allocated it and has not freed it), it holds references, or it has  *)
(* it mapped into the kernel. A block is allocated exactly while somebody  *)
(* has a right to it: it goes in the very step that gives the last right   *)
(* back, not before (a use after free) and not later (a leak).             *)
(***************************************************************************)
EXTENDS Naturals

CONSTANT BlockIds

VARIABLES
  allocated, \* the blocks that exist
  rights     \* [BlockIds -> Rights]

Rights == [own : BOOLEAN, refs : Nat, maps : Nat]
NoRights == [own |-> FALSE, refs |-> 0, maps |-> 0]

Init ==
  /\ allocated = {}
  /\ rights = [b \in BlockIds |-> NoRights]

\* Block b comes to exist, with an owner.
Create(b) ==
  /\ b \notin allocated
  /\ allocated' = allocated \cup {b}
  /\ rights' = [rights EXCEPT ![b] = [NoRights EXCEPT !.own = TRUE]]

\* A party that has a right to b takes another reference or mapping.
Take(b) ==
  /\ b \in allocated
  /\ \/ rights' = [rights EXCEPT ![b].refs = @ + 1]
     \/ rights' = [rights EXCEPT ![b].maps = @ + 1]
  /\ UNCHANGED allocated

\* Somebody gives a right to b back; the last one takes the block with it.
GiveBack(b) ==
  /\ b \in allocated
  /\ \/ rights[b].own /\ rights' = [rights EXCEPT ![b].own = FALSE]
     \/ rights[b].refs > 0 /\ rights' = [rights EXCEPT ![b].refs = @ - 1]
     \/ rights[b].maps > 0 /\ rights' = [rights EXCEPT ![b].maps = @ - 1]
  /\ allocated' = IF rights'[b] = NoRights THEN allocated \ {b} ELSE allocated

Next == \E b \in BlockIds : Create(b) \/ Take(b) \/ GiveBack(b)

Spec == Init /\ [][Next]_<<allocated, rights>>
=============================================================================
