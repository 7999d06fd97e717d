------------------------------- MODULE MediaMem -------------------------------
(***************************************************************************)
(* The life of a media memory block (osal/linux/mmz/media_mem.c and the    *)
(* map, unmap and free functions of ot_allocator.c): allocation, physical  *)
(* references, kernel mappings and the delayed free that ties them         *)
(* together. Every operation runs under g_mmz_lock and is one action.      *)
(*                                                                         *)
(* The operations are unguarded, as the functions are: they do what the    *)
(* code does to whatever block they are given. The variable "rights" is    *)
(* not in the code; it records what the callers are entitled to give back. *)
(* Next lets callers do what their rights allow; module MmzUserdev has one *)
(* real caller.                                                            *)
(***************************************************************************)
EXTENDS Integers

CONSTANTS
  BlockIds,  \* the ot_mmb_t objects
  MaxRights  \* bound on the references and on the mappings of one block

ASSUME MaxRightsAssumption == MaxRights \in Nat

VARIABLES
  mmb,    \* [BlockIds -> Mmb]
  rights  \* [BlockIds -> record of what callers hold], a history variable

vars == <<mmb, rights>>

\* An ot_mmb_t: whether it is in its zone's list, its two counters, its flags.
Mmb == [live : BOOLEAN, phy_ref : Int, map_ref : Int,
        MAP2KERN : BOOLEAN, MAP2KERN_CACHED : BOOLEAN, RELEASED : BOOLEAN]

NewMmb == [live |-> TRUE, phy_ref |-> 0, map_ref |-> 0,
           MAP2KERN |-> FALSE, MAP2KERN_CACHED |-> FALSE, RELEASED |-> FALSE]

\* __mmb_free
NoMmb == [NewMmb EXCEPT !.live = FALSE]

Rights == [own : BOOLEAN, refs : Nat, maps : Nat]
NoRights == [own |-> FALSE, refs |-> 0, maps |-> 0]

-----------------------------------------------------------------------------
(* What each function makes of a block *)

PutMmb(m) ==
  LET n == [m EXCEPT !.phy_ref = @ - 1]
  IN  IF n.RELEASED /\ n.phy_ref = 0 /\ n.map_ref = 0 THEN NoMmb ELSE n

\* Mutant: kernel mappings do not keep a block.
FreeMmb_mapped(m) ==
  IF m.RELEASED THEN m
  ELSE IF m.phy_ref > 0 THEN [m EXCEPT !.RELEASED = TRUE] ELSE NoMmb

\* A block in use is only marked; a block marked already is left alone.
FreeMmb(m) ==
  IF m.RELEASED THEN m
  ELSE IF m.phy_ref > 0 \/ m.MAP2KERN THEN [m EXCEPT !.RELEASED = TRUE]
  ELSE NoMmb

\* __mmb_map2kern returns a pointer: the block is mapped already in the same
\* way, or ioremap succeeds.
MapMmb(m, cached) ==
  IF m.MAP2KERN THEN [m EXCEPT !.map_ref = @ + 1]
  ELSE [m EXCEPT !.MAP2KERN = TRUE, !.MAP2KERN_CACHED = cached, !.map_ref = @ + 1]

\* __mmb_map2kern returns NULL: the block is mapped in the other way, or
\* ioremap fails.
MapFailsMmb(m) ==
  IF m.MAP2KERN THEN m ELSE [m EXCEPT !.MAP2KERN_CACHED = FALSE]

\* Mutant: the last unmapping does not look for a delayed free.
UnmapMmb_leaks(m) ==
  LET left == IF m.MAP2KERN THEN m.map_ref - 1 ELSE m.map_ref
  IN  IF m.MAP2KERN /\ left # 0 THEN [m EXCEPT !.map_ref = left]
      ELSE [m EXCEPT !.map_ref = left, !.MAP2KERN = FALSE, !.MAP2KERN_CACHED = FALSE]

UnmapMmb(m) ==
  LET left == IF m.MAP2KERN THEN m.map_ref - 1 ELSE m.map_ref
      n    == [m EXCEPT !.map_ref = left, !.MAP2KERN = FALSE, !.MAP2KERN_CACHED = FALSE]
  IN  IF m.MAP2KERN /\ left # 0 THEN [m EXCEPT !.map_ref = left]
      ELSE IF n.RELEASED /\ n.phy_ref = 0 THEN NoMmb
      ELSE n

-----------------------------------------------------------------------------
(* The operations *)

\* ot_mmb_alloc and its versions, when they return a block
ot_mmb_alloc(b) ==
  /\ ~mmb[b].live
  /\ mmb' = [mmb EXCEPT ![b] = NewMmb]
  /\ rights' = [rights EXCEPT ![b].own = TRUE]

ot_mmb_get(b) ==
  /\ mmb' = [mmb EXCEPT ![b].phy_ref = @ + 1]
  /\ rights' = [rights EXCEPT ![b].refs = @ + 1]

ot_mmb_put(b) ==
  /\ mmb' = [mmb EXCEPT ![b] = PutMmb(@)]
  /\ rights' = [rights EXCEPT ![b].refs = @ - 1]

ot_mmb_free(b) ==
  /\ mmb' = [mmb EXCEPT ![b] = FreeMmb(@)]
  /\ rights' = [rights EXCEPT ![b].own = FALSE]

\* ot_mmb_map2kern and ot_mmb_map2kern_cached
ot_mmb_map2kern(b, cached) ==
  \/ /\ mmb[b].MAP2KERN => mmb[b].MAP2KERN_CACHED = cached
     /\ mmb' = [mmb EXCEPT ![b] = MapMmb(@, cached)]
     /\ rights' = [rights EXCEPT ![b].maps = @ + 1]
  \/ /\ mmb[b].MAP2KERN => mmb[b].MAP2KERN_CACHED # cached
     /\ mmb' = [mmb EXCEPT ![b] = MapFailsMmb(@)]
     /\ UNCHANGED rights

ot_mmb_unmap(b) ==
  /\ mmb' = [mmb EXCEPT ![b] = UnmapMmb(@)]
  /\ rights' = [rights EXCEPT ![b].maps = @ - 1]

-----------------------------------------------------------------------------
(* Callers that give back what they took, and no more *)

Init ==
  /\ mmb = [b \in BlockIds |-> NoMmb]
  /\ rights = [b \in BlockIds |-> NoRights]

HasRight(b) == rights[b] # NoRights

Get(b)   == HasRight(b) /\ rights[b].refs < MaxRights /\ ot_mmb_get(b)
Put(b)   == rights[b].refs > 0 /\ ot_mmb_put(b)
\* A second ot_mmb_free of a block that is still in use is tolerated.
Free(b)  == HasRight(b) /\ ot_mmb_free(b)
Map(b)   == /\ HasRight(b) /\ rights[b].maps < MaxRights
            /\ \E cached \in BOOLEAN : ot_mmb_map2kern(b, cached)
Unmap(b) == rights[b].maps > 0 /\ ot_mmb_unmap(b)

Next == \E b \in BlockIds :
  ot_mmb_alloc(b) \/ Get(b) \/ Put(b) \/ Free(b) \/ Map(b) \/ Unmap(b)

Spec == Init /\ [][Next]_vars

-----------------------------------------------------------------------------
(* Correctness *)

TypeOK ==
  /\ mmb \in [BlockIds -> Mmb]
  /\ rights \in [BlockIds -> Rights]

\* A block m agrees with the rights r its callers have to it.
Agree(m, r) ==
  /\ m.phy_ref = r.refs /\ m.map_ref = r.maps
  /\ m.MAP2KERN <=> r.maps > 0
  /\ m.live <=> r # NoRights
  /\ m.RELEASED <=> m.live /\ ~r.own

\* The counters and flags of a block say what its callers hold: RELEASED is set
\* on a live block exactly when its owner has freed it, MAP2KERN exactly while
\* it has mappings, and no block nobody has a right to is live.
Accounting == \A b \in BlockIds : Agree(mmb[b], rights[b])

\* Two callers never have one block mapped with different cache attributes: the
\* attribute is fixed from the first mapping to the last unmapping.
CacheAttributeStable ==
  [][\A b \in BlockIds :
       mmb[b].map_ref > 0 /\ mmb'[b].map_ref > 0
         => mmb'[b].MAP2KERN_CACHED = mmb[b].MAP2KERN_CACHED]_vars

\* The blocks implement the abstract lifetime: a block disappears in the step
\* that gives the last right to it back, whichever of ot_mmb_put, ot_mmb_free
\* and ot_mmb_unmap that is.
Lifetime == INSTANCE BlockLifetime WITH allocated <- {b \in BlockIds : mmb[b].live}
ImplementsLifetime == Lifetime!Spec
=============================================================================
