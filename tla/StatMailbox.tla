----------------------------- MODULE StatMailbox -----------------------------
(***************************************************************************)
(* What the statistics buffers of the image signal processor promise their *)
(* user: a mailbox that keeps the newest frame only. A frame is handed out *)
(* at most once, never after a newer one, and what is lent stays as it is  *)
(* until it is given back or the mailbox is taken away.                    *)
(***************************************************************************)
EXTENDS Naturals

CONSTANT Frames \* the numbers of frames, which grow

VARIABLES
  slot, \* the newest frame nobody has taken, 0 for none
  lent, \* the frames the user has
  last  \* the newest frame handed out so far

Init == slot = 0 /\ lent = {} /\ last = 0

\* A newer frame replaces the one in the slot.
Deposit ==
  /\ slot' \in Frames /\ slot' > slot /\ slot' > last
  /\ UNCHANGED <<lent, last>>

Take ==
  /\ slot > last
  /\ slot' = 0
  /\ lent' = lent \cup {slot}
  /\ last' = slot

GiveBack ==
  /\ \E f \in lent : lent' = lent \ {f}
  /\ UNCHANGED <<slot, last>>

TakeAway == slot' = 0 /\ lent' = {} /\ UNCHANGED last

Next == Deposit \/ Take \/ GiveBack \/ TakeAway

Spec == Init /\ [][Next]_<<slot, lent, last>>
=============================================================================
