--------------------------- MODULE ConfigRegister ---------------------------
(***************************************************************************)
(* What the configuration buffers of the ISP back end promise their        *)
(* consumer: it gets the configuration published last, and what it holds   *)
(* stays as it is, whatever is published meanwhile, until it gives it back *)
(* or everything is taken away.                                            *)
(***************************************************************************)
CONSTANTS
  Configs, \* configurations
  Slots,   \* where a configuration can be held
  None     \* no configuration

VARIABLES
  current, \* the configuration a consumer gets, or None
  held     \* [Slots -> the configuration held there, or None]

Init == current = None /\ held = [s \in Slots |-> None]

Publish == current' \in Configs /\ UNCHANGED held

Get ==
  /\ current # None
  /\ \E s \in Slots : held' = [held EXCEPT ![s] = current] /\ held[s] = None
  /\ UNCHANGED current

\* When the current one is given back, one that is still held may take its place.
GiveBack ==
  \E s \in Slots :
    /\ held[s] # None
    /\ held' = [held EXCEPT ![s] = None]
    /\ current' \in IF current = held[s]
                    THEN ({current} \cup {held'[o] : o \in Slots}) \ {None}
                    ELSE {current}

TakeAway == current' = None /\ held' = [s \in Slots |-> None]

Next == Publish \/ Get \/ GiveBack \/ TakeAway

Spec == Init /\ [][Next]_<<current, held>>
=============================================================================
