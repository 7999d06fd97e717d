----------------------------- MODULE OtWtdgProofs -----------------------------
(***************************************************************************)
(* At most one program has /dev/watchdog open, for any number of programs.  *)
(* g_driver_open is counted down and up by calls that undo one another in   *)
(* two steps, so it says little by itself; the invariant relates it to the  *)
(* open files and to the calls that have still to settle what they counted. *)
(*                                                                         *)
(* And as long as no call meets another, the thread feeds in time.         *)
(***************************************************************************)
EXTENDS OtWtdg, FiniteSetTheorems, SequenceTheorems, TLAPS

-----------------------------------------------------------------------------
(* Sequences of steps *)

OpenOps == {"refuse", "opened", "release", "keep_open"}
MarginOps == {"timeout", "set_margin"}
OtherOps == {"read_ris", "clear", "start", "stop", "options", "state", "set_current_margin",
             "sleep", "create", "kthread_stop", "join"}
Args == {0, ENABLECARD, DISABLECARD, OT_DOG_EXIT, OT_DOG_SELFCLR}
Commands == [op : MarginOps, arg : Int] \cup [op : OtherOps \cup OpenOps, arg : Args]

Plain(q) == \A i \in 1..Len(q) : q[i].op \notin OpenOps
Shape(q) == \A i \in 1..Len(q) : i < Len(q) => q[i].op \notin OpenOps

\* What a call will do to g_driver_open or files at its end
End(q) == IF q # <<>> /\ q[Len(q)].op \in OpenOps THEN q[Len(q)].op ELSE "none"

LEMMA OneOrMore ==
  ASSUME NEW n \in Nat \ {0}
  PROVE  n = 1 \/ n > 1
  OBVIOUS

\* The step of a call that is not its end leaves its end alone.
LEMMA ThenPlain ==
  ASSUME NEW q \in Seq(Commands), q # <<>>, Shape(q), q[1].op \notin OpenOps,
         NEW steps \in Seq(Commands), Plain(steps)
  PROVE  /\ steps \o Tail(q) \in Seq(Commands)
         /\ Shape(steps \o Tail(q))
         /\ End(steps \o Tail(q)) = End(q)
<1> DEFINE t == steps \o Tail(q)
<1>1. /\ t \in Seq(Commands)
      /\ Len(q) \in Nat \ {0} /\ Len(steps) \in Nat
      /\ Len(t) = Len(steps) + Len(q) - 1
      /\ \A i \in 1..Len(steps) : t[i] = steps[i]
      /\ \A i \in (Len(steps) + 1)..Len(t) : t[i] = q[i - Len(steps) + 1]
  OBVIOUS
<1>2. Shape(t)
  <2> SUFFICES ASSUME NEW i \in 1..Len(t), i < Len(t)
               PROVE  t[i].op \notin OpenOps
    BY DEF Shape
  <2>1. CASE i <= Len(steps)
    <3>1. i \in 1..Len(steps)
      BY <1>1, <2>1
    <3>2. t[i] = steps[i]
      BY <1>1, <3>1
    <3>3. QED
      BY ONLY <3>1, <3>2, Plain(steps) DEF Plain
  <2>2. CASE i > Len(steps)
    <3>1. i - Len(steps) + 1 \in 1..Len(q) /\ i - Len(steps) + 1 < Len(q)
      BY <1>1, <2>2
    <3>2. QED
      BY <1>1, <2>2, <3>1 DEF Shape
  <2>3. QED
    BY <1>1, <2>1, <2>2
<1>3. End(t) = End(q)
  <2>1. CASE Len(q) > 1
    <3>1. t # <<>> /\ t[Len(t)] = q[Len(q)]
      BY <1>1, <2>1
    <3>2. QED
      BY <3>1 DEF End
  <2>2. CASE Len(q) = 1
    <3>1. End(q) = "none"
      BY <2>2 DEF End
    <3>2. t # <<>> => t[Len(t)].op \notin OpenOps
      BY <1>1, <2>2 DEF Plain
    <3>3. QED
      BY <3>1, <3>2 DEF End
  <2>3. QED
    <3>1. Len(q) = 1 \/ Len(q) > 1
      BY <1>1, OneOrMore
    <3>2. QED
      BY <2>1, <2>2, <3>1
<1>4. QED
  BY <1>1, <1>2, <1>3

\* A step that is the end of its call is its last one.
LEMMA ThenEnd ==
  ASSUME NEW q \in Seq(Commands), q # <<>>, Shape(q), q[1].op \in OpenOps,
         NEW steps \in Seq(Commands), Shape(steps)
  PROVE  /\ End(q) = q[1].op
         /\ steps \o Tail(q) = steps
<1>1. Len(q) = 1
  <2>1. Len(q) \in Nat \ {0}
    OBVIOUS
  <2>2. 1 \in 1..Len(q)
    BY <2>1
  <2>3. ~(1 < Len(q))
    BY <2>2 DEF Shape
  <2>4. QED
    BY <2>1, <2>3, OneOrMore
<1>2. Tail(q) \in Seq(Commands) /\ Len(Tail(q)) = 0
  BY <1>1
<1>3. Tail(q) = <<>>
  BY <1>2, EmptySeq
<1>4. steps \o Tail(q) = steps
  BY <1>3, ConcatEmptySeq
<1>5. End(q) = q[1].op
  BY <1>1 DEF End
<1>6. QED
  BY <1>4, <1>5

LEMMA EmptyPlain == <<>> \in Seq(Commands) /\ Shape(<<>>) /\ Plain(<<>>) /\ End(<<>>) = "none"
  BY DEF Shape, Plain, End

LEMMA PlainHasNoEnd ==
  ASSUME NEW q \in Seq(Commands), Plain(q)
  PROVE  Shape(q) /\ End(q) = "none"
  BY DEF Plain, Shape, End

LEMMA ConcatPlain ==
  ASSUME NEW q \in Seq(Commands), NEW r \in Seq(Commands), Plain(q), Plain(r)
  PROVE  q \o r \in Seq(Commands) /\ Plain(q \o r)
  BY DEF Plain

\* A call that ends with o
LEMMA AppendEnd ==
  ASSUME NEW q \in Seq(Commands), Plain(q), NEW o \in OpenOps
  PROVE  /\ q \o <<Do(o, 0)>> \in Seq(Commands)
         /\ Shape(q \o <<Do(o, 0)>>)
         /\ End(q \o <<Do(o, 0)>>) = o
<1> DEFINE t == q \o <<Do(o, 0)>>
<1>1. Do(o, 0) \in Commands /\ Do(o, 0).op = o
  BY DEF Do, Commands, Args
<1>2. /\ t \in Seq(Commands) /\ Len(t) = Len(q) + 1 /\ t # <<>>
      /\ \A i \in 1..Len(q) : t[i] = q[i]
      /\ t[Len(t)] = Do(o, 0)
  BY <1>1
<1>3. QED
  BY <1>1, <1>2 DEF Plain, Shape, End

-----------------------------------------------------------------------------
(* The inductive invariant *)

Typed ==
  /\ todo \in [Processes -> Seq(Commands)]
  /\ \A p \in Processes : Shape(todo[p])
  /\ g_cur_margin \in Int /\ g_driver_open \in Int /\ files \in Nat
  /\ module = "absent" =>
       files = 0 /\ daemon = "none" /\ \A p \in Processes : todo[p] = <<>>

\* The calls that have counted g_driver_open down, and those of them that have
\* the device, or had it until they were closed
Debtors == {p \in Processes : End(todo[p]) \in {"opened", "release", "refuse"}}
Holders == {p \in Processes : End(todo[p]) \in {"opened", "release"}}

Settled == g_driver_open + files + Cardinality(Debtors) <= 1

OneHolder ==
  /\ files <= 1
  /\ files = 1 => Holders = {}
  /\ \A p, q \in Holders : p = q

WInv == Typed /\ Settled /\ OneHolder

LEMMA DebtorsFinite == IsFiniteSet(Debtors) /\ Cardinality(Debtors) \in Nat /\ Holders \subseteq Debtors
<1>1. IsFiniteSet({Daemon, Insmod, Rmmod}) /\ IsFiniteSet(Callers)
  <2>1. IsFiniteSet((({} \cup {Daemon}) \cup {Insmod}) \cup {Rmmod})
    BY FS_EmptySet, FS_AddElement
  <2>2. (({} \cup {Daemon}) \cup {Insmod}) \cup {Rmmod} = {Daemon, Insmod, Rmmod}
    OBVIOUS
  <2>3. QED
    BY <2>1, <2>2, CallersAssumption
<1>2. IsFiniteSet(Processes)
  BY <1>1, FS_Union DEF Processes
<1>3. IsFiniteSet(Debtors)
  BY <1>2, FS_Subset DEF Debtors
<1>4. QED
  BY <1>3, FS_CardinalityType DEF Debtors, Holders

-----------------------------------------------------------------------------
(* What a step of one process does to the sets *)

\* It goes on, and owes what it owed.
LEMMA SameEnd ==
  ASSUME WInv, NEW p \in Processes, NEW q \in Seq(Commands), Shape(q), End(q) = End(todo[p]),
         todo' = [todo EXCEPT ![p] = q]
  PROVE  /\ todo' \in [Processes -> Seq(Commands)]
         /\ \A r \in Processes : Shape(todo'[r])
         /\ Debtors' = Debtors /\ Holders' = Holders
<1>1. todo' \in [Processes -> Seq(Commands)] /\ todo'[p] = q
      /\ \A r \in Processes : r # p => todo'[r] = todo[r]
  BY DEF WInv, Typed
<1>2. \A r \in Processes : End(todo'[r]) = End(todo[r])
  BY <1>1
<1>3. \A r \in Processes : Shape(todo'[r])
  BY <1>1 DEF WInv, Typed
<1>4. QED
  BY <1>1, <1>2, <1>3 DEF Debtors, Holders

\* It settles what it owed.
LEMMA Settles ==
  ASSUME WInv, NEW p \in Debtors, NEW q \in Seq(Commands), Shape(q),
         End(q) \notin {"opened", "release", "refuse"},
         todo' = [todo EXCEPT ![p] = q]
  PROVE  /\ todo' \in [Processes -> Seq(Commands)]
         /\ \A r \in Processes : Shape(todo'[r])
         /\ Cardinality(Debtors') = Cardinality(Debtors) - 1 /\ Cardinality(Debtors') \in Nat
         /\ Holders' = Holders \ {p}
<1>1. p \in Processes /\ todo' \in [Processes -> Seq(Commands)] /\ todo'[p] = q
      /\ \A r \in Processes : r # p => todo'[r] = todo[r]
  BY DEF WInv, Typed, Debtors
<1>2. Debtors' = Debtors \ {p} /\ Holders' = Holders \ {p}
  BY <1>1 DEF Debtors, Holders
<1>3. \A r \in Processes : Shape(todo'[r])
  BY <1>1 DEF WInv, Typed
<1>4. Cardinality(Debtors') = Cardinality(Debtors) - 1 /\ IsFiniteSet(Debtors')
  BY <1>2, DebtorsFinite, FS_RemoveElement
<1>5. QED
  BY <1>1, <1>2, <1>3, <1>4, FS_CardinalityType

\* It begins a call that has counted g_driver_open down.
LEMMA Owes ==
  ASSUME WInv, NEW p \in Processes, todo[p] = <<>>, NEW q \in Seq(Commands), Shape(q),
         End(q) \in {"opened", "release", "refuse"},
         todo' = [todo EXCEPT ![p] = q]
  PROVE  /\ todo' \in [Processes -> Seq(Commands)]
         /\ \A r \in Processes : Shape(todo'[r])
         /\ Cardinality(Debtors') = Cardinality(Debtors) + 1
         /\ Holders' = IF End(q) = "refuse" THEN Holders ELSE Holders \cup {p}
<1>1. todo' \in [Processes -> Seq(Commands)] /\ todo'[p] = q
      /\ \A r \in Processes : r # p => todo'[r] = todo[r]
  BY DEF WInv, Typed
<1>2. p \notin Debtors /\ p \notin Holders
  BY EmptyPlain DEF Debtors, Holders
<1>3. Debtors' = Debtors \cup {p}
  BY <1>1 DEF Debtors
<1>4. Holders' = IF End(q) = "refuse" THEN Holders ELSE Holders \cup {p}
  BY <1>1, <1>2 DEF Holders
<1>5. \A r \in Processes : Shape(todo'[r])
  BY <1>1 DEF WInv, Typed
<1>6. Cardinality(Debtors') = Cardinality(Debtors) + 1
  BY <1>2, <1>3, DebtorsFinite, FS_AddElement
<1>7. QED
  BY <1>1, <1>4, <1>5, <1>6

\* Nothing is settled or owed by what touches neither the calls' ends nor the counts.
LEMMA CountsKept ==
  ASSUME WInv, Typed', Debtors' = Debtors, Holders' = Holders, UNCHANGED opening
  PROVE  WInv'
  BY DEF WInv, Settled, OneHolder, opening

\* The first step of a call, if it is not its end, leads on.
LEMMA ThenKeeps ==
  ASSUME WInv, NEW p \in Processes, NEW op \in MarginOps \cup OtherOps, At(p, op),
         NEW steps \in Seq(Commands), Plain(steps), Then(p, steps)
  PROVE  /\ todo' \in [Processes -> Seq(Commands)]
         /\ \A r \in Processes : Shape(todo'[r])
         /\ Debtors' = Debtors /\ Holders' = Holders
<1>1. todo[p] \in Seq(Commands) /\ todo[p] # <<>> /\ Shape(todo[p]) /\ todo[p][1].op = op
  BY DEF WInv, Typed, At, Busy
<1>2. op \notin OpenOps
  BY DEF OpenOps, MarginOps, OtherOps
<1>3. /\ steps \o Tail(todo[p]) \in Seq(Commands)
      /\ Shape(steps \o Tail(todo[p]))
      /\ End(steps \o Tail(todo[p])) = End(todo[p])
  BY <1>1, <1>2, ThenPlain
<1>4. todo' = [todo EXCEPT ![p] = steps \o Tail(todo[p])]
  BY DEF Then
<1>5. QED
  BY <1>3, <1>4, SameEnd

\* The first step of a call, if it is its end, is the last one.
LEMMA ThenSettles ==
  ASSUME WInv, NEW p \in Processes, NEW op \in OpenOps, At(p, op),
         NEW steps \in Seq(Commands), Shape(steps), Then(p, steps)
  PROVE  /\ End(todo[p]) = op
         /\ todo' = [todo EXCEPT ![p] = steps]
<1>1. todo[p] \in Seq(Commands) /\ todo[p] # <<>> /\ Shape(todo[p]) /\ todo[p][1].op = op
  BY DEF WInv, Typed, At, Busy
<1>2. End(todo[p]) = op /\ steps \o Tail(todo[p]) = steps
  BY <1>1, ThenEnd
<1>3. QED
  BY <1>2 DEF Then

-----------------------------------------------------------------------------
(* The sequences of the code *)

LEMMA Calls ==
  /\ ot_dog_feed \in Seq(Commands) /\ Plain(ot_dog_feed)
  /\ \A t \in Int : ot_dog_set_heartbeat(t) \in Seq(Commands) /\ Plain(ot_dog_set_heartbeat(t))
  /\ ot_dog_start \in Seq(Commands) /\ Plain(ot_dog_start)
  /\ ot_dog_stop \in Seq(Commands) /\ Plain(ot_dog_stop)
<1>1. <<Do("read_ris", 0)>> \in Seq(Commands) /\ Plain(<<Do("read_ris", 0)>>)
  BY DEF Do, Commands, OtherOps, OpenOps, Args, Plain
<1>2. ASSUME NEW t \in Int
      PROVE  <<Do("set_margin", t)>> \in Seq(Commands) /\ Plain(<<Do("set_margin", t)>>)
  BY DEF Do, Commands, MarginOps, OpenOps, Plain
<1>3. /\ Do("start", 0) \in Commands /\ Do("start", 0).op \notin OpenOps
      /\ Do("stop", 0) \in Commands /\ Do("stop", 0).op \notin OpenOps
      /\ Do("timeout", 0) \in Commands /\ Do("timeout", 0).op \notin OpenOps
  BY DEF Do, Commands, MarginOps, OtherOps, OpenOps, Args
<1>4. ASSUME NEW o \in Args
      PROVE  Do("options", o) \in Commands /\ Do("options", o).op \notin OpenOps
  BY DEF Do, Commands, OtherOps, OpenOps
<1>5. ENABLECARD \in Args /\ DISABLECARD \in Args
  BY DEF Args
<1>6. ot_dog_start \in Seq(Commands) /\ Plain(ot_dog_start)
  BY <1>3, <1>4, <1>5 DEF ot_dog_start, Plain
<1>7. ot_dog_stop \in Seq(Commands) /\ Plain(ot_dog_stop)
  BY <1>3, <1>4, <1>5 DEF ot_dog_stop, Plain
<1>8. QED
  BY <1>1, <1>2, <1>6, <1>7 DEF ot_dog_feed, ot_dog_set_heartbeat

LEMMA OneStep ==
  ASSUME NEW op \in OtherOps, NEW arg \in Args
  PROVE  <<Do(op, arg)>> \in Seq(Commands) /\ Plain(<<Do(op, arg)>>)
<1>1. Do(op, arg) \in Commands /\ Do(op, arg).op \notin OpenOps
  BY DEF Do, Commands, OtherOps, OpenOps
<1>2. QED
  BY <1>1 DEF Plain

LEMMA OneTimeout ==
  ASSUME NEW t \in Int
  PROVE  <<Do("timeout", t)>> \in Seq(Commands) /\ Plain(<<Do("timeout", t)>>)
<1>1. Do("timeout", t) \in Commands /\ Do("timeout", t).op \notin OpenOps
  BY DEF Do, Commands, MarginOps, OpenOps
<1>2. QED
  BY <1>1 DEF Plain

-----------------------------------------------------------------------------
(* The steps *)

LEMMA ForcedInt == ASSUME WInv, NEW t \in Int PROVE Forced(t) \in Int
  BY MarginAssumption DEF WInv, Typed, Forced

LEMMA StepRegistersKeeps == ASSUME WInv, NEW p \in Processes, StepRegisters(p) PROVE WInv'
<1>1. PICK op \in MarginOps \cup OtherOps : At(p, op)
  BY DEF StepRegisters, MarginOps, OtherOps
<1>2. Then(p, <<>>) /\ UNCHANGED <<settings, opening, thread, module>>
  BY DEF StepRegisters
<1>3. /\ todo' \in [Processes -> Seq(Commands)] /\ \A r \in Processes : Shape(todo'[r])
      /\ Debtors' = Debtors /\ Holders' = Holders
  BY <1>1, <1>2, EmptyPlain, ThenKeeps
<1>4. module # "absent"
  BY <1>1 DEF At, Busy, WInv, Typed
<1>5. Typed'
  BY <1>2, <1>3, <1>4 DEF WInv, Typed, settings, opening, thread
<1>6. QED
  BY <1>2, <1>3, <1>5, CountsKept

LEMMA StepReadRisKeeps == ASSUME WInv, NEW p \in Processes, StepReadRis(p) PROVE WInv'
<1>1. At(p, "read_ris") /\ UNCHANGED <<settings, opening, thread, module>>
  BY DEF StepReadRis
<1>2. PICK steps \in {<<>>, <<Do("clear", 0)>>} : Then(p, steps)
  BY DEF StepReadRis
<1>3. steps \in Seq(Commands) /\ Plain(steps)
  BY <1>2, EmptyPlain, OneStep DEF OtherOps, Args
<1>4. /\ todo' \in [Processes -> Seq(Commands)] /\ \A r \in Processes : Shape(todo'[r])
      /\ Debtors' = Debtors /\ Holders' = Holders
  BY <1>1, <1>2, <1>3, ThenKeeps DEF OtherOps
<1>5. module # "absent"
  BY <1>1 DEF At, Busy, WInv, Typed
<1>6. Typed'
  BY <1>1, <1>4, <1>5 DEF WInv, Typed, settings, opening, thread
<1>7. QED
  BY <1>1, <1>4, <1>6, CountsKept

LEMMA StepSettingsKeeps == ASSUME WInv, NEW p \in Processes, StepSettings(p) PROVE WInv'
<1> UNCHANGED <<opening, thread, module>>
  BY DEF StepSettings
<1>1. ASSUME NEW op \in MarginOps \cup OtherOps, At(p, op),
             NEW steps \in Seq(Commands), Plain(steps), Then(p, steps), g_cur_margin' \in Int
      PROVE  WInv'
  <2>1. /\ todo' \in [Processes -> Seq(Commands)] /\ \A r \in Processes : Shape(todo'[r])
        /\ Debtors' = Debtors /\ Holders' = Holders
    BY <1>1, ThenKeeps
  <2>2. module # "absent"
    BY <1>1 DEF At, Busy, WInv, Typed
  <2>3. Typed'
    BY <1>1, <2>1, <2>2 DEF WInv, Typed, opening, thread
  <2>4. QED
    BY <2>1, <2>3, CountsKept
<1>2. CASE At(p, "options") /\ Then(p, <<>>) /\ UNCHANGED g_cur_margin
  BY <1>1, <1>2, EmptyPlain DEF OtherOps, WInv, Typed
<1>3. CASE At(p, "state") /\ Then(p, <<>>) /\ UNCHANGED g_cur_margin
  BY <1>1, <1>3, EmptyPlain DEF OtherOps, WInv, Typed
<1>4. CASE /\ At(p, "set_margin") /\ g_cur_margin' = Forced(Arg(p))
           /\ Then(p, <<Do("timeout", Forced(Arg(p)))>> \o ot_dog_feed)
  <2>1. todo[p] \in Seq(Commands) /\ todo[p] # <<>> /\ todo[p][1].op = "set_margin"
    BY <1>4 DEF WInv, Typed, At, Busy
  <2>2. todo[p][1] \in Commands
    BY <2>1
  <2>3. Arg(p) \in Int
    BY <2>1, <2>2 DEF Arg, Commands, MarginOps, OtherOps, OpenOps
  <2>4. Forced(Arg(p)) \in Int
    BY <2>3, ForcedInt
  <2>5. /\ <<Do("timeout", Forced(Arg(p)))>> \o ot_dog_feed \in Seq(Commands)
        /\ Plain(<<Do("timeout", Forced(Arg(p)))>> \o ot_dog_feed)
    BY <2>4, OneTimeout, Calls, ConcatPlain
  <2>6. QED
    BY <1>1, <1>4, <2>4, <2>5 DEF MarginOps
<1>5. CASE /\ At(p, "set_current_margin") /\ UNCHANGED g_cur_margin
           /\ Then(p, ot_dog_set_heartbeat(g_cur_margin))
  <2>1. g_cur_margin \in Int
    BY DEF WInv, Typed
  <2>2. QED
    BY <1>1, <1>5, <2>1, Calls DEF OtherOps
<1>6. QED
  BY <1>2, <1>3, <1>4, <1>5 DEF StepSettings, settings

\* The ends of opening and closing: what was counted is put right, or kept.
LEMMA StepOpeningKeeps == ASSUME WInv, NEW p \in Processes, StepOpening(p) PROVE WInv'
<1> UNCHANGED <<settings, thread, module>> /\ g_driver_open \in Int /\ files \in Nat
  BY DEF StepOpening, WInv, Typed
<1>0. ASSUME NEW op, At(p, op)
      PROVE  module # "absent"
  BY <1>0 DEF At, Busy, WInv, Typed
<1>1. ASSUME NEW steps \in Seq(Commands), Plain(steps), Then(p, steps),
             At(p, "refuse") \/ At(p, "release"),
             g_driver_open' = g_driver_open + 1, UNCHANGED files
      PROVE  WInv'
  <2>1. PICK op \in {"refuse", "release"} : At(p, op)
    BY <1>1
  <2>2. End(todo[p]) = op /\ todo' = [todo EXCEPT ![p] = steps]
    BY <1>1, <2>1, ThenSettles, PlainHasNoEnd DEF OpenOps
  <2>3. /\ todo' \in [Processes -> Seq(Commands)] /\ \A r \in Processes : Shape(todo'[r])
        /\ Cardinality(Debtors') = Cardinality(Debtors) - 1
        /\ Holders' = Holders \ {p}
    BY <1>1, <2>1, <2>2, PlainHasNoEnd, Settles DEF Debtors
  <2>4. Typed'
    BY <1>0, <1>1, <2>1, <2>3 DEF WInv, Typed, settings, thread
  <2>5. Settled'
    BY <1>1, <2>3, DebtorsFinite DEF WInv, Settled
  <2>6. OneHolder'
    BY <1>1, <2>3 DEF WInv, OneHolder
  <2>7. QED
    BY <2>4, <2>5, <2>6 DEF WInv
<1>2. CASE /\ At(p, "opened") /\ files' = files + 1
           /\ Then(p, <<>>) /\ UNCHANGED g_driver_open
  <2>1. End(todo[p]) = "opened" /\ todo' = [todo EXCEPT ![p] = <<>>]
    BY <1>2, ThenSettles, EmptyPlain DEF OpenOps
  <2>2. /\ todo' \in [Processes -> Seq(Commands)] /\ \A r \in Processes : Shape(todo'[r])
        /\ Cardinality(Debtors') = Cardinality(Debtors) - 1
        /\ Holders' = Holders \ {p}
    BY <2>1, EmptyPlain, Settles DEF Debtors
  <2>3. p \in Holders
    BY <2>1 DEF Holders
  <2>4. files = 0 /\ Holders' = {}
    BY <2>2, <2>3 DEF WInv, OneHolder
  <2>5. Typed'
    BY <1>0, <1>2, <2>2 DEF WInv, Typed, settings, thread
  <2>6. Settled'
    BY <1>2, <2>2, DebtorsFinite DEF WInv, Settled
  <2>7. OneHolder'
    BY <1>2, <2>4 DEF OneHolder
  <2>8. QED
    BY <2>5, <2>6, <2>7 DEF WInv
<1>3. ASSUME At(p, "release"), g_driver_open' = g_driver_open + 1, Then(p, <<Do("keep_open", 0)>>),
             UNCHANGED files
      PROVE  WInv'
  <2>1. /\ <<Do("keep_open", 0)>> \in Seq(Commands) /\ Shape(<<Do("keep_open", 0)>>)
        /\ End(<<Do("keep_open", 0)>>) = "keep_open"
    <3>1. Do("keep_open", 0) \in Commands /\ Do("keep_open", 0).op = "keep_open"
      BY DEF Do, Commands, OpenOps, Args
    <3>2. QED
      BY <3>1 DEF Shape, End, OpenOps
  <2>2. End(todo[p]) = "release" /\ todo' = [todo EXCEPT ![p] = <<Do("keep_open", 0)>>]
    BY <1>3, <2>1, ThenSettles DEF OpenOps
  <2>3. /\ todo' \in [Processes -> Seq(Commands)] /\ \A r \in Processes : Shape(todo'[r])
        /\ Cardinality(Debtors') = Cardinality(Debtors) - 1
        /\ Holders' = Holders \ {p}
    BY <2>1, <2>2, Settles DEF Debtors
  <2>4. Typed'
    BY <1>0, <1>3, <2>3 DEF WInv, Typed, settings, thread
  <2>5. Settled' /\ OneHolder'
    BY <1>3, <2>3, DebtorsFinite DEF WInv, Settled, OneHolder
  <2>6. QED
    BY <2>4, <2>5 DEF WInv
<1>4. CASE /\ At(p, "keep_open") /\ g_driver_open' = g_driver_open - 1
           /\ Then(p, <<>>) /\ UNCHANGED files
  <2>1. End(todo[p]) = "keep_open" /\ todo' = [todo EXCEPT ![p] = <<>>]
    BY <1>4, ThenSettles, EmptyPlain DEF OpenOps
  <2>2. /\ todo' \in [Processes -> Seq(Commands)] /\ todo'[p] = <<>>
        /\ \A r \in Processes : r # p => todo'[r] = todo[r]
    BY <2>1, EmptyPlain DEF WInv, Typed
  <2>3. Debtors' = Debtors /\ Holders' = Holders
    BY <2>1, <2>2, EmptyPlain DEF Debtors, Holders
  <2>4. Typed'
    <3>1. \A r \in Processes : Shape(todo'[r])
      BY <2>2, EmptyPlain DEF WInv, Typed
    <3>2. QED
      BY <1>0, <1>4, <2>2, <3>1 DEF WInv, Typed, settings, thread
  <2>5. Settled' /\ OneHolder'
    BY <1>4, <2>3, DebtorsFinite DEF WInv, Settled, OneHolder
  <2>6. QED
    BY <2>4, <2>5 DEF WInv
<1>5. <<Do("state", OT_DOG_SELFCLR), Do("set_current_margin", 0)>> \in Seq(Commands)
      /\ Plain(<<Do("state", OT_DOG_SELFCLR), Do("set_current_margin", 0)>>)
  BY DEF Do, Commands, OtherOps, OpenOps, Args, Plain
<1>6. QED
  BY <1>1, <1>2, <1>3, <1>4, <1>5, EmptyPlain DEF StepOpening

\* A process without a call begins one that owes nothing.
LEMMA BeginPlain ==
  ASSUME WInv, NEW p \in Processes, todo[p] = <<>>, NEW steps \in Seq(Commands), Plain(steps),
         todo' = [todo EXCEPT ![p] = steps]
  PROVE  /\ todo' \in [Processes -> Seq(Commands)]
         /\ \A r \in Processes : Shape(todo'[r])
         /\ Debtors' = Debtors /\ Holders' = Holders
  BY PlainHasNoEnd, EmptyPlain, SameEnd

LEMMA IoctlKeeps == ASSUME WInv, NEW c \in Callers, ot_dog_ioctl(c) PROVE WInv'
<1>1. ASSUME NEW steps \in Seq(Commands), Plain(steps), Begin(c, steps)
      PROVE  WInv'
  <2>1. c \in Processes /\ todo[c] = <<>> /\ todo' = [todo EXCEPT ![c] = steps]
        /\ module # "absent" /\ UNCHANGED <<settings, thread, module, opening>>
    BY <1>1 DEF Begin, Busy, Processes, ot_dog_ioctl
  <2>2. /\ todo' \in [Processes -> Seq(Commands)] /\ \A r \in Processes : Shape(todo'[r])
        /\ Debtors' = Debtors /\ Holders' = Holders
    BY <1>1, <2>1, BeginPlain
  <2>3. Typed'
    BY <2>1, <2>2 DEF WInv, Typed, settings, thread, opening
  <2>4. QED
    BY <2>1, <2>2, <2>3, CountsKept
<1>2. EnableCard \in Seq(Commands) /\ Plain(EnableCard)
  BY Calls, OneStep, ConcatPlain DEF EnableCard, OtherOps, Args
<1>3. DisableCard \in Seq(Commands) /\ Plain(DisableCard)
  BY Calls DEF DisableCard
<1>4. ASSUME NEW t \in Margins
      PROVE  SetTimeout(t) \in Seq(Commands) /\ Plain(SetTimeout(t))
  BY Calls, EmptyPlain, ConcatPlain, MarginAssumption DEF SetTimeout
<1>5. QED
  BY <1>1, <1>2, <1>3, <1>4, Calls DEF ot_dog_ioctl

LEMMA OpenKeeps == ASSUME WInv, NEW c \in Callers, ot_dog_open(c) PROVE WInv'
<1> DEFINE o == IF g_driver_open = 1 THEN "opened" ELSE "refuse"
           q == IF g_driver_open = 1 THEN ot_dog_feed \o <<Do("opened", 0)>> ELSE <<Do("refuse", 0)>>
<1>1. c \in Processes /\ todo[c] = <<>> /\ todo' = [todo EXCEPT ![c] = q]
      /\ module # "absent" /\ UNCHANGED <<settings, thread, module, files>>
      /\ g_driver_open' = g_driver_open - 1
  BY DEF ot_dog_open, Begin, Busy, Processes
<1>2. q \in Seq(Commands) /\ Shape(q) /\ End(q) = o
  <2>1. CASE g_driver_open = 1
    BY <2>1, Calls, AppendEnd DEF OpenOps
  <2>2. CASE g_driver_open # 1
    <3>1. Do("refuse", 0) \in Commands /\ Do("refuse", 0).op = "refuse"
      BY DEF Do, Commands, OpenOps, Args
    <3>2. QED
      BY <2>2, <3>1 DEF Shape, End, OpenOps
  <2>3. QED
    BY <2>1, <2>2
<1>3. /\ todo' \in [Processes -> Seq(Commands)] /\ \A r \in Processes : Shape(todo'[r])
      /\ Cardinality(Debtors') = Cardinality(Debtors) + 1
      /\ Holders' = IF o = "refuse" THEN Holders ELSE Holders \cup {c}
  <2>1. End(q) \in {"opened", "release", "refuse"}
    BY <1>2
  <2>2. QED
    BY <1>1, <1>2, <2>1, Owes
<1>4. g_driver_open \in Int /\ files \in Nat
  BY DEF WInv, Typed
<1>5. Typed'
  BY <1>1, <1>3, <1>4 DEF WInv, Typed, settings, thread
<1>6. Settled'
  BY <1>1, <1>3, <1>4, DebtorsFinite DEF WInv, Settled
<1>7. OneHolder'
  <2>1. CASE o = "refuse"
    BY <1>1, <1>3, <2>1 DEF WInv, OneHolder
  <2>2. CASE g_driver_open = 1
    <3>1. files = 0 /\ Cardinality(Debtors) = 0
      BY <1>4, <2>2, DebtorsFinite DEF WInv, Settled
    <3>2. Holders = {}
      BY <3>1, DebtorsFinite, FS_EmptySet
    <3>3. QED
      BY <1>1, <1>3, <2>2, <3>1, <3>2 DEF OneHolder
  <2>3. QED
    BY <2>1, <2>2
<1>8. QED
  BY <1>5, <1>6, <1>7 DEF WInv

LEMMA ReleaseKeeps == ASSUME WInv, NEW c \in Callers, ot_dog_release(c) PROVE WInv'
<1> DEFINE q == <<Do("release", 0)>>
<1>1. c \in Processes /\ todo[c] = <<>> /\ todo' = [todo EXCEPT ![c] = q]
      /\ module # "absent" /\ UNCHANGED <<settings, thread, module, g_driver_open>>
      /\ files > 0 /\ files' = files - 1
  BY DEF ot_dog_release, Begin, Busy, Processes
<1>2. q \in Seq(Commands) /\ Shape(q) /\ End(q) = "release"
  <2>1. Do("release", 0) \in Commands /\ Do("release", 0).op = "release"
    BY DEF Do, Commands, OpenOps, Args
  <2>2. QED
    BY <2>1 DEF Shape, End, OpenOps
<1>3. /\ todo' \in [Processes -> Seq(Commands)] /\ \A r \in Processes : Shape(todo'[r])
      /\ Cardinality(Debtors') = Cardinality(Debtors) + 1
      /\ Holders' = Holders \cup {c}
  BY <1>1, <1>2, Owes
<1>4. g_driver_open \in Int /\ files \in Nat
  BY DEF WInv, Typed
<1>5. Typed'
  BY <1>1, <1>3, <1>4 DEF WInv, Typed, settings, thread
<1>6. Settled'
  BY <1>1, <1>3, <1>4, DebtorsFinite DEF WInv, Settled
<1>7. OneHolder'
  BY <1>1, <1>3, <1>4 DEF WInv, OneHolder
<1>8. QED
  BY <1>5, <1>6, <1>7 DEF WInv

LEMMA DeamonKeeps ==
  ASSUME WInv, ot_dog_deamon \/ DaemonSleeps \/ DaemonWakes
  PROVE  WInv'
<1>1. Daemon \in Processes
  BY DEF Processes
<1>2. CASE ot_dog_deamon /\ UNCHANGED todo
  <2>1. UNCHANGED <<settings, opening, module>> /\ module # "absent"
    BY <1>2 DEF ot_dog_deamon, WInv, Typed
  <2>2. QED
    BY <1>2, <2>1 DEF WInv, Typed, Settled, OneHolder, Debtors, Holders, settings, opening
<1>3. ASSUME ot_dog_deamon, NEW steps \in {ot_dog_feed, <<>>},
             todo' = [todo EXCEPT ![Daemon] = steps \o <<Do("sleep", 0)>>]
      PROVE  WInv'
  <2>1. UNCHANGED <<settings, opening, module>> /\ module # "absent" /\ todo[Daemon] = <<>>
    BY <1>3 DEF ot_dog_deamon, WInv, Typed, Busy
  <2>2. steps \o <<Do("sleep", 0)>> \in Seq(Commands) /\ Plain(steps \o <<Do("sleep", 0)>>)
    BY <1>3, Calls, EmptyPlain, OneStep, ConcatPlain DEF OtherOps, Args
  <2>3. /\ todo' \in [Processes -> Seq(Commands)] /\ \A r \in Processes : Shape(todo'[r])
        /\ Debtors' = Debtors /\ Holders' = Holders
    BY <1>1, <1>3, <2>1, <2>2, BeginPlain
  <2>4. Typed'
    BY <2>1, <2>3 DEF WInv, Typed, settings, opening
  <2>5. QED
    BY <2>1, <2>3, <2>4, CountsKept
<1>4. CASE DaemonSleeps
  <2>1. UNCHANGED <<settings, opening, module>> /\ module # "absent"
    BY <1>1, <1>4 DEF DaemonSleeps, At, Busy, WInv, Typed
  <2>2. /\ todo' \in [Processes -> Seq(Commands)] /\ \A r \in Processes : Shape(todo'[r])
        /\ Debtors' = Debtors /\ Holders' = Holders
    BY <1>1, <1>4, EmptyPlain, ThenKeeps DEF DaemonSleeps, OtherOps
  <2>3. Typed'
    BY <2>1, <2>2 DEF WInv, Typed, settings, opening
  <2>4. QED
    BY <2>1, <2>2, <2>3, CountsKept
<1>5. CASE DaemonWakes
  <2>1. UNCHANGED <<todo, settings, opening, module>> /\ module # "absent"
    BY <1>5 DEF DaemonWakes, WInv, Typed
  <2>2. QED
    BY <2>1 DEF WInv, Typed, Settled, OneHolder, Debtors, Holders, settings, opening
<1>6. QED
  BY <1>2, <1>3, <1>4, <1>5 DEF ot_dog_deamon

\* A call that is begun anew, or is forgotten, owes nothing more.
LEMMA Fewer ==
  ASSUME WInv, Typed', Debtors' \subseteq Debtors, Holders' \subseteq Holders, UNCHANGED opening
  PROVE  WInv'
<1>1. Cardinality(Debtors') <= Cardinality(Debtors) /\ Cardinality(Debtors') \in Nat
  BY DebtorsFinite, FS_Subset, FS_CardinalityType
<1>2. Settled'
  BY <1>1, DebtorsFinite DEF WInv, Typed, Settled, opening
<1>3. OneHolder'
  BY DEF WInv, OneHolder, opening
<1>4. QED
  BY <1>2, <1>3 DEF WInv

LEMMA LoadKeeps == ASSUME WInv, watchdog_init PROVE WInv'
<1>1. /\ module = "absent" /\ module' # "absent"
      /\ g_driver_open' = 1 /\ files' = files /\ g_cur_margin' = Margin
      /\ UNCHANGED todo \/ todo' = [todo EXCEPT ![Insmod] = ot_dog_init]
  BY DEF watchdog_init
<1>2. files = 0 /\ \A p \in Processes : todo[p] = <<>>
  BY <1>1 DEF WInv, Typed
<1>3. ot_dog_init \in Seq(Commands) /\ Plain(ot_dog_init)
  <2>1. <<Do("state", OT_DOG_SELFCLR), Do("create", 0)>> \in Seq(Commands)
        /\ Plain(<<Do("state", OT_DOG_SELFCLR), Do("create", 0)>>)
    BY DEF Do, Commands, OtherOps, OpenOps, Args, Plain
  <2>2. QED
    BY <2>1, Calls, ConcatPlain DEF ot_dog_init
<1>4. /\ todo' \in [Processes -> Seq(Commands)] /\ \A r \in Processes : Shape(todo'[r])
      /\ Debtors' = Debtors /\ Holders' = Holders
  <2>1. CASE UNCHANGED todo
    BY <2>1 DEF WInv, Typed, Debtors, Holders
  <2>2. CASE todo' = [todo EXCEPT ![Insmod] = ot_dog_init]
    BY <1>2, <1>3, <2>2, BeginPlain DEF Processes
  <2>3. QED
    BY <1>1, <2>1, <2>2
<1>5. Debtors = {} /\ Holders = {}
  BY <1>2, EmptyPlain DEF Debtors, Holders
<1>6. Cardinality(Debtors') = 0
  BY <1>4, <1>5, FS_EmptySet
<1>7. Typed'
  BY <1>1, <1>2, <1>4, MarginAssumption DEF WInv, Typed
<1>8. QED
  BY <1>1, <1>2, <1>4, <1>5, <1>6, <1>7 DEF WInv, Settled, OneHolder

LEMMA ModuleKeeps ==
  ASSUME WInv, StepCreate \/ StepKthreadStop \/ Joined
  PROVE  WInv'
<1>1. PICK p \in {Insmod, Rmmod}, op \in {"create", "kthread_stop", "join"} :
        At(p, op) /\ Then(p, <<>>)
  BY DEF StepCreate, StepKthreadStop, Joined
<1>2. p \in Processes
  BY DEF Processes
<1>3. /\ todo' \in [Processes -> Seq(Commands)] /\ \A r \in Processes : Shape(todo'[r])
      /\ Debtors' = Debtors /\ Holders' = Holders
  BY <1>1, <1>2, EmptyPlain, ThenKeeps DEF OtherOps
<1>4. module # "absent"
  BY <1>1, <1>2 DEF At, Busy, WInv, Typed
<1>5. module' # "absent" /\ UNCHANGED <<settings, opening>>
  BY <1>4 DEF StepCreate, StepKthreadStop, Joined
<1>6. Typed'
  BY <1>3, <1>5 DEF WInv, Typed, settings, opening
<1>7. QED
  BY <1>3, <1>5, <1>6, CountsKept

LEMMA RemoveKeeps == ASSUME WInv, watchdog_exit PROVE WInv'
<1>1. Rmmod \in Processes /\ todo' = [todo EXCEPT ![Rmmod] = ot_dog_exit]
      /\ module' # "absent" /\ UNCHANGED <<settings, opening>>
  BY DEF watchdog_exit, Processes
<1>2. ot_dog_exit \in Seq(Commands) /\ Plain(ot_dog_exit)
  <2>1. <<Do("timeout", 0)>> \in Seq(Commands) /\ Plain(<<Do("timeout", 0)>>)
    BY OneTimeout
  <2>2. \A steps \in {<<Do("state", OT_DOG_EXIT)>>, <<Do("kthread_stop", 0)>>, <<Do("join", 0)>>, <<>>} :
          steps \in Seq(Commands) /\ Plain(steps)
    BY OneStep, EmptyPlain DEF OtherOps, Args
  <2>3. QED
    BY <2>1, <2>2, Calls, ConcatPlain DEF ot_dog_exit
<1>3. todo' \in [Processes -> Seq(Commands)] /\ todo'[Rmmod] = ot_dog_exit
      /\ \A r \in Processes : r # Rmmod => todo'[r] = todo[r]
  BY <1>1, <1>2 DEF WInv, Typed
<1>4. Shape(ot_dog_exit) /\ End(ot_dog_exit) = "none"
  BY <1>2, PlainHasNoEnd
<1>5. Debtors' \subseteq Debtors /\ Holders' \subseteq Holders
  BY <1>3, <1>4 DEF Debtors, Holders
<1>6. Typed'
  BY <1>1, <1>3, <1>4 DEF WInv, Typed, settings, opening
<1>7. QED
  BY <1>1, <1>5, <1>6, Fewer

LEMMA TimeKeeps == ASSUME WInv, Tick \/ Reset PROVE WInv'
<1>1. UNCHANGED <<settings, opening, module>>
  BY DEF Tick, Reset
<1>2. CASE UNCHANGED <<todo, daemon>>
  <2>1. QED
    BY <1>1, <1>2 DEF WInv, Typed, Settled, OneHolder, Debtors, Holders, settings, opening
<1>3. CASE todo' = [p \in Processes |-> <<>>] /\ daemon' = "none"
  <2>1. Typed'
    BY <1>1, <1>3, EmptyPlain DEF WInv, Typed, settings, opening
  <2>2. Debtors' \subseteq Debtors /\ Holders' \subseteq Holders
    BY <1>3, EmptyPlain DEF Debtors, Holders
  <2>3. QED
    BY <1>1, <2>1, <2>2, Fewer
<1>4. QED
  BY <1>2, <1>3 DEF Tick, Reset

-----------------------------------------------------------------------------
(* The theorem *)

LEMMA WInvInit == Init => WInv
<1> SUFFICES ASSUME Init PROVE WInv
  OBVIOUS
<1>1. todo = [p \in Processes |-> <<>>] /\ g_driver_open = 0 /\ files = 0
      /\ g_cur_margin \in Int /\ daemon = "none"
  BY MarginAssumption DEF Init
<1>2. Debtors = {} /\ Holders = {}
  BY <1>1, EmptyPlain DEF Debtors, Holders
<1>3. Cardinality(Debtors) = 0
  BY <1>2, FS_EmptySet
<1>4. Typed
  BY <1>1, EmptyPlain DEF Typed
<1>5. QED
  BY <1>1, <1>2, <1>3, <1>4 DEF WInv, Settled, OneHolder

LEMMA WInvStep == WInv /\ [Next]_vars => WInv'
<1> SUFFICES ASSUME WInv, [Next]_vars PROVE WInv'
  OBVIOUS
<1>1. ASSUME NEW p \in Processes, Step(p) PROVE WInv'
  BY <1>1, StepRegistersKeeps, StepReadRisKeeps, StepSettingsKeeps, StepOpeningKeeps DEF Step
<1>2. ASSUME NEW c \in Callers, ot_dog_open(c) \/ ot_dog_release(c) \/ ot_dog_ioctl(c)
      PROVE  WInv'
  BY <1>2, OpenKeeps, ReleaseKeeps, IoctlKeeps
<1>3. CASE UNCHANGED vars
  BY <1>3 DEF vars, WInv, Typed, Settled, OneHolder, Debtors, Holders, settings, opening, thread
<1>4. Daemon \in Processes /\ Insmod \in Processes /\ Rmmod \in Processes
      /\ \A c \in Callers : c \in Processes
  BY DEF Processes
<1>5. QED
  BY <1>1, <1>2, <1>3, <1>4, LoadKeeps, ModuleKeeps, RemoveKeeps, DeamonKeeps, TimeKeeps DEF Next

\* One program at a time has the device open, for any number of programs whose
\* opens, refused opens and closings meet in any order, while the module is
\* loaded and removed. (ot_wtdg.c:201-232)
THEOREM OneOpenerAlways == Spec => []OneOpener
<1>1. WInv => OneOpener
  BY DEF WInv, OneHolder, OneOpener
<1>2. QED
  BY <1>1, WInvInit, WInvStep, PTL DEF Spec

-----------------------------------------------------------------------------
(* Feeding in time. The invariant holds until calls meet: what a process   *)
(* still has to do tells the state of the timer and of what the thread     *)
(* looks at, and how long the thread has slept bounds how far the timer    *)
(* has run down since it raised the interrupt.                             *)

\* No margin is so short that the thread sleeps through it.
Long(t) == Count(t) > Nap
LongMargins == \A t \in Margins : Long(t)

\* A call that stands before its n-th step
From(q, n) == SubSeq(q, n, Len(q))

\* Steps that neither start nor stop the timer, nor keep the thread from feeding it
SafeSteps == [op : MarginOps, arg : {t \in Int : Long(t)}]
             \cup [op : {"read_ris", "clear", "set_current_margin"} \cup OpenOps, arg : {0}]
             \cup {Do("state", OT_DOG_SELFCLR)}

\* Loading and removing are under way, and end, when the module says so.
Places ==
  /\ \E n \in 1..5 : /\ todo[Insmod] = From(ot_dog_init, n)
                     /\ n <= 4 <=> module = "loading"
  /\ \E n \in 1..8 : /\ todo[Rmmod] = From(ot_dog_exit, n)
                     /\ n <= 7 => module = "leaving"

Timer ==
  /\ dog \in [enabled : BOOLEAN, load : Nat, value : Nat, ris : BOOLEAN]
  /\ dog.ris => dog.enabled
  /\ 1 <= dog.value /\ dog.value <= dog.load /\ dog.load > Nap

CurrentLong == module # "absent" => Long(g_cur_margin)

DaemonSteps ==
  {<<>>, <<Do("sleep", 0)>>, <<Do("read_ris", 0), Do("sleep", 0)>>, <<Do("clear", 0), Do("sleep", 0)>>}

\* The thread finds a raised interrupt in time, and may feed.
Feeding ==
  /\ todo[Daemon] \in DaemonSteps /\ (Busy(Daemon) => daemon = "awake")
  /\ todo[Daemon] = <<Do("sleep", 0)>> => ~dog.ris
  /\ dog.ris => g_options = ENABLECARD /\ g_ot_dog_state = OT_DOG_SELFCLR
  /\ slept \in Nat
  /\ dog.ris /\ daemon = "asleep" => slept > dog.load - dog.value

Idle == \A c \in Callers : todo[c] = <<>>
Alone == \A c, d \in Callers : todo[c] # <<>> /\ todo[d] # <<>> => c = d

Enabling == \E c \in Callers : todo[c] = From(EnableCard, 2)

Calling(c) ==
  \/ todo[c] \in Seq(SafeSteps)
  \/ todo[c] \in {From(EnableCard, 1), From(EnableCard, 2), From(DisableCard, 1)}
  \/ todo[c] \in {From(DisableCard, 2), From(DisableCard, 3)} /\ ~dog.enabled

Unloaded == /\ Idle /\ daemon = "none" /\ ~dog.ris /\ g_options = ENABLECARD
            /\ At(Insmod, "create") => g_ot_dog_state = OT_DOG_SELFCLR

Serving ==
  /\ g_ot_dog_state = OT_DOG_SELFCLR /\ daemon \in {"awake", "asleep"}
  /\ dog.enabled => g_options = ENABLECARD \/ Enabling
  /\ Alone /\ \A c \in Callers : Calling(c)

Leaving ==
  /\ Idle
  /\ dog.enabled => /\ todo[Rmmod] = From(ot_dog_exit, 1) \/ todo[Rmmod] = From(ot_dog_exit, 2)
                    /\ g_ot_dog_state = OT_DOG_SELFCLR /\ daemon \in {"awake", "asleep"}

Stage ==
  /\ module \in {"absent", "loading", "loaded", "leaving", "gone"}
  /\ module \in {"absent", "loading"} => Unloaded
  /\ module = "loaded" => Serving
  /\ module \in {"leaving", "gone"} => Leaving

Fed == ~board_reset /\ Timer /\ CurrentLong /\ Feeding /\ Stage
Excused == overlap \/ module = "failed"
FInv == Places /\ (Excused \/ Fed)

-----------------------------------------------------------------------------
(* Calls by their steps *)

LEMMA EqualByItems ==
  ASSUME NEW q \in Seq(Commands), NEW r \in Seq(Commands), NEW t \in Seq(Commands),
         Len(t) = Len(q) + Len(r), \A i \in 1..Len(q) : t[i] = q[i],
         \A i \in 1..Len(r) : t[Len(q) + i] = r[i]
  PROVE  q \o r = t
<1>1. q \o r \in Seq(Commands) /\ Len(q \o r) = Len(t)
  OBVIOUS
<1>2. ASSUME NEW i \in 1..Len(t) PROVE (q \o r)[i] = t[i]
  <2>1. CASE i <= Len(q)
    BY <2>1
  <2>2. CASE i > Len(q)
    <3>1. i - Len(q) \in 1..Len(r) /\ Len(q) + (i - Len(q)) = i
      BY <2>2
    <3>2. QED
      BY <3>1, <2>2
  <2>3. QED
    BY <2>1, <2>2
<1>3. QED
  BY <1>1, <1>2, SeqEqual

\* A step that leads on to nothing else
LEMMA FromStep ==
  ASSUME NEW q \in Seq(Commands), NEW n \in 1..Len(q)
  PROVE  /\ From(q, n) # <<>> /\ Head(From(q, n)) = q[n]
         /\ From(q, n) \in Seq(Commands)
         /\ <<>> \o Tail(From(q, n)) = From(q, n + 1)
<1>1. Len(q) \in n..Len(q) /\ n \in 1..Len(q)
  OBVIOUS
<1>2. /\ Head(From(q, n)) = q[n]
      /\ Tail(From(q, n)) = From(q, n + 1)
  BY <1>1, HeadTailOfSubSeq DEF From
<1>3. \A i \in n..Len(q) : q[i] \in Commands
  OBVIOUS
<1>4. From(q, n) \in Seq(Commands) /\ Len(From(q, n)) = Len(q) - n + 1
  BY <1>1, <1>3, SubSeqProperties DEF From
<1>5. \A i \in (n + 1)..Len(q) : q[i] \in Commands
  OBVIOUS
<1>6. From(q, n + 1) \in Seq(Commands)
  BY <1>5, SubSeqProperties DEF From
<1>7. QED
  BY <1>2, <1>4, <1>6, ConcatEmptySeq

LEMMA FromEnd ==
  ASSUME NEW q \in Seq(Commands)
  PROVE  From(q, 1) = q /\ From(q, Len(q) + 1) = <<>>
  BY SubSeqFull, SubSeqEmpty DEF From

LEMMA FromSafe ==
  ASSUME NEW q \in Seq(Commands), NEW n \in 1..Len(q), \A i \in n..Len(q) : q[i] \in SafeSteps
  PROVE  From(q, n) \in Seq(SafeSteps)
  BY SubSeqProperties DEF From

LEMMA InitSteps ==
  /\ ot_dog_init \in Seq(Commands) /\ Len(ot_dog_init) = 4
  /\ ot_dog_init[1] = Do("start", 0) /\ ot_dog_init[2] = Do("options", ENABLECARD)
  /\ ot_dog_init[3] = Do("state", OT_DOG_SELFCLR) /\ ot_dog_init[4] = Do("create", 0)
<1>1. <<Do("state", OT_DOG_SELFCLR), Do("create", 0)>> \in Seq(Commands)
  BY DEF Do, Commands, OtherOps, OpenOps, Args, Plain
<1>2. ot_dog_start \in Seq(Commands) /\ Len(ot_dog_start) = 2
  BY Calls DEF ot_dog_start
<1>3. QED
  BY <1>1, <1>2 DEF ot_dog_init, ot_dog_start

LEMMA EnableSteps ==
  /\ EnableCard \in Seq(Commands) /\ Len(EnableCard) = 3
  /\ EnableCard[1] = Do("start", 0) /\ EnableCard[2] = Do("options", ENABLECARD)
  /\ EnableCard[3] = Do("set_current_margin", 0)
<1>1. <<Do("set_current_margin", 0)>> \in Seq(Commands)
  BY OneStep DEF OtherOps, Args
<1>2. ot_dog_start \in Seq(Commands) /\ Len(ot_dog_start) = 2
  BY Calls DEF ot_dog_start
<1>3. QED
  BY <1>1, <1>2 DEF EnableCard, ot_dog_start

LEMMA DisableSteps ==
  /\ DisableCard \in Seq(Commands) /\ Len(DisableCard) = 3
  /\ DisableCard[1] = Do("stop", 0) /\ DisableCard[2] = Do("timeout", 0)
  /\ DisableCard[3] = Do("options", DISABLECARD)
  BY Calls DEF DisableCard, ot_dog_stop

\* One step more
LEMMA OneMore ==
  ASSUME NEW q \in Seq(Commands), NEW s \in Commands
  PROVE  /\ q \o <<s>> \in Seq(Commands) /\ Len(q \o <<s>>) = Len(q) + 1
         /\ \A i \in 1..Len(q) : (q \o <<s>>)[i] = q[i]
         /\ (q \o <<s>>)[Len(q) + 1] = s
  OBVIOUS

LEMMA ExitSteps ==
  ASSUME ~NoDaemon
  PROVE  /\ ot_dog_exit \in Seq(Commands) /\ Len(ot_dog_exit) = 7
         /\ ot_dog_exit[1] = Do("timeout", 0) /\ ot_dog_exit[2] = Do("stop", 0)
         /\ ot_dog_exit[3] = Do("timeout", 0) /\ ot_dog_exit[4] = Do("options", DISABLECARD)
         /\ ot_dog_exit[5] = Do("state", OT_DOG_EXIT) /\ ot_dog_exit[6] = Do("kthread_stop", 0)
         /\ ot_dog_exit[7] = Do("join", 0)
<1>1. /\ Do("timeout", 0) \in Commands /\ Do("state", OT_DOG_EXIT) \in Commands
      /\ Do("kthread_stop", 0) \in Commands /\ Do("join", 0) \in Commands
  BY DEF Do, Commands, OtherOps, MarginOps, Args
<1>2. ot_dog_stop \in Seq(Commands) /\ Len(ot_dog_stop) = 3
  BY Calls DEF ot_dog_stop
<1> DEFINE a == <<Do("timeout", 0)>> \o ot_dog_stop
           b == a \o <<Do("state", OT_DOG_EXIT)>>
           c == b \o <<Do("kthread_stop", 0)>>
<1>3. ot_dog_exit = c \o <<Do("join", 0)>>
  BY DEF ot_dog_exit
<1>4. /\ a \in Seq(Commands) /\ Len(a) = 4 /\ a[1] = Do("timeout", 0) /\ a[2] = Do("stop", 0)
      /\ a[3] = Do("timeout", 0) /\ a[4] = Do("options", DISABLECARD)
  BY <1>1, <1>2 DEF ot_dog_stop
<1>5. /\ b \in Seq(Commands) /\ Len(b) = 5 /\ \A i \in 1..4 : b[i] = a[i]
      /\ b[5] = Do("state", OT_DOG_EXIT)
  <2> HIDE DEF a
  <2>1. /\ b \in Seq(Commands) /\ Len(b) = Len(a) + 1
        /\ \A i \in 1..Len(a) : b[i] = a[i]
        /\ b[Len(a) + 1] = Do("state", OT_DOG_EXIT)
    BY <1>1, <1>4, OneMore, Zenon
  <2> HIDE DEF b
  <2>2. QED
    BY <1>4, <2>1
<1>6. /\ c \in Seq(Commands) /\ Len(c) = 6 /\ \A i \in 1..5 : c[i] = b[i]
      /\ c[6] = Do("kthread_stop", 0)
  <2> HIDE DEF b
  <2>1. /\ c \in Seq(Commands) /\ Len(c) = Len(b) + 1
        /\ \A i \in 1..Len(b) : c[i] = b[i]
        /\ c[Len(b) + 1] = Do("kthread_stop", 0)
    BY <1>1, <1>5, OneMore, Zenon
  <2> HIDE DEF c
  <2>2. QED
    BY <1>5, <2>1
<1>7. /\ ot_dog_exit \in Seq(Commands) /\ Len(ot_dog_exit) = 7
      /\ \A i \in 1..6 : ot_dog_exit[i] = c[i]
      /\ ot_dog_exit[7] = Do("join", 0)
  <2> HIDE DEF c
  <2>1. /\ ot_dog_exit \in Seq(Commands) /\ Len(ot_dog_exit) = Len(c) + 1
        /\ \A i \in 1..Len(c) : ot_dog_exit[i] = c[i]
        /\ ot_dog_exit[Len(c) + 1] = Do("join", 0)
    BY <1>1, <1>6, OneMore, <1>3, Zenon
  <2>2. QED
    BY <1>6, <2>1
<1>8. QED
  <2> HIDE DEF a, b, c
  <2>1. QED
    BY <1>4, <1>5, <1>6, <1>7

LEMMA DaemonCalls ==
  /\ ot_dog_feed \o <<Do("sleep", 0)>> = <<Do("read_ris", 0), Do("sleep", 0)>>
  /\ <<>> \o <<Do("sleep", 0)>> = <<Do("sleep", 0)>>
  /\ <<Do("clear", 0)>> \o Tail(<<Do("read_ris", 0), Do("sleep", 0)>>)
       = <<Do("clear", 0), Do("sleep", 0)>>
  /\ <<>> \o Tail(<<Do("read_ris", 0), Do("sleep", 0)>>) = <<Do("sleep", 0)>>
  /\ <<>> \o Tail(<<Do("clear", 0), Do("sleep", 0)>>) = <<Do("sleep", 0)>>
  /\ <<>> \o Tail(<<Do("sleep", 0)>>) = <<>>
<1>1. /\ Do("sleep", 0) \in Commands /\ Do("read_ris", 0) \in Commands /\ Do("clear", 0) \in Commands
  BY DEF Do, Commands, OtherOps, Args
<1>2. \A a, b \in Commands : <<a>> \o <<b>> = <<a, b>>
  <2> SUFFICES ASSUME NEW a \in Commands, NEW b \in Commands PROVE <<a>> \o <<b>> = <<a, b>>
    OBVIOUS
  <2>1. <<a>> \in Seq(Commands) /\ <<b>> \in Seq(Commands) /\ <<a, b>> \in Seq(Commands)
    OBVIOUS
  <2>2. (<<a>> \o <<b>>) \in Seq(Commands) /\ Len(<<a>> \o <<b>>) = Len(<<a, b>>)
    BY <2>1
  <2>3. \A i \in 1..Len(<<a>> \o <<b>>) : (<<a>> \o <<b>>)[i] = <<a, b>>[i]
    OBVIOUS
  <2>4. QED
    BY <2>1, <2>2, <2>3, SeqEqual
<1>3. /\ Tail(<<Do("read_ris", 0), Do("sleep", 0)>>) = <<Do("sleep", 0)>>
      /\ Tail(<<Do("clear", 0), Do("sleep", 0)>>) = <<Do("sleep", 0)>>
      /\ Tail(<<Do("sleep", 0)>>) = <<>>
  OBVIOUS
<1>4. <<Do("sleep", 0)>> \in Seq(Commands) /\ <<>> \in Seq(Commands)
  BY <1>1
<1>5. <<>> \o <<Do("sleep", 0)>> = <<Do("sleep", 0)>> /\ <<>> \o <<>> = <<>>
  BY <1>4, ConcatEmptySeq
<1>6. QED
  BY <1>1, <1>2, <1>3, <1>5 DEF ot_dog_feed
-----------------------------------------------------------------------------
(* What the steps do to the timer *)

LEMMA NapBounds == Nap \in Nat /\ 1 <= Nap /\ Nap <= MaxMargin
  BY MarginAssumption DEF Nap, g_default_margin

LEMMA LongOnes ==
  /\ Long(0) /\ Long(Margin) /\ Long(MaxMargin) /\ Long(g_default_margin)
  /\ \A t \in Int : t <= 0 => Long(t)
  BY MarginAssumption DEF Long, Count, Nap, g_default_margin

LEMMA CountLong == ASSUME NEW t \in Int, Long(t) PROVE Count(t) \in Nat /\ Count(t) > Nap
  BY MarginAssumption DEF Long, Count

LEMMA ForcedLong ==
  ASSUME NEW t \in Int, Long(t), g_cur_margin \in Int, Long(g_cur_margin)
  PROVE  Forced(t) \in Int /\ Long(Forced(t))
  BY LongOnes, MarginAssumption DEF Forced

\* Only starting enables the timer, and none of the steps raises the interrupt or lets it run down.
LEMMA RegisterSteps ==
  ASSUME Timer, NEW p \in Processes, StepRegisters(p),
         At(p, "timeout") => Arg(p) \in Int /\ Long(Arg(p))
  PROVE  /\ Timer'
         /\ dog'.ris => dog.ris /\ dog'.load - dog'.value <= dog.load - dog.value
         /\ dog'.enabled => dog.enabled \/ At(p, "start")
         /\ At(p, "stop") => ~dog'.enabled
         /\ At(p, "start") => ~dog'.ris
         /\ At(p, "clear") => ~dog'.ris
<1>1. CASE At(p, "timeout") /\ dog' = Loaded(Count(Arg(p)))
  <2>1. Count(Arg(p)) \in Nat /\ Count(Arg(p)) > Nap
    BY <1>1, CountLong
  <2>2. ~At(p, "start") /\ ~At(p, "stop") /\ ~At(p, "clear")
    BY <1>1 DEF At
  <2>3. /\ dog' \in [enabled : BOOLEAN, load : Nat, value : Nat, ris : BOOLEAN]
        /\ dog'.ris = dog.ris /\ dog'.enabled = dog.enabled
        /\ dog'.load = Count(Arg(p)) /\ dog'.value = Count(Arg(p))
    BY <1>1, <2>1 DEF Timer, Loaded
  <2>4. Timer'
    BY <2>1, <2>3, NapBounds DEF Timer, Nap
  <2>5. dog'.load - dog'.value <= dog.load - dog.value
    BY <2>1, <2>3 DEF Timer
  <2>6. QED
    BY <2>2, <2>3, <2>4, <2>5
<1>2. CASE At(p, "start") /\ dog' = Started
  <2>1. ~At(p, "stop")
    BY <1>2 DEF At
  <2>2. /\ dog' \in [enabled : BOOLEAN, load : Nat, value : Nat, ris : BOOLEAN]
        /\ dog'.ris = FALSE /\ dog'.load = dog.load /\ dog'.value = dog.load
    BY <1>2 DEF Timer, Started
  <2>3. Timer'
    BY <2>2, NapBounds DEF Timer, Nap
  <2>4. QED
    BY <1>2, <2>1, <2>2, <2>3
<1>3. CASE At(p, "stop") /\ dog' = Stopped
  <2>1. /\ dog' \in [enabled : BOOLEAN, load : Nat, value : Nat, ris : BOOLEAN]
        /\ dog'.ris = FALSE /\ dog'.load = dog.load /\ dog'.value = dog.value /\ dog'.enabled = FALSE
    BY <1>3 DEF Timer, Stopped
  <2>2. Timer'
    BY <2>1, NapBounds DEF Timer, Nap
  <2>3. QED
    BY <2>1, <2>2
<1>4. CASE At(p, "clear") /\ dog' = Cleared
  <2>1. ~At(p, "stop")
    BY <1>4 DEF At
  <2>2. /\ dog' \in [enabled : BOOLEAN, load : Nat, value : Nat, ris : BOOLEAN]
        /\ dog'.ris = FALSE /\ dog'.load = dog.load /\ dog'.value = dog.load
        /\ dog'.enabled = dog.enabled
    BY <1>4 DEF Timer, Cleared
  <2>3. Timer'
    BY <2>2, NapBounds DEF Timer, Nap
  <2>4. QED
    BY <2>1, <2>2, <2>3
<1>5. QED
  BY <1>1, <1>2, <1>3, <1>4 DEF StepRegisters

\* A step that leads on changes the call of its process only.
LEMMA Follows ==
  ASSUME Typed, NEW p \in Processes, NEW steps, Then(p, steps)
  PROVE  /\ todo'[p] = steps \o Tail(todo[p])
         /\ \A r \in Processes : r # p => todo'[r] = todo[r]
  BY DEF Typed, Then

LEMMA Apart ==
  /\ Callers \subseteq Processes /\ Daemon \in Processes /\ Insmod \in Processes /\ Rmmod \in Processes
  /\ \A c \in Callers : c # Daemon /\ c # Insmod /\ c # Rmmod
  /\ Daemon # Insmod /\ Daemon # Rmmod /\ Insmod # Rmmod
  BY CallersAssumption DEF Processes, Daemon, Insmod, Rmmod

\* The thread finds what it needs if nobody else raises the interrupt, or stops feeding.
LEMMA FeedingKept ==
  ASSUME Feeding, Timer, Timer', todo'[Daemon] = todo[Daemon], UNCHANGED thread,
         dog'.ris => dog.ris /\ dog'.load - dog'.value <= dog.load - dog.value,
         dog'.ris => g_options' = ENABLECARD /\ g_ot_dog_state' = OT_DOG_SELFCLR
  PROVE  Feeding'
<1>1. daemon' = daemon /\ slept' = slept
  BY DEF thread
<1>2. Busy(Daemon)' => daemon' = "awake"
  BY <1>1 DEF Feeding, Busy
<1>3. dog'.ris /\ daemon' = "asleep" => slept' > dog'.load - dog'.value
  <2>1. SUFFICES ASSUME dog'.ris, daemon' = "asleep" PROVE slept' > dog'.load - dog'.value
    OBVIOUS
  <2>2. slept > dog.load - dog.value
    BY <1>1, <2>1 DEF Feeding
  <2>3. slept' \in Nat /\ dog'.load - dog'.value <= dog.load - dog.value
        /\ dog'.load \in Nat /\ dog'.value \in Nat /\ dog.load \in Nat /\ dog.value \in Nat
    BY <1>1, <2>1 DEF Feeding, Timer
  <2>4. QED
    BY <1>1, <2>2, <2>3
<1>4. QED
  BY <1>1, <1>2, <1>3 DEF Feeding

-----------------------------------------------------------------------------
(* Programs *)

LEMMA CallerGoesOn ==
  ASSUME Fed, ~overlap, module = "loaded", NEW c \in Callers,
         \A d \in Callers : d # c => todo[d] = <<>>,
         \A r \in Processes : r # c => todo'[r] = todo[r],
         UNCHANGED <<board_reset, thread, module>>,
         Timer', Long(g_cur_margin)', g_ot_dog_state' = OT_DOG_SELFCLR, Calling(c)',
         dog'.ris => dog.ris /\ dog'.load - dog'.value <= dog.load - dog.value,
         dog'.ris => g_options' = ENABLECARD,
         dog'.enabled => g_options' = ENABLECARD \/ todo'[c] = From(EnableCard, 2)
  PROVE  Fed'
<1>1. ~board_reset' /\ module' = "loaded" /\ CurrentLong'
  BY DEF Fed, CurrentLong
<1>2. Feeding'
  <2>1. todo'[Daemon] = todo[Daemon]
    BY Apart
  <2>2. Feeding /\ Timer /\ UNCHANGED thread
    BY DEF Fed
  <2>3. QED
    BY <2>1, <2>2, FeedingKept
<1>3. \A d \in Callers : d # c => todo'[d] = <<>>
  BY Apart
<1>4. Alone'
  BY <1>3 DEF Alone
<1>5. \A d \in Callers : Calling(d)'
  <2>1. <<>> \in Seq(SafeSteps)
    OBVIOUS
  <2>2. QED
    BY <1>3, <2>1 DEF Calling
<1>6. Serving'
  <2>1. daemon' \in {"awake", "asleep"}
    BY DEF Fed, Stage, Serving, thread
  <2>2. dog'.enabled => g_options' = ENABLECARD \/ Enabling'
    BY DEF Enabling
  <2>3. QED
    BY <1>4, <1>5, <2>1, <2>2 DEF Serving
<1>7. Stage'
  BY <1>1, <1>6 DEF Stage
<1>8. QED
  BY <1>1, <1>2, <1>7 DEF Fed

\* The steps of a call that may be anything but safe
LEMMA NotSafe ==
  ASSUME NEW n \in 1..3
  PROVE  /\ From(EnableCard, n) # <<>> /\ Head(From(EnableCard, n)) = EnableCard[n]
         /\ <<>> \o Tail(From(EnableCard, n)) = From(EnableCard, n + 1)
         /\ From(DisableCard, n) # <<>> /\ Head(From(DisableCard, n)) = DisableCard[n]
         /\ <<>> \o Tail(From(DisableCard, n)) = From(DisableCard, n + 1)
         /\ From(EnableCard, 3) \in Seq(SafeSteps) /\ From(DisableCard, 4) = <<>>
<1>1. EnableCard \in Seq(Commands) /\ n \in 1..Len(EnableCard)
  BY EnableSteps
<1>2. DisableCard \in Seq(Commands) /\ n \in 1..Len(DisableCard)
  BY DisableSteps
<1>3. From(EnableCard, 3) \in Seq(SafeSteps)
  <2>1. EnableCard[3] \in SafeSteps
    BY EnableSteps DEF SafeSteps, Do
  <2>2. 3 \in 1..Len(EnableCard) /\ \A i \in 3..Len(EnableCard) : i = 3
    BY EnableSteps
  <2>3. QED
    BY <1>1, <2>1, <2>2, FromSafe
<1>4. From(DisableCard, 4) = <<>>
  <2>1. From(DisableCard, Len(DisableCard) + 1) = <<>>
    BY <1>2, FromEnd
  <2>2. QED
    BY <2>1, DisableSteps
<1>5. QED
  BY <1>1, <1>2, <1>3, <1>4, FromStep

\* A call whose steps are all safe
LEMMA SafeNext ==
  ASSUME NEW p, todo[p] \in Seq(SafeSteps), NEW op, At(p, op)
  PROVE  /\ Tail(todo[p]) \in Seq(SafeSteps)
         /\ Head(todo[p]) \in SafeSteps
         /\ op \in MarginOps => Arg(p) \in Int /\ Long(Arg(p))
         /\ op \in {"timeout", "set_margin", "read_ris", "clear", "set_current_margin", "state"} \cup OpenOps
         /\ op = "state" => Arg(p) = OT_DOG_SELFCLR
<1>1. todo[p] # <<>> /\ Head(todo[p]).op = op
  BY DEF At, Busy
<1>2. Head(todo[p]) \in SafeSteps /\ Tail(todo[p]) \in Seq(SafeSteps)
  BY <1>1
<1>3. QED
  BY <1>1, <1>2 DEF SafeSteps, MarginOps, OpenOps, Arg, Do

LEMMA SafeCalls ==
  /\ <<Do("clear", 0)>> \in Seq(SafeSteps) /\ ot_dog_feed \in Seq(SafeSteps)
  /\ \A t \in Int : Long(t) => /\ ot_dog_set_heartbeat(t) \in Seq(SafeSteps)
                             /\ <<Do("timeout", t)>> \in Seq(SafeSteps)
  /\ <<Do("state", OT_DOG_SELFCLR), Do("set_current_margin", 0)>> \in Seq(SafeSteps)
  /\ \A op \in OpenOps : <<Do(op, 0)>> \in Seq(SafeSteps)
<1>1. /\ Do("clear", 0) \in SafeSteps /\ Do("read_ris", 0) \in SafeSteps
      /\ Do("state", OT_DOG_SELFCLR) \in SafeSteps /\ Do("set_current_margin", 0) \in SafeSteps
      /\ \A op \in OpenOps : Do(op, 0) \in SafeSteps
  BY DEF Do, SafeSteps
<1>2. ASSUME NEW t \in Int, Long(t)
      PROVE  Do("set_margin", t) \in SafeSteps /\ Do("timeout", t) \in SafeSteps
  BY <1>2 DEF Do, SafeSteps, MarginOps
<1>3. QED
  BY <1>1, <1>2 DEF ot_dog_feed, ot_dog_set_heartbeat

\* Where a caller that takes a step stands
LEMMA CallerStands ==
  ASSUME Fed, NEW c \in Callers, Busy(c), ~Excused
  PROVE  /\ module = "loaded" /\ Serving /\ \A d \in Callers : d # c => todo[d] = <<>>
         /\ \/ todo[c] \in Seq(SafeSteps)
            \/ \E n \in 1..2 : todo[c] = From(EnableCard, n)
            \/ \E n \in 1..3 : todo[c] = From(DisableCard, n) /\ (n > 1 => ~dog.enabled)
<1>1. module = "loaded"
  BY DEF Fed, Stage, Unloaded, Leaving, Idle, Busy
<1>2. Serving
  BY <1>1 DEF Fed, Stage
<1>3. \A d \in Callers : d # c => todo[d] = <<>>
  BY <1>2 DEF Serving, Alone, Busy
<1>4. Calling(c)
  BY <1>2 DEF Serving
<1>5. \/ todo[c] \in Seq(SafeSteps)
      \/ \E n \in 1..2 : todo[c] = From(EnableCard, n)
      \/ \E n \in 1..3 : todo[c] = From(DisableCard, n) /\ (n > 1 => ~dog.enabled)
  <2>1. CASE todo[c] = From(DisableCard, 1)
    <3>1. 1 \in 1..3 /\ ~(1 > 1)
      OBVIOUS
    <3>2. QED
      BY <2>1, <3>1
  <2>2. 1 \in 1..2 /\ 2 \in 1..2 /\ 2 \in 1..3 /\ 3 \in 1..3
    OBVIOUS
  <2>3. QED
    BY <1>4, <2>1, <2>2, Zenon DEF Calling
<1>6. QED
  BY <1>1, <1>2, <1>3, <1>5

\* Only one that stands there itself has enabled the timer before the option.
LEMMA OptionSet ==
  ASSUME Serving, dog.enabled, NEW c \in Callers, \A d \in Callers : d # c => todo[d] = <<>>,
         ~At(c, "options")
  PROVE  g_options = ENABLECARD
<1>1. CASE g_options # ENABLECARD
  <2>1. PICK d \in Callers : todo[d] = From(EnableCard, 2)
    BY <1>1 DEF Serving, Enabling
  <2>2. 2 \in 1..3
    OBVIOUS
  <2>3. todo[d] # <<>> /\ Head(todo[d]) = Do("options", ENABLECARD)
    BY <2>1, <2>2, NotSafe, EnableSteps
  <2>4. d = c
    BY <2>3
  <2>5. QED
    BY <2>3, <2>4 DEF At, Busy, Do
<1>2. QED
  BY <1>1

\* The first step of a call that is not safe
LEMMA EnableAt ==
  ASSUME NEW p, NEW n \in 1..2, todo[p] = From(EnableCard, n), NEW op, At(p, op)
  PROVE  (n = 1 /\ op = "start") \/ (n = 2 /\ op = "options" /\ Arg(p) = ENABLECARD)
<1>1. n \in 1..3 /\ (n = 1 \/ n = 2)
  OBVIOUS
<1>2. Head(todo[p]) = EnableCard[n]
  BY <1>1, NotSafe
<1>3. Head(todo[p]).op = op
  BY DEF At
<1>4. QED
  BY <1>1, <1>2, <1>3, EnableSteps DEF Do, Arg

LEMMA DisableAt ==
  ASSUME NEW p, NEW n \in 1..3, todo[p] = From(DisableCard, n), NEW op, At(p, op)
  PROVE  \/ n = 1 /\ op = "stop"
         \/ n = 2 /\ op = "timeout" /\ Arg(p) = 0
         \/ n = 3 /\ op = "options" /\ Arg(p) = DISABLECARD
<1>1. n = 1 \/ n = 2 \/ n = 3
  OBVIOUS
<1>2. Head(todo[p]) = DisableCard[n]
  BY NotSafe
<1>3. Head(todo[p]).op = op
  BY DEF At
<1>4. QED
  BY <1>1, <1>2, <1>3, DisableSteps DEF Do, Arg

LEMMA CallerRegisters ==
  ASSUME Typed, Fed, ~Excused, NEW c \in Callers, StepRegisters(c)
  PROVE  Fed'
<1>1. PICK op \in {"timeout", "start", "stop", "clear"} : At(c, op)
  BY DEF StepRegisters
<1>2. Then(c, <<>>) /\ UNCHANGED <<board_reset, settings, thread, module>>
  BY DEF StepRegisters
<1>3. c \in Processes /\ Busy(c)
  BY <1>1, Apart DEF At
<1>4. /\ module = "loaded" /\ Serving /\ \A d \in Callers : d # c => todo[d] = <<>>
      /\ \/ todo[c] \in Seq(SafeSteps)
         \/ \E n \in 1..2 : todo[c] = From(EnableCard, n)
         \/ \E n \in 1..3 : todo[c] = From(DisableCard, n) /\ (n > 1 => ~dog.enabled)
  BY <1>3, CallerStands
<1>5. todo'[c] = <<>> \o Tail(todo[c]) /\ \A r \in Processes : r # c => todo'[r] = todo[r]
  BY <1>2, <1>3, Follows
<1>6. At(c, "timeout") => Arg(c) \in Int /\ Long(Arg(c))
  <2>1. CASE todo[c] \in Seq(SafeSteps)
    BY <2>1, SafeNext DEF MarginOps
  <2>2. CASE \E n \in 1..2 : todo[c] = From(EnableCard, n)
    BY <2>2, EnableAt
  <2>3. CASE \E n \in 1..3 : todo[c] = From(DisableCard, n)
    BY <2>3, DisableAt, LongOnes
  <2>4. QED
    BY <1>4, <2>1, <2>2, <2>3
<1>7. /\ Timer'
      /\ dog'.ris => dog.ris /\ dog'.load - dog'.value <= dog.load - dog.value
      /\ dog'.enabled => dog.enabled \/ At(c, "start")
      /\ At(c, "stop") => ~dog'.enabled
      /\ At(c, "start") => ~dog'.ris
  <2>1. Timer
    BY DEF Fed
  <2>2. QED
    BY <1>3, <1>6, <2>1, RegisterSteps
<1>8. /\ Long(g_cur_margin)' /\ g_ot_dog_state' = OT_DOG_SELFCLR /\ g_options' = g_options
  <2>1. UNCHANGED <<g_cur_margin, g_ot_dog_state, g_options>>
    BY <1>2 DEF settings
  <2>2. Long(g_cur_margin) /\ g_ot_dog_state = OT_DOG_SELFCLR
    BY <1>4 DEF Fed, CurrentLong, Serving
  <2>3. QED
    BY <2>1, <2>2 DEF Long, Count, Nap, g_default_margin
<1>9. dog'.ris => g_options' = ENABLECARD
  BY <1>7, <1>8 DEF Fed, Feeding
<1>10. ASSUME Calling(c)', dog'.enabled => g_options' = ENABLECARD \/ todo'[c] = From(EnableCard, 2)
       PROVE  Fed'
  <2>1. ~overlap
    BY DEF Excused
  <2>2. QED
    BY <1>2, <1>4, <1>5, <1>7, <1>8, <1>9, <1>10, <2>1, CallerGoesOn
<1>11. ~At(c, "options")
  BY <1>1 DEF At
<1>12. dog'.enabled /\ ~At(c, "start") => g_options' = ENABLECARD
  BY <1>4, <1>7, <1>8, <1>11, OptionSet
<1>13. CASE todo[c] \in Seq(SafeSteps)
  <2>1. Tail(todo[c]) \in Seq(SafeSteps) /\ ~At(c, "start")
    BY <1>1, <1>13, SafeNext DEF OpenOps
  <2>2. todo'[c] \in Seq(SafeSteps)
    BY <1>5, <2>1, ConcatEmptySeq
  <2>3. Calling(c)'
    BY <2>2 DEF Calling
  <2>4. QED
    BY <1>10, <1>12, <2>1, <2>3
<1>14. ASSUME NEW n \in 1..2, todo[c] = From(EnableCard, n)
       PROVE  Fed'
  <2>1. n = 1
    BY <1>1, <1>14, EnableAt
  <2>2. 1 \in 1..3 /\ 1 + 1 = 2
    OBVIOUS
  <2>3. todo'[c] = From(EnableCard, 2)
    BY <1>5, <1>14, <2>1, <2>2, NotSafe
  <2>4. Calling(c)'
    BY <2>3 DEF Calling
  <2>5. QED
    BY <1>10, <2>3, <2>4
<1>15. ASSUME NEW n \in 1..3, todo[c] = From(DisableCard, n), n > 1 => ~dog.enabled
       PROVE  Fed'
  <2>1. /\ (n = 1 /\ At(c, "stop")) \/ (n = 2 /\ At(c, "timeout"))
        /\ ~At(c, "start")
    BY <1>1, <1>15, DisableAt
  <2>2. todo'[c] = From(DisableCard, n + 1)
    BY <1>5, <1>15, NotSafe
  <2>3. n + 1 = 2 \/ n + 1 = 3
    BY <2>1
  <2>4. ~dog'.enabled
    BY <1>7, <1>15, <2>1
  <2>5. Calling(c)'
    BY <2>2, <2>3, <2>4 DEF Calling
  <2>6. QED
    BY <1>10, <2>4, <2>5
<1>16. QED
  BY <1>4, <1>13, <1>14, <1>15

\* A step of a caller that leaves the timer alone
LEMMA CallerQuiet ==
  ASSUME Fed, ~Excused, module = "loaded", NEW c \in Callers,
         \A d \in Callers : d # c => todo[d] = <<>>,
         \A r \in Processes : r # c => todo'[r] = todo[r],
         UNCHANGED <<dog, board_reset, thread, module>>,
         Long(g_cur_margin)', g_ot_dog_state' = OT_DOG_SELFCLR, Calling(c)',
         dog.enabled => g_options' = ENABLECARD
  PROVE  Fed'
<1>1. Timer
  BY DEF Fed
<1>2. Timer'
  BY <1>1, NapBounds DEF Timer, Nap, g_default_margin
<1>3. dog'.ris => dog.ris /\ dog'.load - dog'.value <= dog.load - dog.value
  BY <1>1 DEF Timer
<1>4. dog'.ris => g_options' = ENABLECARD
  BY <1>1 DEF Timer
<1>5. ~overlap
  BY DEF Excused
<1>6. QED
  BY <1>2, <1>3, <1>4, <1>5, CallerGoesOn

\* Such a step, of a call whose steps are safe
LEMMA SafeGoesOn ==
  ASSUME Typed, Fed, ~Excused, NEW c \in Callers, todo[c] \in Seq(SafeSteps), Busy(c), ~At(c, "options"),
         NEW steps \in Seq(SafeSteps), Then(c, steps),
         UNCHANGED <<dog, board_reset, thread, module, g_options>>,
         Long(g_cur_margin)', g_ot_dog_state' = OT_DOG_SELFCLR
  PROVE  Fed'
<1>1. module = "loaded" /\ Serving /\ \A d \in Callers : d # c => todo[d] = <<>>
  BY CallerStands
<1>2. c \in Processes
  BY Apart
<1>3. todo'[c] = steps \o Tail(todo[c]) /\ \A r \in Processes : r # c => todo'[r] = todo[r]
  BY <1>2, Follows
<1>4. Tail(todo[c]) \in Seq(SafeSteps)
  BY DEF Busy
<1>5. todo'[c] \in Seq(SafeSteps)
  BY <1>3, <1>4
<1>6. Calling(c)'
  BY <1>5 DEF Calling
<1>7. dog.enabled => g_options' = ENABLECARD
  BY <1>1, OptionSet
<1>8. QED
  BY <1>1, <1>3, <1>6, <1>7, CallerQuiet

\* The margin a call finds is long enough.
LEMMA MarginKept ==
  ASSUME Fed, ~Excused, module # "absent", UNCHANGED g_cur_margin
  PROVE  Long(g_cur_margin) /\ Long(g_cur_margin)'
  BY DEF Fed, CurrentLong, Long, Count, Nap, g_default_margin

LEMMA CallerSettings ==
  ASSUME Typed, Fed, ~Excused, NEW c \in Callers, StepSettings(c)
  PROVE  Fed'
<1> UNCHANGED <<dog, board_reset, thread, module>>
  BY DEF StepSettings
<1>1. PICK op \in {"options", "state", "set_margin", "set_current_margin"} : At(c, op)
  BY DEF StepSettings
<1>2. c \in Processes /\ Busy(c)
  BY <1>1, Apart DEF At
<1>3. /\ module = "loaded" /\ Serving /\ \A d \in Callers : d # c => todo[d] = <<>>
      /\ \/ todo[c] \in Seq(SafeSteps)
         \/ \E n \in 1..2 : todo[c] = From(EnableCard, n)
         \/ \E n \in 1..3 : todo[c] = From(DisableCard, n) /\ (n > 1 => ~dog.enabled)
  BY <1>2, CallerStands
<1>4. g_cur_margin \in Int /\ Long(g_cur_margin) /\ g_ot_dog_state = OT_DOG_SELFCLR
  BY <1>3 DEF Fed, CurrentLong, Serving, Typed
<1>5. CASE op = "options"
  <2>1. At(c, "options") /\ g_options' = Arg(c) /\ Then(c, <<>>)
        /\ UNCHANGED <<g_cur_margin, g_ot_dog_state>>
    BY <1>1, <1>5 DEF StepSettings, At
  <2>2. todo[c] \notin Seq(SafeSteps)
    BY <2>1, SafeNext DEF OpenOps
  <2>3. todo'[c] = <<>> \o Tail(todo[c]) /\ \A r \in Processes : r # c => todo'[r] = todo[r]
    BY <1>2, <2>1, Follows
  <2>4. Long(g_cur_margin)' /\ g_ot_dog_state' = OT_DOG_SELFCLR
    BY <1>3, <1>4, <2>1, MarginKept
  <2>5. ASSUME NEW n \in 1..2, todo[c] = From(EnableCard, n)
        PROVE  Fed'
    <3>1. n = 2 /\ g_options' = ENABLECARD
      BY <2>1, <2>5, EnableAt
    <3>2. 2 \in 1..3 /\ 2 + 1 = 3
      OBVIOUS
    <3>3. todo'[c] \in Seq(SafeSteps)
      <4>1. /\ <<>> \o Tail(From(EnableCard, 2)) = From(EnableCard, 2 + 1)
            /\ From(EnableCard, 3) \in Seq(SafeSteps)
        BY <3>2, NotSafe
      <4>2. todo'[c] = <<>> \o Tail(From(EnableCard, 2))
        BY <2>3, <2>5, <3>1
      <4>3. QED
        BY <3>2, <4>1, <4>2
    <3>4. Calling(c)'
      BY <3>3 DEF Calling
    <3>5. QED
      BY <1>3, <2>3, <2>4, <3>1, <3>4, CallerQuiet
  <2>6. ASSUME NEW n \in 1..3, todo[c] = From(DisableCard, n), n > 1 => ~dog.enabled
        PROVE  Fed'
    <3>1. n = 3
      BY <2>1, <2>6, DisableAt
    <3>2. 3 \in 1..3 /\ 3 + 1 = 4
      OBVIOUS
    <3>3. todo'[c] = <<>>
      BY <2>3, <2>6, <3>1, <3>2, NotSafe
    <3>4. Calling(c)'
      <4>1. <<>> \in Seq(SafeSteps)
        OBVIOUS
      <4>2. QED
        BY <3>3, <4>1 DEF Calling
    <3>5. ~dog.enabled
      BY <2>6, <3>1
    <3>6. QED
      BY <1>3, <2>3, <2>4, <3>4, <3>5, CallerQuiet
  <2>7. QED
    BY <1>3, <2>2, <2>5, <2>6
<1>6. CASE op # "options"
  <2>1. todo[c] \in Seq(SafeSteps)
    <3>1. ~\E n \in 1..2 : todo[c] = From(EnableCard, n)
      BY <1>1, <1>6, EnableAt
    <3>2. ~\E n \in 1..3 : todo[c] = From(DisableCard, n)
      BY <1>1, <1>6, DisableAt
    <3>3. QED
      BY <1>3, <3>1, <3>2
  <2>2. ~At(c, "options")
    BY <1>1, <1>6 DEF At
  <2>3. CASE op = "state"
    <3>1. /\ At(c, "state") /\ g_ot_dog_state' = Arg(c) /\ Then(c, <<>>)
          /\ UNCHANGED <<g_options, g_cur_margin>>
      BY <1>1, <2>3 DEF StepSettings, At
    <3>2. Arg(c) = OT_DOG_SELFCLR /\ <<>> \in Seq(SafeSteps)
      BY <2>1, <3>1, SafeNext
    <3>3. Long(g_cur_margin)'
      BY <1>3, <3>1, MarginKept
    <3>4. QED
      BY <1>2, <2>1, <2>2, <3>1, <3>2, <3>3, SafeGoesOn
  <2>4. CASE op = "set_margin"
    <3>1. /\ At(c, "set_margin") /\ g_cur_margin' = Forced(Arg(c))
          /\ Then(c, <<Do("timeout", Forced(Arg(c)))>> \o ot_dog_feed)
          /\ UNCHANGED <<g_options, g_ot_dog_state>>
      BY <1>1, <2>4 DEF StepSettings, At
    <3>2. Arg(c) \in Int /\ Long(Arg(c))
      BY <2>1, <3>1, SafeNext DEF MarginOps
    <3>3. Forced(Arg(c)) \in Int /\ Long(Forced(Arg(c)))
      BY <1>4, <3>2, ForcedLong
    <3>4. <<Do("timeout", Forced(Arg(c)))>> \o ot_dog_feed \in Seq(SafeSteps)
      <4>1. <<Do("timeout", Forced(Arg(c)))>> \in Seq(SafeSteps) /\ ot_dog_feed \in Seq(SafeSteps)
        BY <3>3, SafeCalls
      <4>2. QED
        BY <4>1, ConcatProperties
    <3>5. Long(g_cur_margin)'
      BY <3>1, <3>3 DEF Long, Count, Nap, g_default_margin
    <3>6. g_ot_dog_state' = OT_DOG_SELFCLR
      BY <1>4, <3>1
    <3>7. QED
      BY <1>2, <2>1, <2>2, <3>1, <3>4, <3>5, <3>6, SafeGoesOn
  <2>5. CASE op = "set_current_margin"
    <3>1. /\ At(c, "set_current_margin") /\ Then(c, ot_dog_set_heartbeat(g_cur_margin))
          /\ UNCHANGED <<g_options, g_ot_dog_state, g_cur_margin>>
      BY <1>1, <2>5 DEF StepSettings, At, settings
    <3>2. ot_dog_set_heartbeat(g_cur_margin) \in Seq(SafeSteps)
      BY <1>4, SafeCalls
    <3>3. Long(g_cur_margin)' /\ g_ot_dog_state' = OT_DOG_SELFCLR
      BY <1>3, <1>4, <3>1, MarginKept
    <3>4. QED
      BY <1>2, <2>1, <2>2, <3>1, <3>2, <3>3, SafeGoesOn
  <2>6. QED
    BY <1>1, <1>6, <2>3, <2>4, <2>5
<1>7. QED
  BY <1>5, <1>6

LEMMA CallerReadsRis ==
  ASSUME Typed, Fed, ~Excused, NEW c \in Callers, StepReadRis(c)
  PROVE  Fed'
<1>1. At(c, "read_ris") /\ UNCHANGED <<dog, board_reset, settings, thread, module>>
  BY DEF StepReadRis
<1>2. PICK steps \in {<<>>, <<Do("clear", 0)>>} : Then(c, steps)
  BY DEF StepReadRis
<1>3. Busy(c) /\ ~At(c, "options") /\ UNCHANGED <<g_options, g_ot_dog_state, g_cur_margin>>
  BY <1>1 DEF At, settings
<1>4. module = "loaded" /\ Serving
  BY <1>3, CallerStands
<1>5. todo[c] \in Seq(SafeSteps)
  <2>1. ~\E n \in 1..2 : todo[c] = From(EnableCard, n)
    BY <1>1, EnableAt
  <2>2. ~\E n \in 1..3 : todo[c] = From(DisableCard, n)
    BY <1>1, DisableAt
  <2>3. QED
    BY <1>3, <2>1, <2>2, CallerStands
<1>6. steps \in Seq(SafeSteps)
  <2>1. <<>> \in Seq(SafeSteps)
    OBVIOUS
  <2>2. QED
    BY <1>2, <2>1, SafeCalls, Zenon
<1>7. Long(g_cur_margin)' /\ g_ot_dog_state' = OT_DOG_SELFCLR
  BY <1>3, <1>4, MarginKept DEF Serving
<1>8. QED
  BY <1>1, <1>2, <1>3, <1>5, <1>6, <1>7, SafeGoesOn

LEMMA CallerOpening ==
  ASSUME Typed, Fed, ~Excused, NEW c \in Callers, StepOpening(c)
  PROVE  Fed'
<1>1. UNCHANGED <<dog, board_reset, settings, thread, module>>
  BY DEF StepOpening
<1>2. PICK op \in OpenOps : At(c, op)
  BY DEF StepOpening, OpenOps
<1>3. PICK steps \in {<<>>, <<Do("state", OT_DOG_SELFCLR), Do("set_current_margin", 0)>>,
                      <<Do("keep_open", 0)>>} : Then(c, steps)
  BY DEF StepOpening
<1>4. Busy(c) /\ ~At(c, "options") /\ UNCHANGED <<g_options, g_ot_dog_state, g_cur_margin>>
  BY <1>1, <1>2 DEF At, settings, OpenOps
<1>5. module = "loaded" /\ Serving
  BY <1>4, CallerStands
<1>6. todo[c] \in Seq(SafeSteps)
  <2>1. ~\E n \in 1..2 : todo[c] = From(EnableCard, n)
    BY <1>2, EnableAt DEF OpenOps
  <2>2. ~\E n \in 1..3 : todo[c] = From(DisableCard, n)
    BY <1>2, DisableAt DEF OpenOps
  <2>3. QED
    BY <1>4, <2>1, <2>2, CallerStands
<1>7. steps \in Seq(SafeSteps)
  <2>1. <<>> \in Seq(SafeSteps)
    OBVIOUS
  <2>2. <<Do("keep_open", 0)>> \in Seq(SafeSteps)
    BY SafeCalls DEF OpenOps
  <2>3. QED
    BY <1>3, <2>1, <2>2, SafeCalls, Zenon
<1>8. Long(g_cur_margin)' /\ g_ot_dog_state' = OT_DOG_SELFCLR
  BY <1>4, <1>5, MarginKept DEF Serving
<1>9. QED
  BY <1>1, <1>3, <1>4, <1>6, <1>7, <1>8, SafeGoesOn

\* A call that begins meets another one, or is alone.
LEMMA CallerBegins ==
  ASSUME Typed, Fed, ~Excused, NEW c \in Callers, NEW steps, Begin(c, steps),
         steps \in Seq(SafeSteps) \cup {EnableCard, DisableCard}
  PROVE  Excused' \/ Fed'
<1>1. /\ todo[c] = <<>> /\ todo' = [todo EXCEPT ![c] = steps]
      /\ UNCHANGED <<dog, board_reset, settings, thread, module>>
      /\ overlap' = (overlap \/ module # "loaded" \/ \E other \in Callers : Busy(other))
  BY DEF Begin, Busy
<1>2. CASE overlap'
  BY <1>2 DEF Excused
<1>3. CASE ~overlap'
  <2>1. module = "loaded" /\ \A d \in Callers : todo[d] = <<>>
    BY <1>1, <1>3 DEF Busy
  <2>2. c \in Processes
    BY Apart
  <2>3. todo'[c] = steps /\ \A r \in Processes : r # c => todo'[r] = todo[r]
    BY <1>1, <2>2 DEF Typed
  <2>4. Serving
    BY <2>1 DEF Fed, Stage
  <2>5. UNCHANGED <<g_options, g_cur_margin, g_ot_dog_state>>
    BY <1>1 DEF settings
  <2>6. Long(g_cur_margin)' /\ g_ot_dog_state' = OT_DOG_SELFCLR
    BY <2>1, <2>4, <2>5, MarginKept DEF Serving
  <2>7. Calling(c)'
    <3>1. From(EnableCard, 1) = EnableCard /\ From(DisableCard, 1) = DisableCard
      BY EnableSteps, DisableSteps, FromEnd
    <3>2. QED
      BY <2>3, <3>1 DEF Calling
  <2>8. dog.enabled => g_options' = ENABLECARD
    <3>1. ~At(c, "options")
      BY <1>1 DEF At, Busy
    <3>2. \A d \in Callers : d # c => todo[d] = <<>>
      BY <2>1
    <3>3. QED
      BY <2>4, <2>5, <3>1, <3>2, OptionSet
  <2>9. \A d \in Callers : d # c => todo[d] = <<>>
    BY <2>1
  <2>10. QED
    BY <1>1, <2>1, <2>3, <2>6, <2>7, <2>8, <2>9, CallerQuiet
<1>4. QED
  BY <1>2, <1>3

LEMMA CallerOpens ==
  ASSUME Typed, Fed, ~Excused, NEW c \in Callers, ot_dog_open(c) \/ ot_dog_release(c)
  PROVE  Excused' \/ Fed'
<1>1. ot_dog_feed \o <<Do("opened", 0)>> \in Seq(SafeSteps)
  <2>1. ot_dog_feed \in Seq(SafeSteps) /\ <<Do("opened", 0)>> \in Seq(SafeSteps)
    BY SafeCalls DEF OpenOps
  <2>2. QED
    BY <2>1, ConcatProperties
<1>2. <<Do("refuse", 0)>> \in Seq(SafeSteps) /\ <<Do("release", 0)>> \in Seq(SafeSteps)
  BY SafeCalls DEF OpenOps
<1>3. PICK steps \in {ot_dog_feed \o <<Do("opened", 0)>>, <<Do("refuse", 0)>>, <<Do("release", 0)>>} :
        Begin(c, steps)
  BY DEF ot_dog_open, ot_dog_release
<1>4. steps \in Seq(SafeSteps)
  BY <1>1, <1>2, <1>3, Zenon
<1>5. QED
  BY <1>3, <1>4, CallerBegins

LEMMA CallerControls ==
  ASSUME LongMargins, Typed, Fed, ~Excused, NEW c \in Callers, ot_dog_ioctl(c)
  PROVE  Excused' \/ Fed'
<1>1. CASE Begin(c, ot_dog_feed)
  BY <1>1, SafeCalls, CallerBegins
<1>2. ASSUME NEW t \in Margins, Begin(c, SetTimeout(t))
      PROVE  Excused' \/ Fed'
  <2>1. t \in Int /\ Long(t)
    BY MarginAssumption DEF LongMargins
  <2>2. ot_dog_set_heartbeat(t) \in Seq(SafeSteps) /\ ot_dog_feed \in Seq(SafeSteps)
    BY <2>1, SafeCalls
  <2>3. <<>> \in Seq(SafeSteps)
    OBVIOUS
  <2>4. SetTimeout(t) \in Seq(SafeSteps)
    BY <2>2, <2>3, ConcatProperties DEF SetTimeout
  <2>5. QED
    BY <1>2, <2>4, CallerBegins
<1>3. CASE Begin(c, EnableCard) \/ Begin(c, DisableCard)
  BY <1>3, CallerBegins
<1>4. QED
  BY <1>1, <1>2, <1>3 DEF ot_dog_ioctl

-----------------------------------------------------------------------------
(* Loading and removing *)

\* They are where they are.
LEMMA FromInjective ==
  ASSUME NEW q \in Seq(Commands), NEW n \in 1..(Len(q) + 1), NEW m \in 1..(Len(q) + 1),
         From(q, n) = From(q, m)
  PROVE  n = m
<1>1. \A i \in n..Len(q) : q[i] \in Commands
  OBVIOUS
<1>2. \A i \in m..Len(q) : q[i] \in Commands
  OBVIOUS
<1>3. Len(q) \in Int /\ n \in Int /\ m \in Int /\ n <= Len(q) + 1 /\ m <= Len(q) + 1
  OBVIOUS
<1>4. Len(From(q, n)) = IF n <= Len(q) THEN Len(q) - n + 1 ELSE 0
  <2>1. Len(SubSeq(q, n, Len(q))) = IF n <= Len(q) THEN Len(q) - n + 1 ELSE 0
    BY ONLY <1>1, <1>3, SubSeqProperties
  <2>2. QED
    BY <2>1 DEF From
<1>5. Len(From(q, m)) = IF m <= Len(q) THEN Len(q) - m + 1 ELSE 0
  <2>1. Len(SubSeq(q, m, Len(q))) = IF m <= Len(q) THEN Len(q) - m + 1 ELSE 0
    BY ONLY <1>2, <1>3, SubSeqProperties
  <2>2. QED
    BY <2>1 DEF From
<1>6. Len(From(q, n)) = Len(From(q, m))
  OBVIOUS
<1>7. QED
  BY <1>3, <1>4, <1>5, <1>6

LEMMA PlacesKept ==
  ASSUME Places, todo'[Insmod] = todo[Insmod], todo'[Rmmod] = todo[Rmmod], UNCHANGED module
  PROVE  Places'
  BY DEF Places

LEMMA Ends ==
  ASSUME ~NoDaemon
  PROVE  /\ From(ot_dog_init, 5) = <<>> /\ From(ot_dog_exit, 8) = <<>>
         /\ ot_dog_init \in Seq(Commands) /\ Len(ot_dog_init) = 4
         /\ ot_dog_exit \in Seq(Commands) /\ Len(ot_dog_exit) = 7
<1>1. ot_dog_init \in Seq(Commands) /\ Len(ot_dog_init) = 4
  BY InitSteps, Zenon
<1>2. ot_dog_exit \in Seq(Commands) /\ Len(ot_dog_exit) = 7
  BY ExitSteps, Zenon
<1>3. From(ot_dog_init, Len(ot_dog_init) + 1) = <<>> /\ From(ot_dog_exit, Len(ot_dog_exit) + 1) = <<>>
  BY <1>1, <1>2, FromEnd, Zenon
<1>4. QED
  BY <1>1, <1>2, <1>3

LEMMA InsmodAt ==
  ASSUME ~NoDaemon, Typed, Places, NEW op, At(Insmod, op)
  PROVE  \E n \in 1..4 : /\ ot_dog_init[n].op = op /\ ot_dog_init[n].arg = Arg(Insmod)
                        /\ todo[Insmod] = From(ot_dog_init, n)
                        /\ module = "loading" /\ todo[Rmmod] = <<>>
<1>1. PICK n \in 1..5 : todo[Insmod] = From(ot_dog_init, n) /\ (n <= 4 <=> module = "loading")
  BY DEF Places
<1>2. PICK m \in 1..8 : todo[Rmmod] = From(ot_dog_exit, m) /\ (m <= 7 => module = "leaving")
  BY DEF Places
<1>3. n # 5
  BY <1>1, Ends DEF At, Busy
<1>4. n \in 1..4 /\ n \in 1..Len(ot_dog_init) /\ ot_dog_init \in Seq(Commands)
  <2>1. n \in 1..4
    BY <1>3
  <2>2. Len(ot_dog_init) = 4 /\ ot_dog_init \in Seq(Commands)
    BY Ends, Zenon
  <2>3. QED
    BY <2>1, <2>2
<1>5. Head(From(ot_dog_init, n)) = ot_dog_init[n]
  BY <1>4, FromStep
<1>8. module = "loading"
  BY <1>1, <1>4
<1>9. todo[Rmmod] = <<>>
  <2>1. m = 8
    BY <1>2, <1>8
  <2>2. QED
    BY <1>2, <2>1, Ends
<1>10. QED
  BY <1>1, <1>4, <1>5, <1>8, <1>9 DEF At, Arg

LEMMA RmmodAt ==
  ASSUME ~NoDaemon, Typed, Places, NEW op, At(Rmmod, op)
  PROVE  \E n \in 1..7 : /\ ot_dog_exit[n].op = op /\ ot_dog_exit[n].arg = Arg(Rmmod)
                        /\ todo[Rmmod] = From(ot_dog_exit, n)
                        /\ module = "leaving" /\ todo[Insmod] = <<>>
<1>1. PICK n \in 1..8 : todo[Rmmod] = From(ot_dog_exit, n) /\ (n <= 7 => module = "leaving")
  BY DEF Places
<1>2. PICK m \in 1..5 : todo[Insmod] = From(ot_dog_init, m) /\ (m <= 4 <=> module = "loading")
  BY DEF Places
<1>3. n # 8
  BY <1>1, Ends DEF At, Busy
<1>4. n \in 1..7 /\ n \in 1..Len(ot_dog_exit) /\ ot_dog_exit \in Seq(Commands)
  <2>1. n \in 1..7
    BY <1>3
  <2>2. Len(ot_dog_exit) = 7 /\ ot_dog_exit \in Seq(Commands)
    BY Ends, Zenon
  <2>3. QED
    BY <2>1, <2>2
<1>5. Head(From(ot_dog_exit, n)) = ot_dog_exit[n]
  BY <1>4, FromStep
<1>8. module = "leaving"
  BY <1>1, <1>4
<1>9. todo[Insmod] = <<>>
  <2>1. m = 5
    BY <1>2, <1>8
  <2>2. QED
    BY <1>2, <2>1, Ends
<1>10. QED
  BY <1>1, <1>4, <1>5, <1>8, <1>9 DEF At, Arg

\* Places after a step of the loading or of the removal
LEMMA PlacesLoading ==
  ASSUME Places, NEW n \in 1..5, todo'[Insmod] = From(ot_dog_init, n), n <= 4 <=> module' = "loading",
         todo'[Rmmod] = todo[Rmmod], module # "leaving"
  PROVE  Places'
  BY DEF Places

LEMMA PlacesLeaving ==
  ASSUME Places, NEW n \in 1..8, todo'[Rmmod] = From(ot_dog_exit, n), n <= 7 => module' = "leaving",
         todo'[Insmod] = todo[Insmod], module # "loading", module' # "loading"
  PROVE  Places'
  BY DEF Places

\* One of the steps that a call shares with others
LEMMA StepIs ==
  ASSUME NEW p, Step(p)
  PROVE  /\ \E op \in {"timeout", "start", "stop", "clear", "read_ris", "options", "state", "set_margin",
                     "set_current_margin"} \cup OpenOps : At(p, op)
         /\ UNCHANGED <<board_reset, thread, module, overlap>>
  BY DEF Step, StepRegisters, StepReadRis, StepSettings, StepOpening, OpenOps

LEMMA GoesOn ==
  ASSUME Typed, NEW p \in Processes, NEW q \in Seq(Commands), NEW n \in 1..Len(q),
         todo[p] = From(q, n), Then(p, <<>>)
  PROVE  todo'[p] = From(q, n + 1) /\ \A r \in Processes : r # p => todo'[r] = todo[r]
<1>1. todo'[p] = <<>> \o Tail(todo[p]) /\ \A r \in Processes : r # p => todo'[r] = todo[r]
  BY Follows
<1>2. QED
  BY <1>1, FromStep

\* What the steps of the loading do
LEMMA InsmodSteps ==
  ASSUME ~NoDaemon, Typed, Places, Step(Insmod)
  PROVE  \E n \in 1..3 :
           /\ n = 1 => StepRegisters(Insmod) /\ At(Insmod, "start") /\ UNCHANGED settings
           /\ n = 2 => g_options' = ENABLECARD /\ UNCHANGED <<dog, g_cur_margin>>
           /\ n = 3 => g_ot_dog_state' = OT_DOG_SELFCLR /\ UNCHANGED <<dog, g_cur_margin, g_options>>
           /\ todo'[Insmod] = From(ot_dog_init, n + 1)
           /\ \A r \in Processes : r # Insmod => todo'[r] = todo[r]
           /\ module = "loading" /\ UNCHANGED <<module, board_reset, thread, overlap>>
<1>1. PICK op \in {"timeout", "start", "stop", "clear", "read_ris", "options", "state", "set_margin",
                   "set_current_margin"} \cup OpenOps : At(Insmod, op)
  BY StepIs
<1>2. PICK n \in 1..4 : /\ ot_dog_init[n].op = op /\ ot_dog_init[n].arg = Arg(Insmod)
                        /\ todo[Insmod] = From(ot_dog_init, n) /\ module = "loading"
  BY <1>1, InsmodAt
<1>3. n = 1 \/ n = 2 \/ n = 3 \/ n = 4
  OBVIOUS
<1>4. /\ n = 1 => op = "start"
      /\ n = 2 => op = "options" /\ Arg(Insmod) = ENABLECARD
      /\ n = 3 => op = "state" /\ Arg(Insmod) = OT_DOG_SELFCLR
      /\ n # 4
  BY <1>1, <1>2, InitSteps DEF Do, OpenOps
<1>5. UNCHANGED <<module, board_reset, thread, overlap>>
  BY StepIs
<1>6. CASE n = 1
  <2>1. At(Insmod, "start")
    BY <1>1, <1>4, <1>6
  <2>2. StepRegisters(Insmod) /\ Then(Insmod, <<>>) /\ UNCHANGED settings
    BY <2>1 DEF Step, StepRegisters, StepReadRis, StepSettings, StepOpening, At
  <2>3. todo'[Insmod] = From(ot_dog_init, n + 1) /\ \A r \in Processes : r # Insmod => todo'[r] = todo[r]
    <3>1. n \in 1..Len(ot_dog_init) /\ ot_dog_init \in Seq(Commands) /\ Insmod \in Processes
      BY Ends, Apart
    <3>2. QED
      BY <1>2, <2>2, <3>1, GoesOn, Zenon
  <2>4. QED
    BY <1>2, <1>5, <1>6, <2>1, <2>2, <2>3
<1>7. CASE n = 2
  <2>1. At(Insmod, "options")
    BY <1>1, <1>4, <1>7
  <2>2. g_options' = ENABLECARD /\ Then(Insmod, <<>>) /\ UNCHANGED <<dog, g_cur_margin>>
    BY <1>4, <1>7, <2>1 DEF Step, StepRegisters, StepReadRis, StepSettings, StepOpening, At
  <2>3. todo'[Insmod] = From(ot_dog_init, n + 1) /\ \A r \in Processes : r # Insmod => todo'[r] = todo[r]
    <3>1. n \in 1..Len(ot_dog_init) /\ ot_dog_init \in Seq(Commands) /\ Insmod \in Processes
      BY Ends, Apart
    <3>2. QED
      BY <1>2, <2>2, <3>1, GoesOn, Zenon
  <2>4. QED
    BY <1>2, <1>5, <1>7, <2>2, <2>3
<1>8. CASE n = 3
  <2>1. At(Insmod, "state")
    BY <1>1, <1>4, <1>8
  <2>2. g_ot_dog_state' = OT_DOG_SELFCLR /\ Then(Insmod, <<>>) /\ UNCHANGED <<dog, g_cur_margin, g_options>>
    BY <1>4, <1>8, <2>1 DEF Step, StepRegisters, StepReadRis, StepSettings, StepOpening, At
  <2>3. todo'[Insmod] = From(ot_dog_init, n + 1) /\ \A r \in Processes : r # Insmod => todo'[r] = todo[r]
    <3>1. n \in 1..Len(ot_dog_init) /\ ot_dog_init \in Seq(Commands) /\ Insmod \in Processes
      BY Ends, Apart
    <3>2. QED
      BY <1>2, <2>2, <3>1, GoesOn, Zenon
  <2>4. QED
    BY <1>2, <1>5, <1>8, <2>2, <2>3
<1>9. QED
  BY <1>3, <1>4, <1>6, <1>7, <1>8

\* What the steps of the removal do
LEMMA RmmodSteps ==
  ASSUME ~NoDaemon, Typed, Places, Step(Rmmod)
  PROVE  \E n \in 1..5 :
           /\ n \in {1, 2, 3} => StepRegisters(Rmmod) /\ UNCHANGED settings
           /\ n = 2 => At(Rmmod, "stop")
           /\ n # 2 => ~At(Rmmod, "start")
           /\ At(Rmmod, "timeout") => Arg(Rmmod) = 0
           /\ n \in {4, 5} => UNCHANGED <<dog, g_cur_margin>>
           /\ todo[Rmmod] = From(ot_dog_exit, n)
           /\ todo'[Rmmod] = From(ot_dog_exit, n + 1)
           /\ \A r \in Processes : r # Rmmod => todo'[r] = todo[r]
           /\ module = "leaving" /\ UNCHANGED <<module, board_reset, thread, overlap>>
<1>1. PICK op \in {"timeout", "start", "stop", "clear", "read_ris", "options", "state", "set_margin",
                   "set_current_margin"} \cup OpenOps : At(Rmmod, op)
  BY StepIs
<1>2. PICK n \in 1..7 : /\ ot_dog_exit[n].op = op /\ ot_dog_exit[n].arg = Arg(Rmmod)
                        /\ todo[Rmmod] = From(ot_dog_exit, n) /\ module = "leaving"
  BY <1>1, RmmodAt
<1>3. n = 1 \/ n = 2 \/ n = 3 \/ n = 4 \/ n = 5 \/ n = 6 \/ n = 7
  OBVIOUS
<1>4. /\ n = 1 \/ n = 3 => op = "timeout" /\ Arg(Rmmod) = 0
      /\ n = 2 => op = "stop"
      /\ n = 4 => op = "options"
      /\ n = 5 => op = "state"
      /\ n # 6 /\ n # 7
  BY <1>1, <1>2, ExitSteps DEF Do, OpenOps
<1>5. UNCHANGED <<module, board_reset, thread, overlap>>
  BY StepIs
<1>6. ~At(Rmmod, "start") /\ (At(Rmmod, "timeout") => Arg(Rmmod) = 0)
  BY <1>1, <1>3, <1>4 DEF At
<1>7. n \in 1..5 /\ n \in 1..Len(ot_dog_exit) /\ ot_dog_exit \in Seq(Commands)
  <2>1. n \in 1..5
    BY <1>3, <1>4
  <2>2. Len(ot_dog_exit) = 7 /\ ot_dog_exit \in Seq(Commands)
    BY Ends, Zenon
  <2>3. QED
    BY <2>1, <2>2
<1>8. /\ n \in {1, 2, 3} => StepRegisters(Rmmod) /\ UNCHANGED settings
      /\ n \in {4, 5} => UNCHANGED <<dog, g_cur_margin>>
      /\ n = 2 => At(Rmmod, "stop")
      /\ Then(Rmmod, <<>>)
  <2>1. CASE n \in {1, 2, 3}
    <3>1. At(Rmmod, "timeout") \/ At(Rmmod, "stop")
      BY <1>1, <1>4, <2>1
    <3>2. StepRegisters(Rmmod) /\ UNCHANGED settings /\ Then(Rmmod, <<>>)
      BY <3>1 DEF Step, StepRegisters, StepReadRis, StepSettings, StepOpening, At
    <3>3. n = 2 => At(Rmmod, "stop")
      BY <1>1, <1>4
    <3>4. QED
      BY <2>1, <3>2, <3>3
  <2>2. CASE n \in {4, 5}
    <3>1. At(Rmmod, "options") \/ At(Rmmod, "state")
      BY <1>1, <1>4, <2>2
    <3>2. UNCHANGED <<dog, g_cur_margin>> /\ Then(Rmmod, <<>>)
      BY <3>1 DEF Step, StepRegisters, StepReadRis, StepSettings, StepOpening, At
    <3>3. QED
      BY <2>2, <3>2
  <2>3. QED
    BY <1>3, <1>4, <2>1, <2>2
<1>9. todo'[Rmmod] = From(ot_dog_exit, n + 1) /\ \A r \in Processes : r # Rmmod => todo'[r] = todo[r]
  BY <1>2, <1>7, <1>8, GoesOn, Apart
<1>10. QED
  BY <1>2, <1>5, <1>6, <1>7, <1>8, <1>9

LEMMA PlacesStep ==
  ASSUME ~NoDaemon, Typed, Places, Next
  PROVE  Places'
<1>1. ASSUME todo'[Insmod] = todo[Insmod], todo'[Rmmod] = todo[Rmmod], UNCHANGED module
      PROVE  Places'
  BY <1>1, PlacesKept
<1>2. CASE watchdog_init
  <2>1. module = "absent" /\ todo[Insmod] = <<>> /\ todo[Rmmod] = <<>>
    BY <1>2, Apart DEF watchdog_init, Typed
  <2>2. CASE module' = "failed" /\ UNCHANGED todo
    <3>1. todo'[Insmod] = From(ot_dog_init, 5) /\ todo'[Rmmod] = From(ot_dog_exit, 8)
      BY <2>1, <2>2, Ends
    <3>2. QED
      BY <2>2, <3>1 DEF Places
  <2>3. CASE module' = "loading" /\ todo' = [todo EXCEPT ![Insmod] = ot_dog_init]
    <3>1. todo'[Insmod] = ot_dog_init /\ todo'[Rmmod] = todo[Rmmod]
      BY <2>3, Apart DEF Typed
    <3>2. From(ot_dog_init, 1) = ot_dog_init
      BY Ends, FromEnd
    <3>3. 1 \in 1..5 /\ 1 <= 4
      OBVIOUS
    <3>4. QED
      BY <2>1, <2>3, <3>1, <3>2, <3>3, PlacesLoading
  <2>4. QED
    BY <1>2, <2>2, <2>3 DEF watchdog_init
<1>3. CASE Step(Insmod)
  <2>1. PICK n \in 1..3 : /\ todo'[Insmod] = From(ot_dog_init, n + 1)
                          /\ \A r \in Processes : r # Insmod => todo'[r] = todo[r]
                          /\ module = "loading" /\ UNCHANGED module
    BY <1>3, InsmodSteps
  <2>2. n + 1 \in 1..5 /\ n + 1 <= 4
    OBVIOUS
  <2>3. todo'[Rmmod] = todo[Rmmod]
    BY <2>1, Apart
  <2>4. QED
    BY <2>1, <2>2, <2>3, PlacesLoading
<1>4. CASE StepCreate
  <2>1. At(Insmod, "create") /\ Then(Insmod, <<>>) /\ module' # "loading"
    BY <1>4 DEF StepCreate
  <2>2. PICK n \in 1..4 : /\ ot_dog_init[n].op = "create" /\ todo[Insmod] = From(ot_dog_init, n)
                          /\ module = "loading"
    BY <2>1, InsmodAt
  <2>3. n = 4
    <3>1. n = 1 \/ n = 2 \/ n = 3 \/ n = 4
      OBVIOUS
    <3>2. QED
      BY <2>2, <3>1, InitSteps DEF Do
  <2>4. todo'[Insmod] = From(ot_dog_init, n + 1) /\ \A r \in Processes : r # Insmod => todo'[r] = todo[r]
    <3>1. n \in 1..Len(ot_dog_init) /\ ot_dog_init \in Seq(Commands) /\ Insmod \in Processes
      BY Ends, Apart
    <3>2. QED
      BY <2>1, <2>2, <3>1, GoesOn, Zenon
  <2>5. todo'[Insmod] = From(ot_dog_init, 5) /\ todo'[Rmmod] = todo[Rmmod] /\ 5 \in 1..5 /\ ~(5 <= 4)
    BY <2>3, <2>4, Apart
  <2>6. QED
    BY <2>1, <2>2, <2>5, PlacesLoading
<1>5. CASE watchdog_exit
  <2>1. module = "loaded" /\ module' = "leaving" /\ todo' = [todo EXCEPT ![Rmmod] = ot_dog_exit]
    BY <1>5 DEF watchdog_exit
  <2>2. todo'[Rmmod] = ot_dog_exit /\ todo'[Insmod] = todo[Insmod]
    BY <2>1, Apart DEF Typed
  <2>3. From(ot_dog_exit, 1) = ot_dog_exit
    BY Ends, FromEnd
  <2>4. 1 \in 1..8
    OBVIOUS
  <2>5. QED
    BY <2>1, <2>2, <2>3, <2>4, PlacesLeaving
<1>6. CASE Step(Rmmod)
  <2>1. PICK n \in 1..5 : /\ todo'[Rmmod] = From(ot_dog_exit, n + 1)
                          /\ \A r \in Processes : r # Rmmod => todo'[r] = todo[r]
                          /\ module = "leaving" /\ UNCHANGED module
    BY <1>6, RmmodSteps
  <2>2. n + 1 \in 1..8
    OBVIOUS
  <2>3. todo'[Insmod] = todo[Insmod]
    BY <2>1, Apart
  <2>4. QED
    BY <2>1, <2>2, <2>3, PlacesLeaving
<1>7. CASE StepKthreadStop \/ Joined
  <2>1. PICK op \in {"kthread_stop", "join"} :
          /\ At(Rmmod, op) /\ Then(Rmmod, <<>>)
          /\ (op = "kthread_stop" /\ UNCHANGED module) \/ (op = "join" /\ module' = "gone")
    BY <1>7 DEF StepKthreadStop, Joined
  <2>2. PICK n \in 1..7 : /\ ot_dog_exit[n].op = op /\ todo[Rmmod] = From(ot_dog_exit, n)
                          /\ module = "leaving"
    BY <2>1, RmmodAt
  <2>3. (n = 6 /\ op = "kthread_stop") \/ (n = 7 /\ op = "join")
    <3>1. n = 1 \/ n = 2 \/ n = 3 \/ n = 4 \/ n = 5 \/ n = 6 \/ n = 7
      OBVIOUS
    <3>2. QED
      BY <2>1, <2>2, <3>1, ExitSteps DEF Do
  <2>4. todo'[Rmmod] = From(ot_dog_exit, n + 1) /\ \A r \in Processes : r # Rmmod => todo'[r] = todo[r]
    <3>1. n \in 1..Len(ot_dog_exit) /\ ot_dog_exit \in Seq(Commands) /\ Rmmod \in Processes
      BY Ends, Apart
    <3>2. QED
      BY <2>1, <2>2, <3>1, GoesOn, Zenon
  <2>5. todo'[Insmod] = todo[Insmod]
    BY <2>4, Apart
  <2>6. n + 1 \in 1..8 /\ (n + 1 <= 7 => module' = "leaving") /\ module' # "loading"
    BY <2>1, <2>2, <2>3
  <2>7. QED
    BY <2>2, <2>4, <2>5, <2>6, PlacesLeaving
<1>8. ASSUME NEW p \in Callers \cup {Daemon}, Step(p)
      PROVE  Places'
  <2>1. p \in Processes /\ p # Insmod /\ p # Rmmod
    BY Apart
  <2>2. PICK steps : Then(p, steps)
    BY <1>8 DEF Step, StepRegisters, StepReadRis, StepSettings, StepOpening
  <2>3. \A r \in Processes : r # p => todo'[r] = todo[r]
    BY <2>1, <2>2, Follows
  <2>4. module' = module
    BY <1>8, StepIs
  <2>5. QED
    BY <1>1, <2>1, <2>3, <2>4, Apart
<1>9. CASE ot_dog_deamon \/ DaemonSleeps \/ DaemonWakes
  <2>1. module' = module
    BY <1>9 DEF ot_dog_deamon, DaemonSleeps, DaemonWakes
  <2>2. \A r \in Processes : r # Daemon => todo'[r] = todo[r]
    BY <1>9, Apart DEF ot_dog_deamon, DaemonSleeps, DaemonWakes, Then, Typed
  <2>3. QED
    BY <1>1, <2>1, <2>2, Apart
<1>10. CASE Tick
  BY <1>1, <1>10 DEF Tick
<1>11. CASE Reset
  <2>1. /\ module \in {"loaded", "leaving", "failed"} /\ UNCHANGED module
        /\ todo'[Insmod] = <<>> /\ todo'[Rmmod] = <<>>
    BY <1>11, Apart DEF Reset, Calm
  <2>2. todo'[Insmod] = From(ot_dog_init, 5) /\ todo'[Rmmod] = From(ot_dog_exit, 8)
    BY <2>1, Ends
  <2>3. QED
    BY <2>1, <2>2 DEF Places
<1>12. ASSUME NEW c \in Callers, ot_dog_open(c) \/ ot_dog_release(c) \/ ot_dog_ioctl(c)
       PROVE  Places'
  <2>1. PICK steps : Begin(c, steps)
    BY <1>12 DEF ot_dog_open, ot_dog_release, ot_dog_ioctl
  <2>2. todo' = [todo EXCEPT ![c] = steps] /\ module' = module
    BY <2>1 DEF Begin
  <2>3. QED
    BY <1>1, <2>2, Apart DEF Typed
<1>13. QED
  BY <1>2, <1>3, <1>4, <1>5, <1>6, <1>7, <1>8, <1>9, <1>10, <1>11, <1>12 DEF Next

\* What excuses a reset is not taken back.
LEMMA ExcusedStays ==
  ASSUME ~NoDaemon, Typed, Places, Excused, Next
  PROVE  Excused'
<1>1. overlap => overlap'
  <2>1. ASSUME NEW p \in Processes, Step(p), overlap
        PROVE  overlap'
    BY <2>1, StepIs
  <2>2. ASSUME NEW c \in Callers, ot_dog_open(c) \/ ot_dog_release(c) \/ ot_dog_ioctl(c), overlap
        PROVE  overlap'
    BY <2>2 DEF ot_dog_open, ot_dog_release, ot_dog_ioctl, Begin
  <2>3. CASE watchdog_init \/ StepCreate \/ watchdog_exit \/ StepKthreadStop \/ Joined
    BY <2>3 DEF watchdog_init, StepCreate, watchdog_exit, StepKthreadStop, Joined
  <2>4. CASE ot_dog_deamon \/ DaemonSleeps \/ DaemonWakes \/ Tick \/ Reset
    BY <2>4 DEF ot_dog_deamon, DaemonSleeps, DaemonWakes, Tick, Reset
  <2>5. QED
    BY <2>1, <2>2, <2>3, <2>4, Apart DEF Next
<1>2. module = "failed" => module' = "failed"
  <2>1. ASSUME NEW p \in Processes, Step(p)
        PROVE  UNCHANGED module
    BY <2>1, StepIs
  <2>2. ASSUME NEW c \in Callers, ot_dog_open(c) \/ ot_dog_release(c) \/ ot_dog_ioctl(c)
        PROVE  UNCHANGED module
    BY <2>2 DEF ot_dog_open, ot_dog_release, ot_dog_ioctl, Begin
  <2>3. StepCreate => module = "loading"
    BY InsmodAt DEF StepCreate
  <2>4. Joined => module = "leaving"
    BY RmmodAt DEF Joined
  <2>5. CASE watchdog_init \/ watchdog_exit \/ StepKthreadStop
    BY <2>5 DEF watchdog_init, watchdog_exit, StepKthreadStop
  <2>6. CASE ot_dog_deamon \/ DaemonSleeps \/ DaemonWakes \/ Tick \/ Reset
    BY <2>6 DEF ot_dog_deamon, DaemonSleeps, DaemonWakes, Tick, Reset
  <2>7. QED
    BY <2>1, <2>2, <2>3, <2>4, <2>5, <2>6, Apart DEF Next
<1>3. QED
  BY <1>1, <1>2 DEF Excused

\* A step that leaves the callers, and what they look at, alone, and does not enable the timer
LEMMA StageKept ==
  ASSUME Stage, UNCHANGED <<module, g_options, g_ot_dog_state>>,
         todo'[Insmod] = todo[Insmod], todo'[Rmmod] = todo[Rmmod],
         \A c \in Callers : todo'[c] = todo[c],
         dog'.enabled => dog.enabled, module \in {"absent", "loading"} => ~dog'.ris /\ daemon' = "none",
         daemon \in {"awake", "asleep"} => daemon' \in {"awake", "asleep"}
  PROVE  Stage'
<1>1. Unloaded => (module \in {"absent", "loading"} => Unloaded')
  BY DEF Unloaded, Idle, At, Busy
<1>2. Serving => Serving'
  <2>1. Alone => Alone'
    BY DEF Alone
  <2>2. Enabling => Enabling'
    BY DEF Enabling
  <2>3. ASSUME NEW c \in Callers, Calling(c)
        PROVE  Calling(c)'
    BY <2>3 DEF Calling
  <2>4. QED
    BY <2>1, <2>2, <2>3 DEF Serving
<1>3. Leaving => Leaving'
  BY DEF Leaving, Idle
<1>4. QED
  BY <1>1, <1>2, <1>3 DEF Stage

LEMMA CurrentKept ==
  ASSUME CurrentLong, UNCHANGED g_cur_margin, module # "absent"
  PROVE  CurrentLong'
  BY DEF CurrentLong, Long, Count, Nap, g_default_margin

LEMMA FedLoads ==
  ASSUME ~NoDaemon, Typed, Places, Fed, watchdog_init
  PROVE  Excused' \/ Fed'
<1>1. /\ module = "absent" /\ dog' = Loaded(Count(g_default_margin)) /\ g_cur_margin' = Margin
      /\ UNCHANGED <<board_reset, g_options, g_ot_dog_state, thread>>
  BY DEF watchdog_init
<1>2. CASE module' = "failed"
  BY <1>2 DEF Excused
<1>3. CASE module' = "loading" /\ todo' = [todo EXCEPT ![Insmod] = ot_dog_init]
  <2>1. todo'[Insmod] = ot_dog_init /\ \A r \in Processes : r # Insmod => todo'[r] = todo[r]
    BY <1>3, Apart DEF Typed
  <2>2. Unloaded
    BY <1>1 DEF Fed, Stage
  <2>3. /\ dog' \in [enabled : BOOLEAN, load : Nat, value : Nat, ris : BOOLEAN]
        /\ dog'.ris = dog.ris /\ dog'.enabled = dog.enabled
        /\ dog'.load = Count(g_default_margin) /\ dog'.value = Count(g_default_margin)
        /\ Count(g_default_margin) \in Nat /\ Count(g_default_margin) > Nap
    <3>1. g_default_margin \in Int /\ Long(g_default_margin)
      BY MarginAssumption, LongOnes DEF g_default_margin
    <3>2. Count(g_default_margin) \in Nat /\ Count(g_default_margin) > Nap
      BY <3>1, CountLong
    <3>3. QED
      BY <1>1, <3>2 DEF Fed, Timer, Loaded
  <2>4. Timer'
    BY <2>2, <2>3, NapBounds DEF Timer, Unloaded, Nap, g_default_margin
  <2>5. CurrentLong'
    BY <1>1, LongOnes DEF CurrentLong, Long, Count, Nap, g_default_margin
  <2>6. Feeding'
    <3>1. todo'[Daemon] = todo[Daemon] /\ ~dog'.ris
      BY <2>1, <2>2, <2>3, Apart DEF Unloaded
    <3>2. QED
      BY <1>1, <3>1 DEF Fed, Feeding, Busy, thread
  <2>7. Unloaded'
    <3>1. ~At(Insmod, "create")'
      <4>1. Head(ot_dog_init).op = "start"
        BY InitSteps DEF Do
      <4>2. QED
        BY <2>1, <4>1 DEF At
    <3>2. Idle'
      BY <2>1, <2>2, Apart DEF Unloaded, Idle
    <3>3. QED
      BY <1>1, <2>2, <2>3, <3>1, <3>2 DEF Unloaded, thread
  <2>8. QED
    BY <1>1, <1>3, <2>4, <2>5, <2>6, <2>7 DEF Fed, Stage
<1>4. QED
  BY <1>2, <1>3 DEF watchdog_init

LEMMA FedLoading ==
  ASSUME ~NoDaemon, Typed, Places, Fed, Step(Insmod)
  PROVE  Fed'
<1>1. PICK n \in 1..3 :
           /\ n = 1 => StepRegisters(Insmod) /\ At(Insmod, "start") /\ UNCHANGED settings
           /\ n = 2 => g_options' = ENABLECARD /\ UNCHANGED <<dog, g_cur_margin>>
           /\ n = 3 => g_ot_dog_state' = OT_DOG_SELFCLR /\ UNCHANGED <<dog, g_cur_margin, g_options>>
           /\ todo'[Insmod] = From(ot_dog_init, n + 1)
           /\ \A r \in Processes : r # Insmod => todo'[r] = todo[r]
           /\ module = "loading" /\ UNCHANGED <<module, board_reset, thread, overlap>>
  BY InsmodSteps
<1>2. n = 1 \/ n = 2 \/ n = 3
  OBVIOUS
<1>3. Unloaded /\ Timer
  BY <1>1 DEF Fed, Stage
<1>4. Timer' /\ ~dog'.ris
  <2>1. CASE n = 1
    <3>1. ~At(Insmod, "timeout")
      BY <1>1, <2>1 DEF At
    <3>2. QED
      BY <1>1, <1>3, <2>1, <3>1, Apart, RegisterSteps
  <2>2. CASE UNCHANGED dog
    BY <1>3, <2>2, NapBounds DEF Timer, Unloaded, Nap, g_default_margin
  <2>3. QED
    BY <1>1, <1>2, <2>1, <2>2
<1>5. CurrentLong'
  <2>1. UNCHANGED g_cur_margin
    BY <1>1, <1>2 DEF settings
  <2>2. QED
    BY <1>1, <2>1, CurrentKept DEF Fed
<1>6. Feeding'
  <2>1. todo'[Daemon] = todo[Daemon]
    BY <1>1, Apart
  <2>2. QED
    BY <1>1, <1>4, <2>1 DEF Fed, Feeding, Busy, thread
<1>7. g_options' = ENABLECARD
  BY <1>1, <1>2, <1>3 DEF Unloaded, settings
<1>8. At(Insmod, "create")' => g_ot_dog_state' = OT_DOG_SELFCLR
  <2>1. SUFFICES ASSUME n # 3 PROVE ~At(Insmod, "create")'
    BY <1>1
  <2>2. n + 1 \in 1..Len(ot_dog_init) /\ ot_dog_init \in Seq(Commands)
    <3>1. Len(ot_dog_init) = 4 /\ ot_dog_init \in Seq(Commands)
      BY Ends, Zenon
    <3>2. QED
      BY <3>1
  <2>3. Head(From(ot_dog_init, n + 1)) = ot_dog_init[n + 1]
    BY <2>2, FromStep
  <2>4. ot_dog_init[n + 1].op # "create"
    BY <1>2, <2>1, InitSteps DEF Do
  <2>5. QED
    BY <1>1, <2>3, <2>4 DEF At
<1>9. Idle' /\ daemon' = "none"
  BY <1>1, <1>3, Apart DEF Unloaded, Idle, thread
<1>10. Unloaded'
  BY <1>4, <1>7, <1>8, <1>9 DEF Unloaded
<1>11. QED
  BY <1>1, <1>4, <1>5, <1>6, <1>10 DEF Fed, Stage

LEMMA FedCreates ==
  ASSUME ~NoDaemon, Typed, Places, Fed, StepCreate
  PROVE  Excused' \/ Fed'
<1>1. /\ At(Insmod, "create") /\ Then(Insmod, <<>>)
      /\ (module' = "loaded" /\ daemon' = "awake") \/ module' = "failed"
      /\ UNCHANGED <<dog, board_reset, settings, slept>>
  BY DEF StepCreate
<1>2. CASE module' = "failed"
  BY <1>2 DEF Excused
<1>3. CASE module' = "loaded" /\ daemon' = "awake"
  <2>1. module = "loading"
    BY <1>1, InsmodAt
  <2>2. Unloaded /\ g_ot_dog_state = OT_DOG_SELFCLR
    BY <1>1, <2>1 DEF Fed, Stage, Unloaded
  <2>3. \A r \in Processes : r # Insmod => todo'[r] = todo[r]
    BY <1>1, Apart, Follows
  <2>4. UNCHANGED <<g_options, g_cur_margin, g_ot_dog_state>>
    BY <1>1 DEF settings
  <2>5. Timer' /\ CurrentLong'
    BY <1>1, <2>1, <2>4, CurrentKept DEF Fed, Timer, Nap, g_default_margin
  <2>6. Feeding'
    <3>1. todo'[Daemon] = todo[Daemon] /\ ~dog'.ris /\ slept' = slept
      BY <1>1, <2>2, <2>3, Apart DEF Unloaded
    <3>2. QED
      BY <1>3, <3>1 DEF Fed, Feeding, Busy
  <2>7. \A c \in Callers : todo'[c] = <<>>
    BY <2>2, <2>3, Apart DEF Unloaded, Idle
  <2>8. Alone' /\ \A c \in Callers : Calling(c)'
    <3>1. <<>> \in Seq(SafeSteps)
      OBVIOUS
    <3>2. QED
      BY <2>7, <3>1 DEF Alone, Calling
  <2>9. Serving'
    BY <1>3, <2>2, <2>4, <2>8 DEF Serving, Unloaded
  <2>10. QED
    BY <1>1, <1>3, <2>5, <2>6, <2>9 DEF Fed, Stage
<1>4. QED
  BY <1>1, <1>2, <1>3

LEMMA FedExits ==
  ASSUME ~NoDaemon, Typed, Places, Fed, ~Excused, watchdog_exit
  PROVE  Excused' \/ Fed'
<1>1. /\ module = "loaded" /\ module' = "leaving" /\ todo' = [todo EXCEPT ![Rmmod] = ot_dog_exit]
      /\ overlap' = (overlap \/ \E c \in Callers : Busy(c))
      /\ UNCHANGED <<dog, board_reset, settings, thread>>
  BY DEF watchdog_exit
<1>2. CASE overlap'
  BY <1>2 DEF Excused
<1>3. CASE ~overlap'
  <2>1. todo'[Rmmod] = ot_dog_exit /\ \A r \in Processes : r # Rmmod => todo'[r] = todo[r]
    BY <1>1, Apart DEF Typed
  <2>2. \A c \in Callers : todo[c] = <<>>
    BY <1>1, <1>3 DEF Busy
  <2>3. Serving
    BY <1>1 DEF Fed, Stage
  <2>4. UNCHANGED <<g_options, g_cur_margin, g_ot_dog_state, daemon, slept>>
    BY <1>1 DEF settings, thread
  <2>5. Timer' /\ CurrentLong'
    BY <1>1, <2>4, CurrentKept DEF Fed, Timer, Nap, g_default_margin
  <2>6. Feeding'
    <3>1. todo'[Daemon] = todo[Daemon]
      BY <2>1, Apart
    <3>2. QED
      BY <1>1, <2>4, <3>1 DEF Fed, Feeding, Busy
  <2>7. Idle'
    BY <2>1, <2>2, Apart DEF Idle
  <2>8. From(ot_dog_exit, 1) = ot_dog_exit
    BY Ends, FromEnd
  <2>9. Leaving'
    BY <2>1, <2>3, <2>4, <2>7, <2>8 DEF Leaving, Serving
  <2>10. QED
    BY <1>1, <2>5, <2>6, <2>9 DEF Fed, Stage
<1>4. QED
  BY <1>2, <1>3

LEMMA FedLeaving ==
  ASSUME ~NoDaemon, Typed, Places, Fed, Step(Rmmod)
  PROVE  Fed'
<1>1. PICK n \in 1..5 :
           /\ n \in {1, 2, 3} => StepRegisters(Rmmod) /\ UNCHANGED settings
           /\ n = 2 => At(Rmmod, "stop")
           /\ n # 2 => ~At(Rmmod, "start")
           /\ At(Rmmod, "timeout") => Arg(Rmmod) = 0
           /\ n \in {4, 5} => UNCHANGED <<dog, g_cur_margin>>
           /\ todo[Rmmod] = From(ot_dog_exit, n)
           /\ todo'[Rmmod] = From(ot_dog_exit, n + 1)
           /\ \A r \in Processes : r # Rmmod => todo'[r] = todo[r]
           /\ module = "leaving" /\ UNCHANGED <<module, board_reset, thread, overlap>>
  BY RmmodSteps
<1>2. n = 1 \/ n = 2 \/ n \in {3, 4, 5}
  OBVIOUS
<1>3. Timer /\ Leaving /\ Feeding
  BY <1>1 DEF Fed, Stage
<1>4. n \in {3, 4, 5} => ~dog.enabled
  <2>1. ASSUME n \in {3, 4, 5}, NEW m \in 1..2
        PROVE  From(ot_dog_exit, n) # From(ot_dog_exit, m)
    <3>1. ot_dog_exit \in Seq(Commands) /\ Len(ot_dog_exit) = 7
      BY Ends, Zenon
    <3>2. n \in 1..(Len(ot_dog_exit) + 1) /\ m \in 1..(Len(ot_dog_exit) + 1) /\ n # m
      BY <2>1, <3>1
    <3>3. QED
      BY <3>1, <3>2, FromInjective
  <2>2. 1 \in 1..2 /\ 2 \in 1..2
    OBVIOUS
  <2>3. QED
    BY <1>1, <1>3, <2>1, <2>2 DEF Leaving
<1>5. CASE n \in {1, 2, 3}
  <2>1. StepRegisters(Rmmod) /\ UNCHANGED <<g_options, g_ot_dog_state, g_cur_margin>>
    BY <1>1, <1>5 DEF settings
  <2>2. At(Rmmod, "timeout") => Arg(Rmmod) \in Int /\ Long(Arg(Rmmod))
    BY <1>1, LongOnes
  <2>3. ~At(Rmmod, "start")
    BY <1>1 DEF At
  <2>4. /\ Timer'
        /\ dog'.ris => dog.ris /\ dog'.load - dog'.value <= dog.load - dog.value
        /\ dog'.enabled => dog.enabled
        /\ At(Rmmod, "stop") => ~dog'.enabled
    BY <1>3, <2>1, <2>2, <2>3, Apart, RegisterSteps
  <2>5. Feeding'
    <3>1. todo'[Daemon] = todo[Daemon] /\ UNCHANGED thread
      BY <1>1, Apart
    <3>2. dog'.ris => g_options' = ENABLECARD /\ g_ot_dog_state' = OT_DOG_SELFCLR
      BY <1>3, <2>1, <2>4 DEF Feeding
    <3>3. QED
      BY <1>3, <2>4, <3>1, <3>2, FeedingKept
  <2>6. CurrentLong'
    BY <1>1, <2>1, CurrentKept DEF Fed
  <2>7. Idle'
    BY <1>1, <1>3, Apart DEF Leaving, Idle
  <2>8. n # 1 => ~dog'.enabled
    BY <1>1, <1>2, <1>4, <2>4
  <2>9. dog'.enabled => todo'[Rmmod] = From(ot_dog_exit, 2)
    <3>1. 1 + 1 = 2
      OBVIOUS
    <3>2. QED
      BY <1>1, <2>8, <3>1
  <2>10. Leaving'
    BY <1>1, <1>3, <2>1, <2>4, <2>7, <2>9 DEF Leaving, thread
  <2>11. QED
    BY <1>1, <2>4, <2>5, <2>6, <2>10 DEF Fed, Stage
<1>6. CASE n \in {4, 5}
  <2>1. ~dog.enabled /\ UNCHANGED <<dog, g_cur_margin>>
    BY <1>1, <1>4, <1>6
  <2>2. ~dog.ris
    BY <1>3, <2>1 DEF Timer
  <2>3. Timer'
    BY <1>3, <2>1 DEF Timer, Nap, g_default_margin
  <2>4. CurrentLong'
    BY <1>1, <2>1, CurrentKept DEF Fed
  <2>5. Feeding'
    <3>1. todo'[Daemon] = todo[Daemon] /\ daemon' = daemon /\ slept' = slept /\ ~dog'.ris
      BY <1>1, <2>1, <2>2, Apart DEF thread
    <3>2. QED
      BY <1>3, <3>1 DEF Feeding, Busy
  <2>6. Idle'
    BY <1>1, <1>3, Apart DEF Leaving, Idle
  <2>7. Leaving'
    BY <2>1, <2>6 DEF Leaving
  <2>8. QED
    BY <1>1, <2>3, <2>4, <2>5, <2>7 DEF Fed, Stage
<1>7. QED
  BY <1>2, <1>5, <1>6

LEMMA FedJoins ==
  ASSUME ~NoDaemon, Typed, Places, Fed, StepKthreadStop \/ Joined
  PROVE  Fed'
<1>1. PICK op \in {"kthread_stop", "join"} :
        /\ At(Rmmod, op) /\ Then(Rmmod, <<>>)
        /\ (op = "kthread_stop" /\ UNCHANGED module) \/ (op = "join" /\ module' = "gone")
        /\ UNCHANGED <<dog, board_reset, settings, thread>>
  BY DEF StepKthreadStop, Joined
<1>2. PICK n \in 1..7 : /\ ot_dog_exit[n].op = op /\ todo[Rmmod] = From(ot_dog_exit, n)
                        /\ module = "leaving"
  BY <1>1, RmmodAt
<1>3. n # 1 /\ n # 2
  BY <1>1, <1>2, ExitSteps DEF Do
<1>4. Timer /\ Leaving /\ Feeding
  BY <1>2 DEF Fed, Stage
<1>5. ~dog.enabled
  <2>1. ASSUME NEW m \in 1..2
        PROVE  From(ot_dog_exit, n) # From(ot_dog_exit, m)
    <3>1. ot_dog_exit \in Seq(Commands) /\ Len(ot_dog_exit) = 7
      BY Ends, Zenon
    <3>2. n \in 1..(Len(ot_dog_exit) + 1) /\ m \in 1..(Len(ot_dog_exit) + 1) /\ n # m
      BY <1>3, <3>1
    <3>3. QED
      BY <3>1, <3>2, FromInjective
  <2>2. 1 \in 1..2 /\ 2 \in 1..2
    OBVIOUS
  <2>3. QED
    BY <1>2, <1>4, <2>1, <2>2 DEF Leaving
<1>6. \A r \in Processes : r # Rmmod => todo'[r] = todo[r]
  BY <1>1, Apart, Follows
<1>7. UNCHANGED <<g_options, g_cur_margin, g_ot_dog_state, daemon, slept>>
  BY <1>1 DEF settings, thread
<1>8. Timer' /\ CurrentLong'
  BY <1>1, <1>2, <1>7, CurrentKept DEF Fed, Timer, Nap, g_default_margin
<1>9. Feeding'
  <2>1. todo'[Daemon] = todo[Daemon]
    BY <1>6, Apart
  <2>2. QED
    BY <1>1, <1>4, <1>7, <2>1 DEF Feeding, Busy
<1>10. Leaving'
  <2>1. Idle'
    BY <1>4, <1>6, Apart DEF Leaving, Idle
  <2>2. QED
    BY <1>1, <1>5, <2>1 DEF Leaving
<1>11. module' \in {"leaving", "gone"}
  BY <1>1, <1>2
<1>12. QED
  BY <1>1, <1>8, <1>9, <1>10, <1>11 DEF Fed, Stage

-----------------------------------------------------------------------------
(* The thread, and time *)

LEMMA FedFeeds ==
  ASSUME Typed, Fed, Step(Daemon)
  PROVE  Fed'
<1>1. Feeding /\ Timer /\ Stage
  BY DEF Fed
<1>2. UNCHANGED <<board_reset, thread, module, overlap>>
  BY StepIs
<1>3. PICK op \in {"timeout", "start", "stop", "clear", "read_ris", "options", "state", "set_margin",
                   "set_current_margin"} \cup OpenOps : At(Daemon, op)
  BY StepIs
<1>4. \/ todo[Daemon] = <<Do("read_ris", 0), Do("sleep", 0)>> /\ op = "read_ris"
      \/ todo[Daemon] = <<Do("clear", 0), Do("sleep", 0)>> /\ op = "clear"
  BY <1>1, <1>3 DEF Feeding, DaemonSteps, At, Busy, Do, OpenOps
<1>5. daemon = "awake" /\ module \notin {"absent", "loading"}
  BY <1>1, <1>3 DEF Feeding, At, Stage, Unloaded
<1>6. \A r \in Processes : r # Daemon => todo'[r] = todo[r]
  <2>1. PICK steps : Then(Daemon, steps)
    BY DEF Step, StepRegisters, StepReadRis, StepSettings, StepOpening
  <2>2. QED
    BY <2>1, Apart, Follows
<1>7. ASSUME Timer', dog'.ris => dog.ris, dog'.enabled => dog.enabled,
             todo'[Daemon] \in DaemonSteps, todo'[Daemon] = <<Do("sleep", 0)>> => ~dog'.ris,
             UNCHANGED <<g_options, g_ot_dog_state, g_cur_margin>>
      PROVE  Fed'
  <2>1. daemon' = "awake" /\ slept' = slept
    BY <1>2, <1>5 DEF thread
  <2>2. Feeding'
    BY <1>1, <1>7, <2>1 DEF Feeding
  <2>3. CurrentLong'
    BY <1>5, <1>7, CurrentKept DEF Fed
  <2>4. Stage'
    BY <1>1, <1>2, <1>5, <1>6, <1>7, <2>1, Apart, StageKept
  <2>5. QED
    BY <1>2, <1>7, <2>2, <2>3, <2>4 DEF Fed
<1>8. CASE todo[Daemon] = <<Do("read_ris", 0), Do("sleep", 0)>> /\ At(Daemon, "read_ris")
  <2>1. StepReadRis(Daemon)
    BY <1>8 DEF Step, StepRegisters, StepReadRis, StepSettings, StepOpening, At
  <2>2. /\ Then(Daemon, IF dog.ris THEN <<Do("clear", 0)>> ELSE <<>>)
        /\ UNCHANGED <<dog, g_options, g_ot_dog_state, g_cur_margin>>
    BY <2>1 DEF StepReadRis, settings
  <2>3. todo'[Daemon] = (IF dog.ris THEN <<Do("clear", 0)>> ELSE <<>>)
                          \o Tail(<<Do("read_ris", 0), Do("sleep", 0)>>)
    BY <1>8, <2>2, Apart, Follows
  <2>4. todo'[Daemon] = IF dog.ris THEN <<Do("clear", 0), Do("sleep", 0)>> ELSE <<Do("sleep", 0)>>
    BY <2>3, DaemonCalls
  <2>5. <<Do("clear", 0), Do("sleep", 0)>> # <<Do("sleep", 0)>>
    OBVIOUS
  <2>6. Timer'
    BY <1>1, <2>2 DEF Timer, Nap, g_default_margin
  <2>7. QED
    BY <1>7, <2>2, <2>4, <2>5, <2>6 DEF DaemonSteps
<1>9. CASE todo[Daemon] = <<Do("clear", 0), Do("sleep", 0)>> /\ At(Daemon, "clear")
  <2>1. StepRegisters(Daemon)
    BY <1>9 DEF Step, StepRegisters, StepReadRis, StepSettings, StepOpening, At
  <2>2. Then(Daemon, <<>>) /\ UNCHANGED <<g_options, g_ot_dog_state, g_cur_margin>>
    BY <2>1 DEF StepRegisters, settings
  <2>3. ~At(Daemon, "timeout") /\ ~At(Daemon, "start")
    BY <1>9 DEF At
  <2>4. Timer' /\ ~dog'.ris /\ (dog'.enabled => dog.enabled)
    BY <1>1, <1>9, <2>1, <2>3, Apart, RegisterSteps
  <2>5. todo'[Daemon] = <<Do("sleep", 0)>>
    BY <1>9, <2>2, Apart, Follows, DaemonCalls
  <2>6. QED
    BY <1>7, <2>2, <2>4, <2>5 DEF DaemonSteps
<1>10. QED
  BY <1>3, <1>4, <1>8, <1>9

LEMMA FedThread ==
  ASSUME Typed, Fed, ot_dog_deamon \/ DaemonSleeps \/ DaemonWakes
  PROVE  Fed'
<1>1. Feeding /\ Timer /\ Stage
  BY DEF Fed
<1>2. UNCHANGED <<dog, board_reset, g_options, g_ot_dog_state, g_cur_margin, module>>
  BY DEF ot_dog_deamon, DaemonSleeps, DaemonWakes, settings
<1>3. daemon \in {"awake", "asleep"} /\ module \notin {"absent", "loading"}
  BY <1>1 DEF ot_dog_deamon, DaemonSleeps, DaemonWakes, Feeding, At, Stage, Unloaded
<1>4. Timer' /\ CurrentLong'
  BY <1>2, <1>3, CurrentKept DEF Fed, Timer, Nap, g_default_margin
<1>5. ASSUME Feeding', \A r \in Processes : r # Daemon => todo'[r] = todo[r],
             daemon' \in {"awake", "asleep"}
      PROVE  Fed'
  <2>1. Stage'
    BY <1>1, <1>2, <1>3, <1>5, Apart, StageKept
  <2>2. QED
    BY <1>2, <1>4, <1>5, <2>1 DEF Fed
<1>6. CASE ot_dog_deamon /\ g_ot_dog_state = OT_DOG_EXIT
  <2>1. daemon' = "ended" /\ todo' = todo /\ slept' = slept /\ todo[Daemon] = <<>>
    BY <1>6 DEF ot_dog_deamon, Busy
  <2>2. OT_DOG_EXIT # OT_DOG_SELFCLR
    BY DEF OT_DOG_EXIT, OT_DOG_SELFCLR
  <2>3. Feeding'
    BY <1>1, <1>2, <2>1 DEF Feeding, Busy
  <2>4. Leaving /\ module \in {"leaving", "gone"} /\ ~dog.enabled
    BY <1>1, <1>3, <1>6, <2>2 DEF Stage, Serving, Leaving
  <2>5. Leaving'
    BY <1>2, <2>1, <2>4 DEF Leaving, Idle
  <2>6. QED
    BY <1>2, <1>4, <2>3, <2>4, <2>5 DEF Fed, Stage
<1>7. CASE ot_dog_deamon /\ g_ot_dog_state # OT_DOG_EXIT
  <2> DEFINE feed == g_ot_dog_state = OT_DOG_SELFCLR /\ g_options = ENABLECARD
  <2>1. /\ todo' = [todo EXCEPT ![Daemon] = (IF feed THEN ot_dog_feed ELSE <<>>) \o <<Do("sleep", 0)>>]
        /\ daemon = "awake" /\ daemon' = daemon /\ slept' = slept
    BY <1>7 DEF ot_dog_deamon
  <2>2. /\ todo'[Daemon] = (IF feed THEN ot_dog_feed ELSE <<>>) \o <<Do("sleep", 0)>>
        /\ \A r \in Processes : r # Daemon => todo'[r] = todo[r]
    BY <2>1, Apart DEF Typed
  <2>3. todo'[Daemon] = IF feed THEN <<Do("read_ris", 0), Do("sleep", 0)>> ELSE <<Do("sleep", 0)>>
    BY <2>2, DaemonCalls
  <2>4. <<Do("read_ris", 0), Do("sleep", 0)>> # <<Do("sleep", 0)>>
    OBVIOUS
  <2>5. ~feed => ~dog.ris
    BY <1>1 DEF Feeding
  <2>6. todo'[Daemon] \in DaemonSteps /\ (todo'[Daemon] = <<Do("sleep", 0)>> => ~dog'.ris)
    BY <1>2, <2>3, <2>4, <2>5 DEF DaemonSteps
  <2>7. Feeding'
    BY <1>1, <1>2, <2>1, <2>6 DEF Feeding
  <2>8. QED
    BY <1>5, <2>1, <2>2, <2>7
<1>8. CASE DaemonSleeps
  <2>1. At(Daemon, "sleep") /\ Then(Daemon, <<>>) /\ daemon' = "asleep" /\ slept' = 0
    BY <1>8 DEF DaemonSleeps
  <2>2. todo[Daemon] = <<Do("sleep", 0)>>
    BY <1>1, <2>1 DEF Feeding, DaemonSteps, At, Busy, Do
  <2>3. todo'[Daemon] = <<>> /\ \A r \in Processes : r # Daemon => todo'[r] = todo[r]
    BY <2>1, <2>2, Apart, Follows, DaemonCalls
  <2>4. ~dog'.ris
    BY <1>1, <1>2, <2>2 DEF Feeding
  <2>5. Feeding'
    BY <2>1, <2>3, <2>4 DEF Feeding, DaemonSteps, Busy
  <2>6. QED
    BY <1>5, <2>1, <2>3, <2>5
<1>9. CASE DaemonWakes
  <2>1. todo' = todo /\ daemon' = "awake" /\ slept' = 0
    BY <1>9 DEF DaemonWakes
  <2>2. Feeding'
    BY <1>1, <1>2, <2>1 DEF Feeding, Busy
  <2>3. QED
    BY <1>5, <2>1, <2>2
<1>10. QED
  BY <1>6, <1>7, <1>8, <1>9

\* While time passes nobody is in the middle of anything, so a timer that runs is fed.
LEMMA CalmIsFed ==
  ASSUME ~NoDaemon, Typed, Fed, ~Excused, Calm, dog.enabled
  PROVE  daemon = "asleep" /\ g_options = ENABLECARD /\ g_ot_dog_state = OT_DOG_SELFCLR
<1>1. /\ module \in {"loaded", "leaving"} /\ daemon # "awake" /\ Stage
      /\ \A p \in Processes : Busy(p) => At(p, "join")
  BY DEF Calm, Excused, Fed
<1>2. module # "leaving"
  <2>1. ASSUME module = "leaving"
        PROVE  FALSE
    <3>1. PICK n \in 1..2 : todo[Rmmod] = From(ot_dog_exit, n)
      <4>1. module \in {"leaving", "gone"}
        BY <2>1
      <4>2. Leaving
        BY <1>1, <4>1, Zenon DEF Stage
      <4>3. todo[Rmmod] = From(ot_dog_exit, 1) \/ todo[Rmmod] = From(ot_dog_exit, 2)
        BY <4>2 DEF Leaving
      <4>4. QED
        BY <4>3
    <3>2. n \in 1..Len(ot_dog_exit) /\ ot_dog_exit \in Seq(Commands)
      <4>1. Len(ot_dog_exit) = 7 /\ ot_dog_exit \in Seq(Commands)
        BY Ends, Zenon
      <4>2. QED
        BY <4>1
    <3>3. todo[Rmmod] # <<>> /\ Head(todo[Rmmod]) = ot_dog_exit[n]
      BY <3>1, <3>2, FromStep
    <3>4. n = 1 \/ n = 2
      OBVIOUS
    <3>5. Head(todo[Rmmod]).op # "join"
      BY <3>3, <3>4, ExitSteps DEF Do
    <3>6. QED
      BY <1>1, <3>3, <3>5, Apart DEF At, Busy
  <2>2. QED
    BY <2>1
<1>3. Serving
  <2>1. module = "loaded"
    BY <1>1, <1>2
  <2>2. QED
    BY <1>1, <2>1, Zenon DEF Stage
<1>4. g_options = ENABLECARD
  <2>1. ASSUME NEW c \in Callers, todo[c] = From(EnableCard, 2)
        PROVE  FALSE
    <3>1. 2 \in 1..3
      OBVIOUS
    <3>2. todo[c] # <<>> /\ Head(todo[c]) = Do("options", ENABLECARD)
      BY <2>1, <3>1, NotSafe, EnableSteps
    <3>3. QED
      BY <1>1, <3>2, Apart DEF At, Busy, Do
  <2>2. QED
    BY <1>3, <2>1 DEF Serving, Enabling
<1>5. daemon \in {"awake", "asleep"} /\ g_ot_dog_state = OT_DOG_SELFCLR
  BY <1>3, Zenon DEF Serving
<1>6. daemon = "asleep"
  BY <1>1, <1>5
<1>7. QED
  BY <1>4, <1>5, <1>6

LEMMA FedTicks ==
  ASSUME ~NoDaemon, Typed, Fed, ~Excused, Tick
  PROVE  Fed'
<1>1. Feeding /\ Timer /\ Stage
  BY DEF Fed
<1>2. /\ Calm /\ ~RunOut /\ dog' = RunDown
      /\ slept' = IF daemon = "asleep" THEN slept + 1 ELSE slept
      /\ UNCHANGED <<todo, board_reset, g_options, g_ot_dog_state, g_cur_margin, daemon, module>>
  BY DEF Tick, settings
<1>3. module \notin {"absent", "loading"}
  BY <1>2 DEF Calm
<1>4. CurrentLong'
  BY <1>2, <1>3, CurrentKept DEF Fed
<1>5. slept' \in Nat /\ slept \in Nat
  BY <1>1, <1>2 DEF Feeding
<1>6. todo[Daemon] = <<>>
  BY <1>1, <1>2 DEF Calm, Feeding, Busy
<1>7. dog'.enabled = dog.enabled
  BY <1>1, <1>2 DEF RunDown, Timer
<1>8. Stage'
  BY <1>1, <1>2, <1>3, <1>7, StageKept
<1>9. ASSUME Timer', dog'.ris => g_options = ENABLECARD /\ g_ot_dog_state = OT_DOG_SELFCLR,
             dog'.ris /\ daemon = "asleep" => slept' > dog'.load - dog'.value
      PROVE  Fed'
  <2>1. Feeding'
    <3>1. todo'[Daemon] \in DaemonSteps /\ ~Busy(Daemon)'
      BY <1>2, <1>6 DEF DaemonSteps, Busy
    <3>2. todo'[Daemon] = <<Do("sleep", 0)>> => ~dog'.ris
      BY <1>2, <1>6
    <3>3. QED
      BY <1>2, <1>5, <1>9, <3>1, <3>2 DEF Feeding
  <2>2. QED
    BY <1>2, <1>4, <1>8, <1>9, <2>1 DEF Fed
<1>10. CASE ~dog.enabled
  <2>1. dog' = dog /\ ~dog.ris
    BY <1>1, <1>2, <1>10 DEF RunDown, Timer
  <2>2. Timer'
    BY <1>1, <2>1 DEF Timer, Nap, g_default_margin
  <2>3. QED
    BY <1>9, <2>1, <2>2
<1>11. CASE dog.enabled /\ dog.value = 1
  <2>1. /\ dog' \in [enabled : BOOLEAN, load : Nat, value : Nat, ris : BOOLEAN]
        /\ dog'.load = dog.load /\ dog'.value = dog.load /\ dog'.enabled /\ dog'.ris
    BY <1>1, <1>2, <1>11 DEF RunDown, Timer
  <2>2. Timer'
    BY <1>1, <2>1, NapBounds DEF Timer, Nap, g_default_margin
  <2>3. daemon = "asleep" /\ g_options = ENABLECARD /\ g_ot_dog_state = OT_DOG_SELFCLR
    BY <1>2, <1>11, CalmIsFed
  <2>4. slept' > dog'.load - dog'.value
    BY <1>1, <1>2, <1>5, <2>1, <2>3 DEF Timer
  <2>5. QED
    BY <1>9, <2>2, <2>3, <2>4
<1>12. CASE dog.enabled /\ dog.value # 1
  <2>1. /\ dog' \in [enabled : BOOLEAN, load : Nat, value : Nat, ris : BOOLEAN]
        /\ dog'.load = dog.load /\ dog'.value = dog.value - 1
        /\ dog'.enabled = dog.enabled /\ dog'.ris = dog.ris
    <3>1. dog.value - 1 \in Nat
      BY <1>1, <1>12 DEF Timer
    <3>2. dog' = [dog EXCEPT !.value = dog.value - 1]
      BY <1>2, <1>12 DEF RunDown
    <3>3. QED
      BY <1>1, <3>1, <3>2 DEF Timer
  <2>2. 1 <= dog'.value /\ dog'.value <= dog'.load /\ dog'.load > Nap
    BY <1>1, <1>12, <2>1, NapBounds DEF Timer
  <2>3. Timer'
    BY <1>1, <1>12, <2>1, <2>2 DEF Timer, Nap, g_default_margin
  <2>4. daemon = "asleep" /\ g_options = ENABLECARD /\ g_ot_dog_state = OT_DOG_SELFCLR
    BY <1>2, <1>12, CalmIsFed
  <2>5. dog'.ris => slept' > dog'.load - dog'.value
    <3>1. SUFFICES ASSUME dog.ris PROVE slept' > dog'.load - dog'.value
      BY <2>1
    <3>2. slept > dog.load - dog.value
      BY <1>1, <2>4, <3>1 DEF Feeding
    <3>3. slept' = slept + 1 /\ dog.load \in Nat /\ dog.value \in Nat
      BY <1>1, <1>2, <2>4 DEF Timer
    <3>4. QED
      BY <1>5, <2>1, <3>2, <3>3
  <2>6. QED
    BY <1>9, <2>3, <2>4, <2>5
<1>13. QED
  BY <1>10, <1>11, <1>12

\* When the timer has run out twice the thread has slept longer than it sleeps.
LEMMA NoReset ==
  ASSUME ~NoDaemon, Typed, Fed, ~Excused, Reset
  PROVE  FALSE
<1>1. Calm /\ dog.enabled /\ dog.value = 1 /\ dog.ris /\ Timer /\ Feeding
  BY DEF Reset, RunOut, Fed
<1>2. daemon = "asleep"
  BY <1>1, CalmIsFed
<1>3. slept <= Nap /\ slept > dog.load - dog.value /\ slept \in Nat
  BY <1>1, <1>2 DEF Calm, Feeding
<1>4. dog.load > Nap /\ dog.load \in Nat /\ Nap \in Nat
  BY <1>1, NapBounds DEF Timer
<1>5. QED
  BY <1>1, <1>3, <1>4

LEMMA FInvStep ==
  ASSUME ~NoDaemon, LongMargins, Typed, FInv, Next
  PROVE  FInv'
<1>1. Places'
  BY PlacesStep DEF FInv
<1>2. CASE Excused
  BY <1>1, <1>2, ExcusedStays DEF FInv
<1>3. CASE ~Excused
  <2>1. Fed /\ Places
    BY <1>3 DEF FInv
  <2>2. ASSUME NEW c \in Callers, Step(c)
        PROVE  Fed'
    BY <1>3, <2>1, <2>2, CallerRegisters, CallerReadsRis, CallerSettings, CallerOpening DEF Step
  <2>3. ASSUME NEW c \in Callers, ot_dog_open(c) \/ ot_dog_release(c) \/ ot_dog_ioctl(c)
        PROVE  Excused' \/ Fed'
    BY <1>3, <2>1, <2>3, CallerOpens, CallerControls
  <2>4. ASSUME watchdog_init \/ Step(Insmod) \/ StepCreate \/ watchdog_exit
        PROVE  Excused' \/ Fed'
    BY <1>3, <2>1, <2>4, FedLoads, FedLoading, FedCreates, FedExits
  <2>5. ASSUME Step(Rmmod) \/ StepKthreadStop \/ Joined
        PROVE  Excused' \/ Fed'
    BY <1>3, <2>1, <2>5, FedLeaving, FedJoins
  <2>6. ASSUME Step(Daemon) \/ ot_dog_deamon \/ DaemonSleeps \/ DaemonWakes
        PROVE  Excused' \/ Fed'
    BY <1>3, <2>1, <2>6, FedFeeds, FedThread
  <2>7. ASSUME Tick \/ Reset
        PROVE  Excused' \/ Fed'
    BY <1>3, <2>1, <2>7, FedTicks, NoReset
  <2>8. Excused' \/ Fed'
    BY <2>2, <2>3, <2>4, <2>5, <2>6, <2>7 DEF Next
  <2>9. QED
    BY <1>1, <2>8 DEF FInv
<1>4. QED
  BY <1>2, <1>3

LEMMA FInvInit == ASSUME ~NoDaemon, Init PROVE FInv
<1>1. /\ todo = [p \in Processes |-> <<>>] /\ board_reset = FALSE /\ g_options = ENABLECARD
      /\ dog = [enabled |-> FALSE, load |-> Count(0), value |-> Count(0), ris |-> FALSE]
      /\ daemon = "none" /\ slept = 0 /\ module = "absent"
  BY DEF Init
<1>2. Places
  BY <1>1, Ends, Apart DEF Places
<1>3. Timer
  <2>1. Count(0) \in Nat /\ Count(0) > Nap
    BY LongOnes, CountLong
  <2>2. 1 <= Count(0)
    BY <2>1, NapBounds
  <2>3. QED
    BY <1>1, <2>1, <2>2 DEF Timer
<1>4. CurrentLong /\ Feeding
  BY <1>1, Apart DEF CurrentLong, Feeding, DaemonSteps, Busy
<1>5. Unloaded
  BY <1>1, Apart DEF Unloaded, Idle, At, Busy
<1>6. QED
  BY <1>1, <1>2, <1>3, <1>4, <1>5 DEF FInv, Fed, Stage

LEMMA FInvStutters == ASSUME FInv, UNCHANGED vars PROVE FInv'
<1>1. UNCHANGED <<todo, dog, board_reset, g_options, g_cur_margin, g_ot_dog_state, daemon, slept,
                  module, overlap>>
  BY DEF vars
<1>2. Places' /\ (Excused => Excused')
  BY <1>1 DEF FInv, Places, Excused
<1>3. ASSUME Fed PROVE Fed'
  <2>1. Timer' /\ CurrentLong'
    BY <1>1, <1>3 DEF Fed, Timer, CurrentLong, Long, Count, Nap, g_default_margin
  <2>2. Feeding'
    BY <1>1, <1>3 DEF Fed, Feeding, Busy
  <2>3. Stage'
    BY <1>1, <1>3 DEF Fed, Stage, Unloaded, Serving, Leaving, Idle, Alone, Calling, Enabling, At, Busy
  <2>4. QED
    BY <1>1, <1>3, <2>1, <2>2, <2>3 DEF Fed
<1>4. QED
  BY <1>2, <1>3 DEF FInv

\* FedInTime for every default margin and any number of programs: as long as no
\* call meets another one, the loading or the removal, and every margin the
\* programs set is more than half the default one, ot_dog_deamon clears the
\* interrupt before the timer runs down a second time, in whatever order
\* programs open, set margins, disable, enable, close and the module goes.
THEOREM FedInTimeAlways == LongMargins => (Spec => []FedInTime)
<1> SUFFICES ASSUME LongMargins PROVE Spec => []FedInTime
  OBVIOUS
<1>1. CASE NoDaemon
  <2>1. FedInTime
    BY <1>1 DEF FedInTime
  <2>2. QED
    BY <2>1, PTL
<1>2. CASE ~NoDaemon
  <2>1. Init => WInv /\ FInv
    BY <1>2, WInvInit, FInvInit
  <2>2. WInv /\ FInv /\ [Next]_vars => (WInv /\ FInv)'
    BY <1>2, WInvStep, FInvStep, FInvStutters DEF WInv
  <2>3. WInv /\ FInv => FedInTime
    BY DEF FInv, Excused, Fed, FedInTime
  <2>4. QED
    BY <2>1, <2>2, <2>3, PTL DEF Spec
<1>3. QED
  BY <1>1, <1>2
=============================================================================
