-------------------------------- MODULE OtWtdg --------------------------------
(***************************************************************************)
(* The watchdog driver (interdrv/wtdg/ot_wtdg.c), its feeding thread, the  *)
(* programs that open /dev/watchdog, the removal of the module, and the    *)
(* timer in the hardware.                                                  *)
(*                                                                         *)
(* A call is the sequence of the steps it still has to take; a step is     *)
(* what one process does under g_ot_dog_lock, or to one shared variable.   *)
(* Time passes in half seconds. A call takes no time that matters: time    *)
(* waits until every process sleeps or is done. A margin is in seconds.    *)
(* The module is loaded, and removed, once.                                *)
(***************************************************************************)
EXTENDS Integers, Sequences, FiniteSets, SequencesExt

CONSTANTS
  Margin,        \* the module parameter default_margin
  DefaultMargin, \* OT_DOG_TIMER_MARGIN
  MaxMargin,     \* the longest margin the counter can hold
  NoDaemon,      \* g_nodeamon: there is no thread
  Margins,       \* margins set by WDIOC_SETTIMEOUT
  Callers        \* threads of programs

ASSUME MarginAssumption ==
  /\ Margin \in Int /\ Margins \subseteq Int
  /\ MaxMargin \in Nat /\ DefaultMargin \in 1..MaxMargin
  /\ NoDaemon \in BOOLEAN

Daemon == "ot_dog"
Insmod == "insmod"
Rmmod == "rmmod"
Processes == Callers \cup {Daemon, Insmod, Rmmod}

ASSUME CallersAssumption ==
  IsFiniteSet(Callers) /\ Callers \cap {Daemon, Insmod, Rmmod} = {}

ENABLECARD == "enable"
DISABLECARD == "disable"
OT_DOG_EXIT == "exit"
OT_DOG_SELFCLR == "selfclr"

\* get_margin replaces a default margin out of range ...
g_default_margin == IF Margin \in 1..MaxMargin THEN Margin ELSE DefaultMargin

VARIABLES
  todo,           \* [Processes -> sequences of steps]
  dog,            \* the timer: enabled, load, value and ris (the interrupt is raised)
  board_reset,
  g_options,
  g_cur_margin,
  g_ot_dog_state,
  g_driver_open,  \* 1 when nobody has the device open
  files,          \* open files of the device
  daemon,         \* "none", "awake", "asleep" or "ended"
  slept,          \* how long the daemon has slept
  module,         \* "absent", "loading", "failed", "loaded", "leaving" or "gone"
  overlap         \* a call has met another one, the end of the loading or the
                  \* removal, a history variable

vars == <<todo, dog, board_reset, g_options, g_cur_margin, g_ot_dog_state,
          g_driver_open, files, daemon, slept, module, overlap>>
thread == <<daemon, slept>>
settings == <<g_options, g_cur_margin, g_ot_dog_state>>
opening == <<g_driver_open, files>>

Busy(p) == todo[p] # <<>>

-----------------------------------------------------------------------------
(* Calls as sequences of steps *)

Do(op, arg) == [op |-> op, arg |-> arg]

ot_dog_feed == <<Do("read_ris", 0)>>
ot_dog_set_heartbeat(t) == <<Do("set_margin", t)>>
ot_dog_start == <<Do("start", 0), Do("options", ENABLECARD)>>
ot_dog_stop == <<Do("stop", 0), Do("timeout", 0), Do("options", DISABLECARD)>>

\* ot_dog_set_options
EnableCard == ot_dog_start \o <<Do("set_current_margin", 0)>>
DisableCard == ot_dog_stop
SetTimeout(t) == ot_dog_set_heartbeat(t) \o (IF t \in 1..MaxMargin THEN ot_dog_feed ELSE <<>>)

\* Mutant: the thread is not told.
ot_dog_exit_untold ==
  <<Do("timeout", 0)>> \o ot_dog_stop \o <<Do("kthread_stop", 0), Do("join", 0)>>

ot_dog_exit ==
  <<Do("timeout", 0)>> \o ot_dog_stop \o <<Do("state", OT_DOG_EXIT)>>
    \o (IF NoDaemon THEN <<>> ELSE <<Do("kthread_stop", 0)>>) \o <<Do("join", 0)>>

ot_dog_init == ot_dog_start \o <<Do("state", OT_DOG_SELFCLR), Do("create", 0)>>

-----------------------------------------------------------------------------
(* The timer: it raises the interrupt when it has run down, and resets the *)
(* board when it has run down again and the interrupt is still raised.     *)

Loaded(cnt) == [dog EXCEPT !.load = cnt, !.value = cnt]

\* Enabling the timer makes it start from its load.
Started == [dog EXCEPT !.enabled = TRUE, !.ris = FALSE, !.value = dog.load]
Stopped == [dog EXCEPT !.enabled = FALSE, !.ris = FALSE]
Cleared == [dog EXCEPT !.ris = FALSE, !.value = dog.load]

RunDown ==
  IF dog.enabled /\ dog.value = 1 THEN [dog EXCEPT !.value = dog.load, !.ris = TRUE]
  ELSE IF dog.enabled THEN [dog EXCEPT !.value = @ - 1] ELSE dog

\* ot_dog_set_timeout: 0 and what is out of range mean as long as possible.
Count(nr) == IF nr \in 1..MaxMargin THEN 2 * nr ELSE 2 * MaxMargin + 1

\* ot_dog_set_heartbeat: a margin out of range is forced into it.
Forced(t) == IF t <= 0 THEN g_cur_margin ELSE IF t > MaxMargin THEN MaxMargin ELSE t

-----------------------------------------------------------------------------
(* The steps of a call *)

At(p, op) == Busy(p) /\ Head(todo[p]).op = op
Arg(p) == Head(todo[p]).arg
Then(p, steps) == todo' = [todo EXCEPT ![p] = steps \o Tail(@)]

StepRegisters(p) ==
  /\ \/ At(p, "timeout") /\ dog' = Loaded(Count(Arg(p)))
     \/ At(p, "start") /\ dog' = Started
     \/ At(p, "stop") /\ dog' = Stopped
     \/ At(p, "clear") /\ dog' = Cleared
  /\ Then(p, <<>>)
  /\ UNCHANGED <<board_reset, settings, opening, thread, module, overlap>>

\* ot_dog_feed reads the raised interrupt before it takes the lock.
StepReadRis(p) ==
  /\ At(p, "read_ris")
  /\ Then(p, IF dog.ris THEN <<Do("clear", 0)>> ELSE <<>>)
  /\ UNCHANGED <<dog, board_reset, settings, opening, thread, module, overlap>>

StepSettings(p) ==
  /\ \/ /\ At(p, "options") /\ g_options' = Arg(p)
        /\ Then(p, <<>>)
        /\ UNCHANGED <<g_cur_margin, g_ot_dog_state>>
     \/ /\ At(p, "state") /\ g_ot_dog_state' = Arg(p)
        /\ Then(p, <<>>)
        /\ UNCHANGED <<g_options, g_cur_margin>>
     \/ /\ At(p, "set_margin") /\ g_cur_margin' = Forced(Arg(p))
        /\ Then(p, <<Do("timeout", Forced(Arg(p)))>> \o ot_dog_feed)
        /\ UNCHANGED <<g_options, g_ot_dog_state>>
     \/ /\ At(p, "set_current_margin")
        /\ Then(p, ot_dog_set_heartbeat(g_cur_margin))
        /\ UNCHANGED settings
  /\ UNCHANGED <<dog, board_reset, opening, thread, module, overlap>>

\* The ends of ot_dog_open and ot_dog_release
StepOpening(p) ==
  /\ \/ /\ At(p, "refuse") /\ g_driver_open' = g_driver_open + 1
        /\ Then(p, <<>>) /\ UNCHANGED files
     \/ /\ At(p, "opened") /\ files' = files + 1
        /\ Then(p, <<>>) /\ UNCHANGED g_driver_open
     \/ /\ At(p, "release") /\ g_driver_open' = g_driver_open + 1
        /\ Then(p, IF g_driver_open = 0
                   THEN <<Do("state", OT_DOG_SELFCLR), Do("set_current_margin", 0)>>
                   ELSE <<Do("keep_open", 0)>>)
        /\ UNCHANGED files
     \/ /\ At(p, "keep_open") /\ g_driver_open' = g_driver_open - 1
        /\ Then(p, <<>>) /\ UNCHANGED files
  /\ UNCHANGED <<dog, board_reset, settings, thread, module, overlap>>

-----------------------------------------------------------------------------
(* Programs *)

\* Opens exclude each other by ot_media_sem.
Opening == \E c \in Callers : Busy(c) /\ Last(todo[c]).op \in {"refuse", "opened"}

Begin(c, steps) ==
  /\ module \in {"loading", "loaded", "leaving"} /\ ~board_reset
  /\ ~Busy(c)
  /\ todo' = [todo EXCEPT ![c] = steps]
  /\ overlap' = (overlap \/ module # "loaded" \/ \E other \in Callers : Busy(other))
  /\ UNCHANGED <<dog, board_reset, settings, thread, module>>

\* Mutant: the second of two callers is let in.
ot_dog_open_twice(c) ==
  /\ ~Opening
  /\ Begin(c, IF g_driver_open >= 0 THEN ot_dog_feed \o <<Do("opened", 0)>> ELSE <<Do("refuse", 0)>>)
  /\ g_driver_open' = g_driver_open - 1
  /\ UNCHANGED files

ot_dog_open(c) ==
  /\ ~Opening
  /\ Begin(c, IF g_driver_open = 1 THEN ot_dog_feed \o <<Do("opened", 0)>> ELSE <<Do("refuse", 0)>>)
  /\ g_driver_open' = g_driver_open - 1
  /\ UNCHANGED files

\* The file is closed when no call on it is under way.
ot_dog_release(c) ==
  /\ files > 0
  /\ \A other \in Callers : Busy(other) => Last(todo[other]).op \in {"refuse", "opened"}
  /\ files' = files - 1
  /\ Begin(c, <<Do("release", 0)>>)
  /\ UNCHANGED g_driver_open

ot_dog_ioctl(c) ==
  /\ files > 0
  /\ \/ Begin(c, ot_dog_feed)
     \/ \E t \in Margins : Begin(c, SetTimeout(t))
     \/ Begin(c, EnableCard)
     \/ Begin(c, DisableCard)
  /\ UNCHANGED opening

-----------------------------------------------------------------------------
(* The module and its thread *)

\* ... but returns the one it was given, which becomes the current margin.
\* Creating or registering the device may fail; then the timer is set but off.
watchdog_init ==
  /\ module = "absent"
  /\ \/ module' = "failed" /\ UNCHANGED todo
     \/ module' = "loading" /\ todo' = [todo EXCEPT ![Insmod] = ot_dog_init]
  /\ dog' = Loaded(Count(g_default_margin))
  /\ g_cur_margin' = Margin
  /\ g_driver_open' = 1
  /\ UNCHANGED <<board_reset, g_options, g_ot_dog_state, files, thread, overlap>>

\* Programs can open the device by now. When the thread cannot be created the
\* device goes, but the timer has been started.
StepCreate ==
  /\ At(Insmod, "create") /\ Then(Insmod, <<>>)
  /\ \/ NoDaemon /\ module' = "loaded" /\ UNCHANGED daemon
     \/ ~NoDaemon /\ module' = "loaded" /\ daemon' = "awake"
     \/ ~NoDaemon /\ module' = "failed" /\ UNCHANGED daemon
  /\ UNCHANGED <<dog, board_reset, settings, opening, slept, overlap>>

ot_dog_deamon ==
  /\ daemon = "awake" /\ ~Busy(Daemon)
  /\ IF g_ot_dog_state = OT_DOG_EXIT
     THEN daemon' = "ended" /\ UNCHANGED todo
     ELSE /\ todo' = [todo EXCEPT ![Daemon] =
               (IF g_ot_dog_state = OT_DOG_SELFCLR /\ g_options = ENABLECARD
                THEN ot_dog_feed ELSE <<>>) \o <<Do("sleep", 0)>>]
          /\ UNCHANGED daemon
  /\ UNCHANGED <<dog, board_reset, settings, opening, slept, module, overlap>>

DaemonSleeps ==
  /\ At(Daemon, "sleep") /\ Then(Daemon, <<>>)
  /\ daemon' = "asleep" /\ slept' = 0
  /\ UNCHANGED <<dog, board_reset, settings, opening, module, overlap>>

\* Mutant: the margin is not halved.
Nap_whole == 2 * g_default_margin

\* The daemon sleeps half the default margin, at most half a second longer.
Nap == g_default_margin

DaemonWakes ==
  /\ daemon = "asleep" /\ slept >= Nap
  /\ daemon' = "awake" /\ slept' = 0
  /\ UNCHANGED <<todo, dog, board_reset, settings, opening, module, overlap>>

\* The driver is removed from its device: ot_dog_exit, then the rest.
watchdog_exit ==
  /\ module = "loaded" /\ ~board_reset
  /\ module' = "leaving"
  /\ todo' = [todo EXCEPT ![Rmmod] = ot_dog_exit]
  /\ overlap' = (overlap \/ \E c \in Callers : Busy(c))
  /\ UNCHANGED <<dog, board_reset, settings, opening, thread>>

\* kthread_stop waits until the thread has ended.
StepKthreadStop ==
  /\ At(Rmmod, "kthread_stop") /\ Then(Rmmod, <<>>)
  /\ UNCHANGED <<dog, board_reset, settings, opening, thread, module, overlap>>

Joined ==
  /\ At(Rmmod, "join") /\ (NoDaemon \/ daemon = "ended")
  /\ Then(Rmmod, <<>>)
  /\ module' = "gone"
  /\ UNCHANGED <<dog, board_reset, settings, opening, thread, overlap>>

-----------------------------------------------------------------------------
Calm ==
  /\ module \in {"loaded", "leaving", "failed"} /\ ~board_reset
  /\ \A p \in Processes : Busy(p) => At(p, "join")
  /\ daemon # "awake"
  /\ daemon = "asleep" => slept <= Nap

RunOut == dog.enabled /\ dog.value = 1 /\ dog.ris

Tick ==
  /\ Calm /\ ~RunOut
  /\ dog' = RunDown
  /\ slept' = IF daemon = "asleep" THEN slept + 1 ELSE slept
  /\ UNCHANGED <<todo, board_reset, settings, opening, daemon, module, overlap>>

\* No process survives the reset.
Reset ==
  /\ Calm /\ RunOut
  /\ board_reset' = TRUE
  /\ todo' = [p \in Processes |-> <<>>]
  /\ daemon' = "none"
  /\ UNCHANGED <<dog, settings, opening, slept, module, overlap>>

Init ==
  /\ todo = [p \in Processes |-> <<>>]
  /\ dog = [enabled |-> FALSE, load |-> Count(0), value |-> Count(0), ris |-> FALSE]
  /\ board_reset = FALSE
  /\ g_options = ENABLECARD
  /\ g_cur_margin = DefaultMargin
  /\ g_ot_dog_state = OT_DOG_EXIT
  /\ g_driver_open = 0 /\ files = 0
  /\ daemon = "none" /\ slept = 0
  /\ module = "absent"
  /\ overlap = FALSE

Step(p) == StepRegisters(p) \/ StepReadRis(p) \/ StepSettings(p) \/ StepOpening(p)
Next ==
  \/ watchdog_init \/ Step(Insmod) \/ StepCreate \/ watchdog_exit
  \/ Step(Rmmod) \/ StepKthreadStop \/ Joined
  \/ Step(Daemon) \/ ot_dog_deamon \/ DaemonSleeps \/ DaemonWakes
  \/ Tick \/ Reset
  \/ \E c \in Callers :
       Step(c) \/ ot_dog_open(c) \/ ot_dog_release(c) \/ ot_dog_ioctl(c)

\* Every process that can go on does, and time passes.
Fairness ==
  /\ WF_vars(Step(Daemon) \/ ot_dog_deamon \/ DaemonSleeps \/ DaemonWakes)
  /\ WF_vars(Step(Insmod) \/ StepCreate)
  /\ WF_vars(Step(Rmmod) \/ StepKthreadStop \/ Joined)
  /\ \A c \in Callers : WF_vars(Step(c))
  /\ WF_vars(Tick)

Spec == Init /\ [][Next]_vars /\ Fairness

-----------------------------------------------------------------------------
(* Correctness *)

TypeOK ==
  /\ \A p \in Processes : \A i \in DOMAIN todo[p] : todo[p][i].op \in STRING
  /\ dog.value \in 1..dog.load /\ dog.load \in 2..(2 * MaxMargin + 1)
  /\ dog.enabled \in BOOLEAN /\ dog.ris \in BOOLEAN
  /\ board_reset \in BOOLEAN /\ overlap \in BOOLEAN
  /\ g_options \in {ENABLECARD, DISABLECARD}
  /\ g_cur_margin \in {Margin} \cup 1..MaxMargin
  /\ g_ot_dog_state \in {OT_DOG_EXIT, OT_DOG_SELFCLR}
  /\ g_driver_open \in -2..1 /\ files \in Nat
  /\ daemon \in {"none", "awake", "asleep", "ended"}
  /\ slept \in 0..(Nap + 1)
  /\ module \in {"absent", "loading", "failed", "loaded", "leaving", "gone"}

\* As long as no call meets another one, the loading or the removal, and if
\* there is a thread, the board is not reset: the daemon clears the interrupt
\* before the timer runs down again, whether the device is open, closed or
\* removed, if every margin is more than half the default one.
FedInTime == board_reset => overlap \/ module = "failed" \/ NoDaemon

\* "By default, a kernel daemon feed watchdog when idle" (wtdg_init.c:25):
\* a board whose device nobody has open is not reset.
FedWhenIdle == board_reset /\ module = "loaded" /\ ~overlap => files > 0

\* One program at a time has the device open, however opens and releases meet.
OneOpener == files <= 1

\* "When you call the Kthread_stop function, the thread function cannot be
\* finished" (osal_task.c:42).
StopFindsThread == At(Rmmod, "kthread_stop") => daemon # "ended"

\* The removal comes to its end, unless it meets a call.
RemovalEnds == module = "leaving" ~> module = "gone" \/ overlap
=============================================================================
