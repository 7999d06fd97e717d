------------------------------ MODULE IrReceiver ------------------------------
(***************************************************************************)
(* The infrared receiver (interdrv/ot_ir/ir.c): a ring of keys that the    *)
(* interrupt fills, programs empty and an ioctl resizes, a timer that lets *)
(* repeated keys through, and the opening and closing of the device.       *)
(*                                                                         *)
(* Nothing here takes a lock. A step is an access to one shared variable,  *)
(* or several with nothing of anybody else's between them. A repeated key  *)
(* that is suppressed changes nothing and is no step. A reader that sleeps *)
(* looks again within 100 ms, so its being woken is no step either.        *)
(***************************************************************************)
EXTENDS Integers

CONSTANTS
  Keys,           \* codes of keys
  Zero,           \* the code in a slot never written
  OT_IR_MAX_BUF,  \* the longest buffer that can be asked for
  DEFAULT_BUF_LEN,
  Lens,           \* lengths asked for by IR_IOC_SET_BUF
  DEFAULT_DELAYTIME,
  Delays,         \* delays asked for by IR_IOC_SET_REPKEY_TIMEOUTVAL
  Counts,         \* keys asked for by a read
  MaxPush,        \* bound on the keys put into the ring
  MaxCalls,       \* bound on the calls of programs
  Callers         \* threads of programs

ASSUME LengthAssumption ==
  /\ OT_IR_MAX_BUF \in Nat /\ DEFAULT_BUF_LEN \in 2..(OT_IR_MAX_BUF + 1)
  /\ Lens \subseteq 1..OT_IR_MAX_BUF
  /\ DEFAULT_DELAYTIME \in Nat /\ Delays \subseteq Nat \ {0}
  /\ Counts \subseteq Nat /\ MaxPush \in Nat /\ MaxCalls \in Nat

VARIABLES
  buf,       \* slots: the key, whether it went up, and which push it was (history)
  head, tail, buf_len,
  enable_repkey, repkey_checkflag, repkey_delaytime, enable_keyup,
  ir_key_wait,          \* the queue of waiting readers has been set up
  g_repkey_timeout_timer, \* "idle" or "pending"
  handler,              \* of the timer: "idle", "del" or "clear"
  ir_enable,            \* the register: interrupts come
  held,                 \* the receiver has seen a key and not its release
  irq,                  \* where the interrupt handler stands
  g_ot_ir_s_available,  \* 1 when nobody has the device open
  files,
  pc,                   \* where each thread stands
  reading,              \* per thread: the slot it reads, and how many keys it may still take
  pushed,               \* keys put into the ring, history
  last,                 \* the last of them that was read or thrown away, history
  prev,                 \* the last key put into the ring since it was reset, history
  calls,                \* calls begun by programs, history
  met                   \* which kinds of unlocked accesses have met, history

ring == <<buf, head, tail, buf_len>>
options == <<enable_repkey, repkey_delaytime, enable_keyup>>
repeats == <<repkey_checkflag, g_repkey_timeout_timer, handler>>
interrupt == <<ir_enable, held, irq>>
opening == <<g_ot_ir_s_available, files, ir_key_wait>>
history == <<pushed, last, prev>>
vars == <<ring, options, repeats, interrupt, opening, pc, reading, history, calls, met>>

Nobody == [n |-> 0, key |-> Zero, up |-> FALSE]
NoIrq == [pc |-> "idle"]
NotReading == [at |-> 0, len |-> DEFAULT_BUF_LEN, left |-> 0]

inc_buf(x, len) == (x + 1) % len

\* Mutant: the slot before the first one is not the last one.
BUF_LAST_unwrapped == buf[IF head = 0 THEN 0 ELSE head - 1]

BUF_LAST == buf[IF head = 0 THEN buf_len - 1 ELSE head - 1]

-----------------------------------------------------------------------------
(* The interrupt handler *)

\* interrupt_rcv, up to the decision that a key is not a repeated one
Repeated(k) ==
  BUF_LAST.key = k /\ IF enable_repkey THEN repkey_checkflag ELSE ~BUF_LAST.up

interrupt_rcv ==
  /\ irq = NoIrq /\ ir_enable /\ pushed < MaxPush
  /\ held' = TRUE
  /\ \E k \in Keys :
       irq' = IF Repeated(k) THEN NoIrq
              ELSE [pc |-> IF enable_repkey THEN "arm" ELSE "slot", key |-> k, up |-> FALSE]
  /\ UNCHANGED <<ring, options, repeats, ir_enable, opening, pc, reading, history>>

\* osal_set_timer refuses an interval of zero.
ArmTimer ==
  /\ irq.pc = "arm"
  /\ irq' = [irq EXCEPT !.pc = "flag"]
  /\ g_repkey_timeout_timer' = IF repkey_delaytime \div 10 > 0 THEN "pending" ELSE "idle"
  /\ UNCHANGED <<ring, options, repkey_checkflag, handler, ir_enable, held, opening, pc,
                 reading, history>>

SetCheckflag ==
  /\ irq.pc = "flag"
  /\ irq' = [irq EXCEPT !.pc = "slot"]
  /\ repkey_checkflag' = TRUE
  /\ UNCHANGED <<ring, options, g_repkey_timeout_timer, handler, ir_enable, held, opening,
                 pc, reading, history>>

\* ot_ir_interrupt, the branch of a released key
ReleaseKey ==
  /\ irq = NoIrq /\ ir_enable /\ held /\ pushed < MaxPush
  /\ held' = FALSE
  /\ g_repkey_timeout_timer' = "idle"
  /\ irq' = [pc |-> "unflag"]
  /\ UNCHANGED <<ring, options, repkey_checkflag, handler, ir_enable, opening, pc, reading,
                 history>>

\* Mutant: the flag stays, although its timer has been deleted.
ClearCheckflag_kept ==
  /\ irq.pc = "unflag"
  /\ irq' = IF enable_keyup /\ ~BUF_LAST.up
            THEN [pc |-> "slot", key |-> BUF_LAST.key, up |-> TRUE] ELSE NoIrq
  /\ UNCHANGED <<ring, options, repeats, ir_enable, held, opening, pc, reading, history>>

ClearCheckflag ==
  /\ irq.pc = "unflag"
  /\ repkey_checkflag' = FALSE
  /\ irq' = IF enable_keyup /\ ~BUF_LAST.up
            THEN [pc |-> "slot", key |-> BUF_LAST.key, up |-> TRUE] ELSE NoIrq
  /\ UNCHANGED <<ring, options, g_repkey_timeout_timer, handler, ir_enable, held, opening,
                 pc, reading, history>>

Entry == [n |-> pushed + 1, key |-> irq.key, up |-> irq.up]

\* The key goes into its slot, then the head moves on; another processor may
\* see the head before the key.
StoreKey ==
  /\ irq.pc = "slot"
  /\ pushed' = pushed + 1 /\ prev' = Entry
  /\ \/ /\ buf' = [buf EXCEPT ![head] = Entry]
        /\ irq' = [pc |-> "head", at |-> head, len |-> buf_len]
        /\ UNCHANGED head
     \/ /\ head' = inc_buf(head, buf_len)
        /\ irq' = [pc |-> "late", at |-> head, entry |-> Entry]
        /\ UNCHANGED buf
  /\ UNCHANGED <<tail, buf_len, options, repeats, ir_enable, held, opening, pc, reading, last>>

StoreHead ==
  /\ \/ irq.pc = "head" /\ head' = inc_buf(irq.at, irq.len) /\ UNCHANGED buf
     \/ irq.pc = "late" /\ buf' = [buf EXCEPT ![irq.at] = irq.entry] /\ UNCHANGED head
  /\ irq' = NoIrq
  /\ UNCHANGED <<tail, buf_len, options, repeats, ir_enable, held, opening, pc, reading,
                 history>>

-----------------------------------------------------------------------------
(* The timer, whose handler may run on another processor than the interrupt's *)

TimerFires ==
  /\ g_repkey_timeout_timer = "pending" /\ handler = "idle"
  /\ g_repkey_timeout_timer' = "idle"
  /\ handler' = "del"
  /\ UNCHANGED <<ring, options, repkey_checkflag, interrupt, opening, pc, reading, history>>

repkey_timeout_handler ==
  /\ \/ /\ handler = "del" /\ handler' = "clear"
        /\ g_repkey_timeout_timer' = "idle" /\ UNCHANGED repkey_checkflag
     \/ /\ handler = "clear" /\ handler' = "idle"
        /\ repkey_checkflag' = FALSE /\ UNCHANGED g_repkey_timeout_timer
  /\ UNCHANGED <<ring, options, interrupt, opening, pc, reading, history>>

-----------------------------------------------------------------------------
(* Opening and closing *)

At(c, place) == pc[c] = place
Goto(c, place) == pc' = [pc EXCEPT ![c] = place]

OpenPlaces == {"refuse", "open_timer", "open_init", "open_queue", "open_config"}
ReleasePlaces == {"release_count", "release_undo", "release_timer", "release_queue"}

\* Opens exclude each other by ot_media_sem.
ot_ir_open(c) ==
  /\ At(c, "idle") /\ \A d \in Callers : pc[d] \notin OpenPlaces
  /\ g_ot_ir_s_available' = g_ot_ir_s_available - 1
  /\ Goto(c, IF g_ot_ir_s_available = 1 THEN "open_timer" ELSE "refuse")
  /\ UNCHANGED <<ring, options, repeats, interrupt, ir_key_wait, files, reading, history>>

OpenRefused(c) ==
  /\ At(c, "refuse") /\ Goto(c, "idle")
  /\ g_ot_ir_s_available' = g_ot_ir_s_available + 1
  /\ UNCHANGED <<ring, options, repeats, interrupt, ir_key_wait, files, reading, history>>

OpenTimer(c) ==
  /\ At(c, "open_timer") /\ Goto(c, "open_init")
  /\ g_repkey_timeout_timer' = "idle"
  /\ UNCHANGED <<ring, options, repkey_checkflag, handler, interrupt, opening, reading, history>>

OpenInit(c) ==
  /\ At(c, "open_init") /\ Goto(c, "open_queue")
  /\ head' = 0 /\ tail' = 0 /\ buf_len' = DEFAULT_BUF_LEN
  /\ enable_repkey' = TRUE /\ enable_keyup' = TRUE
  /\ repkey_delaytime' = DEFAULT_DELAYTIME
  /\ repkey_checkflag' = FALSE
  /\ last' = pushed /\ prev' = Nobody
  /\ UNCHANGED <<buf, g_repkey_timeout_timer, handler, interrupt, opening, reading, pushed>>

OpenQueue(c) ==
  /\ At(c, "open_queue") /\ Goto(c, "open_config")
  /\ ir_key_wait' = TRUE
  /\ UNCHANGED <<ring, options, repeats, interrupt, g_ot_ir_s_available, files, reading, history>>

OpenConfig(c) ==
  /\ At(c, "open_config") /\ Goto(c, "idle")
  /\ ir_enable' = TRUE
  /\ files' = files + 1
  /\ UNCHANGED <<ring, options, repeats, held, irq, g_ot_ir_s_available, ir_key_wait, reading,
                 history>>

\* The file is closed when no call on it is under way.
ot_ir_release(c) ==
  /\ files > 0 /\ At(c, "idle")
  /\ \A d \in Callers : pc[d] \in OpenPlaces \cup {"idle"}
  /\ Goto(c, "release_count")
  /\ files' = files - 1
  /\ ir_enable' = FALSE
  /\ UNCHANGED <<ring, options, repeats, held, irq, g_ot_ir_s_available, ir_key_wait, reading,
                 history>>

ReleaseCount(c) ==
  /\ \/ /\ At(c, "release_count")
        /\ Goto(c, IF g_ot_ir_s_available = 0 THEN "release_timer" ELSE "release_undo")
        /\ g_ot_ir_s_available' = g_ot_ir_s_available + 1
     \/ /\ At(c, "release_undo") /\ Goto(c, "idle")
        /\ g_ot_ir_s_available' = g_ot_ir_s_available - 1
  /\ UNCHANGED <<ring, options, repeats, interrupt, ir_key_wait, files, reading, history>>

ReleaseTimer(c) ==
  /\ At(c, "release_timer") /\ Goto(c, "release_queue")
  /\ g_repkey_timeout_timer' = "idle"
  /\ UNCHANGED <<ring, options, repkey_checkflag, handler, interrupt, opening, reading, history>>

ReleaseQueue(c) ==
  /\ At(c, "release_queue") /\ Goto(c, "idle")
  /\ ir_key_wait' = FALSE
  /\ UNCHANGED <<ring, options, repeats, interrupt, g_ot_ir_s_available, files, reading, history>>

-----------------------------------------------------------------------------
(* Reading *)

ot_ir_read(c) ==
  /\ files > 0 /\ At(c, "idle") /\ Goto(c, "test")
  /\ \E n \in Counts : reading' = [reading EXCEPT ![c].left = n]
  /\ UNCHANGED <<ring, options, repeats, interrupt, opening, history>>

\* A reader waits for a key; it gives up on a signal.
ReadTest(c) ==
  /\ \/ At(c, "test") /\ Goto(c, IF head = tail THEN "wait" ELSE "loop") /\ UNCHANGED reading
     \/ At(c, "wait") /\ head # tail /\ Goto(c, "test") /\ UNCHANGED reading
     \/ /\ At(c, "wait") /\ head = tail /\ Goto(c, "idle")
        /\ reading' = [reading EXCEPT ![c] = NotReading]
  /\ UNCHANGED <<ring, options, repeats, interrupt, opening, history>>

ReadLoop(c) ==
  /\ At(c, "loop")
  /\ IF head # tail /\ reading[c].left > 0
     THEN Goto(c, "take") /\ UNCHANGED reading
     ELSE Goto(c, "idle") /\ reading' = [reading EXCEPT ![c] = NotReading]
  /\ UNCHANGED <<ring, options, repeats, interrupt, opening, history>>

ReadTake(c) ==
  /\ At(c, "take") /\ Goto(c, "advance")
  /\ last' = buf[tail].n
  /\ reading' = [reading EXCEPT ![c] = [at |-> tail, len |-> buf_len, left |-> @.left - 1]]
  /\ UNCHANGED <<ring, options, repeats, interrupt, opening, pushed, prev>>

\* Mutant: the tail is moved without regard to the end of the buffer asked for.
ReadAdvance_whole(c) ==
  /\ At(c, "advance") /\ Goto(c, "loop")
  /\ tail' = inc_buf(reading[c].at, OT_IR_MAX_BUF + 1)
  /\ UNCHANGED <<buf, head, buf_len, options, repeats, interrupt, opening, reading, history>>

ReadAdvance(c) ==
  /\ At(c, "advance") /\ Goto(c, "loop")
  /\ tail' = inc_buf(reading[c].at, reading[c].len)
  /\ UNCHANGED <<buf, head, buf_len, options, repeats, interrupt, opening, reading, history>>

-----------------------------------------------------------------------------
(* The ioctls that concern the ring *)

IR_IOC_SET_BUF(c) ==
  /\ files > 0 /\ At(c, "idle") /\ Goto(c, "set_head")
  /\ \E len \in Lens : buf_len' = len + 1
  /\ UNCHANGED <<buf, head, tail, options, repeats, interrupt, opening, reading, history>>

SetBufPointers(c) ==
  /\ \/ /\ At(c, "set_head") /\ Goto(c, "set_tail")
        /\ head' = 0
        /\ UNCHANGED <<tail, last, prev>>
     \/ /\ At(c, "set_tail") /\ Goto(c, "idle")
        /\ tail' = 0
        /\ last' = pushed /\ prev' = Nobody
        /\ UNCHANGED head
  /\ UNCHANGED <<buf, buf_len, options, repeats, interrupt, opening, reading, pushed>>

SetOption(c) ==
  /\ files > 0 /\ At(c, "idle")
  /\ \/ enable_keyup' = ~enable_keyup /\ UNCHANGED <<enable_repkey, repkey_delaytime>>
     \/ enable_repkey' = ~enable_repkey /\ UNCHANGED <<enable_keyup, repkey_delaytime>>
     \/ repkey_delaytime' \in Delays /\ UNCHANGED <<enable_keyup, enable_repkey>>
  /\ UNCHANGED <<ring, repeats, interrupt, opening, pc, reading, history>>

-----------------------------------------------------------------------------
(* What has met, where nothing is locked *)

Taking(c) == pc[c] \in {"take", "advance"}
Resizing(c) == pc[c] \in {"set_head", "set_tail"}

RingMet ==
  \/ \E c \in Callers :
       /\ Resizing(c)
       /\ irq.pc \in {"slot", "head", "late"} \/ \E d \in Callers : Taking(d)
  \/ \E c, d \in Callers : c # d /\ Taking(c) /\ Taking(d)
  \* a reader may see a head whose key is still to come
  \/ irq.pc = "late" /\ \E c \in Callers : Taking(c)
  \* the interrupt has gone round the ring since a reader found a key in it
  \/ \E c \in Callers : At(c, "take") /\ head = tail

TimerMet == handler # "idle" /\ irq # NoIrq

OpeningMet ==
  \/ \E c, d \in Callers : pc[c] \in ReleasePlaces /\ pc[d] \in OpenPlaces
  \* an interrupt of the last opening is still under way
  \/ irq # NoIrq /\ \E c \in Callers : At(c, "open_init")

Meeting == {what \in {"ring", "timer", "opening"} :
              CASE what = "ring" -> RingMet
                [] what = "timer" -> TimerMet
                [] OTHER -> OpeningMet}

-----------------------------------------------------------------------------
Init ==
  /\ buf = [i \in 0..OT_IR_MAX_BUF |-> Nobody]
  /\ head = 0 /\ tail = 0 /\ buf_len = DEFAULT_BUF_LEN
  /\ enable_repkey = FALSE /\ repkey_checkflag = FALSE /\ enable_keyup = FALSE
  /\ repkey_delaytime = 0
  /\ ir_key_wait = FALSE
  /\ g_repkey_timeout_timer = "idle" /\ handler = "idle"
  /\ ir_enable = FALSE /\ held = FALSE /\ irq = NoIrq
  /\ g_ot_ir_s_available = 1 /\ files = 0
  /\ pc = [c \in Callers |-> "idle"]
  /\ reading = [c \in Callers |-> NotReading]
  /\ pushed = 0 /\ last = 0 /\ prev = Nobody
  /\ calls = 0
  /\ met = {}

Interrupt ==
  \/ interrupt_rcv \/ ArmTimer \/ SetCheckflag
  \/ ReleaseKey \/ ClearCheckflag \/ StoreKey \/ StoreHead

Begin(c) ==
  \/ ot_ir_open(c) \/ ot_ir_release(c)
  \/ ot_ir_read(c) \/ IR_IOC_SET_BUF(c) \/ SetOption(c)

Proceed(c) ==
  \/ OpenRefused(c) \/ OpenTimer(c) \/ OpenInit(c) \/ OpenQueue(c) \/ OpenConfig(c)
  \/ ReleaseCount(c) \/ ReleaseTimer(c) \/ ReleaseQueue(c)
  \/ ReadTest(c) \/ ReadLoop(c) \/ ReadTake(c) \/ ReadAdvance(c)
  \/ SetBufPointers(c)

Next ==
  /\ \/ (Interrupt \/ TimerFires \/ repkey_timeout_handler) /\ UNCHANGED calls
     \/ \E c \in Callers : Proceed(c) /\ UNCHANGED calls
     \/ \E c \in Callers : calls < MaxCalls /\ Begin(c) /\ calls' = calls + 1
  /\ met' = met \cup Meeting'

Spec == Init /\ [][Next]_vars

-----------------------------------------------------------------------------
(* Correctness *)

TypeOK ==
  /\ \A i \in 0..OT_IR_MAX_BUF :
       buf[i] \in [n : 0..MaxPush, key : Keys \cup {Zero}, up : BOOLEAN]
  /\ buf_len \in 2..(OT_IR_MAX_BUF + 1)
  /\ head \in 0..OT_IR_MAX_BUF /\ tail \in 0..OT_IR_MAX_BUF
  /\ repkey_delaytime \in Delays \cup {0, DEFAULT_DELAYTIME}
  /\ ir_key_wait \in BOOLEAN
  /\ g_ot_ir_s_available \in -2..1 /\ files \in {0, 1}
  /\ met \subseteq {"ring", "timer", "opening"}

\* Keys are read in the order in which they were pressed, none twice and none
\* from before the ring was reset, also when the interrupt overtakes a
\* reader: unless a resizing meets the interrupt or a reader, two threads
\* read at once, the head is seen before the key, or the interrupt goes round
\* while a reader has looked and not yet read.
InOrder ==
  [][\A c \in Callers : At(c, "take") /\ pc'[c] = "advance" =>
       met \cap {"ring", "opening"} # {} \/ buf[tail].n > last]_vars

\* A key that goes up is the one that went down last; only the first key after
\* a reset has none before it.
UpFollowsDown ==
  [][irq.pc = "slot" /\ irq' # irq /\ irq.up =>
       met \cap {"ring", "opening"} # {} \/ prev.n = 0 \/ (prev.key = irq.key /\ ~prev.up)]_vars

\* Whenever repeated keys are suppressed, the timer that ends this is running
\* or its handler is; unless the handler has met the interrupt.
RepeatsResume ==
  files > 0 /\ repkey_checkflag /\ irq = NoIrq =>
    \/ g_repkey_timeout_timer = "pending" \/ handler # "idle"
    \/ met \cap {"timer", "opening"} # {}

\* "After a number of times to close the device, the device can be
\* successfully opened" (sample_ot_ir.c).
Reopenable ==
  files = 0 /\ (\A c \in Callers : At(c, "idle")) => g_ot_ir_s_available = 1
=============================================================================
