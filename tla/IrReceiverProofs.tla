--------------------------- MODULE IrReceiverProofs ---------------------------
(***************************************************************************)
(* What holds of the infrared receiver for any keys, any length of the ring *)
(* and any number of programs, though nothing in it is locked: the device is *)
(* open once, keys are read in order and once, a key that goes up is the one *)
(* that went down, and the suppression of repeated keys ends.               *)
(*                                                                         *)
(* The invariant has a part that always holds, about opening and closing,   *)
(* and two that hold until certain accesses meet, about the ring and about  *)
(* the timer.                                                              *)
(***************************************************************************)
EXTENDS IrReceiver, TLAPS

-----------------------------------------------------------------------------
(* The inductive invariant *)

Slots == 0..OT_IR_MAX_BUF
Lengths == 2..(OT_IR_MAX_BUF + 1)
Entries == [n : 0..MaxPush, key : Keys \cup {Zero}, up : BOOLEAN]
Places == {"idle", "test", "wait", "loop", "take", "advance", "set_head", "set_tail"}
            \cup OpenPlaces \cup ReleasePlaces
IrqPlaces ==
  {NoIrq} \cup [pc : {"unflag"}] \cup [pc : {"slot"}, key : Keys \cup {Zero}, up : BOOLEAN]
    \cup [pc : {"arm", "flag"}, key : Keys, up : {FALSE}]
    \cup [pc : {"head"}, at : Slots, len : Lengths]
    \cup [pc : {"late"}, at : Slots, entry : Entries]

Typed ==
  /\ buf \in [Slots -> Entries]
  /\ head \in Slots /\ tail \in Slots /\ buf_len \in Lengths
  /\ enable_repkey \in BOOLEAN /\ repkey_checkflag \in BOOLEAN /\ enable_keyup \in BOOLEAN
  /\ repkey_delaytime \in Delays \cup {0, DEFAULT_DELAYTIME}
  /\ ir_key_wait \in BOOLEAN
  /\ g_repkey_timeout_timer \in {"idle", "pending"} /\ handler \in {"idle", "del", "clear"}
  /\ ir_enable \in BOOLEAN /\ held \in BOOLEAN
  /\ irq \in IrqPlaces
  /\ pc \in [Callers -> Places]
  /\ reading \in [Callers -> [at : Slots, len : Lengths, left : Int]]
  /\ pushed \in 0..MaxPush /\ last \in 0..MaxPush /\ prev \in Entries
  /\ irq.pc \in {"arm", "flag", "slot", "unflag"} => pushed < MaxPush
  /\ met \subseteq {"ring", "timer", "opening"}

\* What meets is remembered.
Met ==
  /\ RingMet => "ring" \in met
  /\ TimerMet => "timer" \in met
  /\ OpeningMet => "opening" \in met

Opener(c) == pc[c] \in OpenPlaces
Opens(c) == pc[c] \in OpenPlaces \ {"refuse"}
Releaser(c) == pc[c] \in ReleasePlaces
Counting(c) == At(c, "release_count")
Undoes(c) == At(c, "release_undo")

\* What is missing in the count of who has the device open
Opening == IF \E c \in Callers : Opener(c) THEN 1 ELSE 0
Closing == IF \E c \in Callers : Counting(c) THEN 1 ELSE 0
Leak == 1 - files - g_ot_ir_s_available - Opening - Closing

\* One thread opens at one time, one releases; what they and the open file
\* count is there; and a device that is opened is open to nobody else.
Once ==
  /\ g_ot_ir_s_available \in Int /\ files \in {0, 1}
  /\ \A c, d \in Callers : Opener(c) /\ Opener(d) => c = d
  /\ \A c, d \in Callers : Releaser(c) /\ Releaser(d) => c = d
  /\ \A c \in Callers : Opens(c) => files = 0 /\ \A d \in Callers : ~Counting(d)
  /\ \A c \in Callers : Counting(c) => files = 0
  /\ files = 0 => \A c \in Callers : pc[c] \in OpenPlaces \cup ReleasePlaces \cup {"idle"}
  /\ ir_enable => files > 0
  /\ Leak \in 0..2
  /\ Leak = 2 => files = 0 /\ \A c \in Callers : ~Opens(c) /\ ~Counting(c) /\ ~Undoes(c)
  /\ Leak = 1 /\ (\E c \in Callers : Undoes(c)) => files = 0 /\ \A c \in Callers : ~Opens(c)

\* Until timer and interrupt meet, or a close and an open: nobody closes what is
\* open, a device is opened with nothing under way, and a flag that suppresses
\* repeated keys has its timer or the handler of it.
Configuring(c) == pc[c] \in {"open_queue", "open_config"}

Timed ==
  {"timer", "opening"} \cap met = {} =>
    /\ \A c \in Callers : Releaser(c) => files = 0
    /\ \A c \in Callers : Configuring(c) => irq = NoIrq /\ ~repkey_checkflag
    /\ files > 0 /\ irq.pc = "flag" => g_repkey_timeout_timer = "pending"
    /\ files > 0 /\ repkey_checkflag /\ irq.pc # "unflag" =>
         g_repkey_timeout_timer = "pending" \/ handler # "idle"

\* A delay that was set since the device was opened
DelaySet ==
  files > 0 \/ (\E c \in Callers : Configuring(c)) => repkey_delaytime \in Delays \cup {DEFAULT_DELAYTIME}

-----------------------------------------------------------------------------
\* The ring: the slot j places before the head, how many keys there are from t
\* on, the tail when a reader has moved on, what a slot is about to hold, and
\* the last key the head has passed
Back(h, j, len) == IF j <= h THEN h - j ELSE h - j + len
Between(t, h, len) == IF t <= h THEN h - t ELSE h - t + len
NextTail == IF \E c \in Callers : At(c, "advance") THEN inc_buf(tail, buf_len) ELSE tail
Unread == Between(NextTail, head, buf_len)
Number(i) == IF irq.pc = "late" /\ irq.at = i THEN irq.entry.n ELSE buf[i].n
Passed == IF irq.pc = "head" THEN pushed - 1 ELSE pushed

Calm == \A c \in Callers : ~Resizing(c)

\* The key being written is the last, and comes behind the head.
Writing ==
  /\ irq.pc = "head" => /\ irq.at = head /\ irq.len = buf_len
                        /\ buf[head] = prev /\ prev.n = pushed
  /\ irq.pc = "late" => /\ irq.at = Back(head, 1, buf_len)
                        /\ irq.entry = prev /\ prev.n = pushed
  /\ irq.pc = "slot" /\ irq.up /\ prev.n # 0 => prev.key = irq.key /\ ~prev.up

\* The unread keys are the last that were put in, and none was read before.
Ring ==
  /\ head < buf_len /\ tail < buf_len
  /\ irq.pc \notin {"head", "late"} /\ prev.n # 0 => BUF_LAST = prev
  /\ last + Unread <= Passed
  /\ \A j \in 1..Unread : Number(Back(head, j, buf_len)) = Passed - j + 1

Ordered ==
  {"ring", "opening"} \cap met = {} =>
    /\ \A c \in Callers : At(c, "set_tail") => head = 0
    /\ \A c \in Callers : At(c, "advance") => reading[c].at = tail /\ reading[c].len = buf_len
    /\ Writing
    /\ Calm => Ring

-----------------------------------------------------------------------------
(* What the interrupt's place says *)

LEMMA IrqFacts ==
  ASSUME Typed
  PROVE  /\ irq.pc \in {"idle", "unflag", "slot", "arm", "flag", "head", "late"}
         /\ irq = NoIrq <=> irq.pc = "idle"
         /\ irq.pc = "slot" => irq \in [pc : {"slot"}, key : Keys \cup {Zero}, up : BOOLEAN]
         /\ irq.pc \in {"arm", "flag"} => irq \in [pc : {"arm", "flag"}, key : Keys, up : {FALSE}]
         /\ irq.pc = "head" => irq \in [pc : {"head"}, at : Slots, len : Lengths]
         /\ irq.pc = "late" => irq \in [pc : {"late"}, at : Slots, entry : Entries]
<1>1. irq \in IrqPlaces
  BY DEF Typed
<1>2. NoIrq.pc = "idle"
  BY DEF NoIrq
<1>3. ASSUME irq \in [pc : {"unflag"}]
      PROVE  irq.pc = "unflag"
  BY <1>3
<1>4. ASSUME irq \in [pc : {"slot"}, key : Keys \cup {Zero}, up : BOOLEAN]
      PROVE  irq.pc = "slot"
  BY <1>4
<1>5. ASSUME irq \in [pc : {"arm", "flag"}, key : Keys, up : {FALSE}]
      PROVE  irq.pc \in {"arm", "flag"}
  BY <1>5
<1>6. ASSUME irq \in [pc : {"head"}, at : Slots, len : Lengths]
      PROVE  irq.pc = "head"
  BY <1>6
<1>7. ASSUME irq \in [pc : {"late"}, at : Slots, entry : Entries]
      PROVE  irq.pc = "late"
  BY <1>7
<1>8. QED
  BY <1>1, <1>2, <1>3, <1>4, <1>5, <1>6, <1>7 DEF IrqPlaces

\* What has met stays met, and is known at once.
LEMMA MetStep ==
  ASSUME Typed, Met, [Next]_vars
  PROVE  /\ Met'
         /\ met \subseteq met'
         /\ met' \subseteq {"ring", "timer", "opening"}
<1>1. CASE Next
  <2>1. met' = met \cup Meeting'
    BY <1>1 DEF Next
  <2>2. /\ RingMet' => "ring" \in Meeting'
        /\ TimerMet' => "timer" \in Meeting'
        /\ OpeningMet' => "opening" \in Meeting'
    BY DEF Meeting
  <2>3. Meeting' \subseteq {"ring", "timer", "opening"}
    BY DEF Meeting
  <2>4. QED
    BY <2>1, <2>2, <2>3 DEF Met, Typed
<1>2. CASE UNCHANGED vars
  <2>1. /\ RingMet' <=> RingMet
        /\ TimerMet' <=> TimerMet
        /\ OpeningMet' <=> OpeningMet
        /\ met' = met
    BY <1>2 DEF vars, ring, interrupt, opening, repeats, RingMet, TimerMet, OpeningMet, Taking, Resizing, At
  <2>2. QED
    BY <2>1 DEF Met, Typed
<1>3. QED
  BY <1>1, <1>2

-----------------------------------------------------------------------------
(* Arithmetic of the ring *)

LEMMA IncBuf ==
  ASSUME NEW len \in Nat, NEW x \in 0..(len - 1)
  PROVE  inc_buf(x, len) = IF x + 1 = len THEN 0 ELSE x + 1
BY DEF inc_buf

\* Wherever a slot has come from, its successor is a slot of the ring.
LEMMA IncInside ==
  ASSUME NEW len \in Lengths, NEW x \in Nat, OT_IR_MAX_BUF \in Nat
  PROVE  inc_buf(x, len) \in Slots
<1>1. len \in Nat \ {0} /\ len <= OT_IR_MAX_BUF + 1
  BY DEF Lengths
<1>2. (x + 1) % len \in 0..(len - 1)
  BY <1>1
<1>3. QED
  BY <1>1, <1>2 DEF inc_buf, Slots

\* When the head moves on by one, every key moves back by one.
LEMMA Push ==
  ASSUME NEW len \in Nat, len > 1, NEW h \in 0..(len - 1), NEW t \in 0..(len - 1)
  PROVE  LET g == inc_buf(h, len)
             u == Between(t, h, len)
             v == Between(t, g, len)
         IN  /\ g \in 0..(len - 1) /\ u \in 0..(len - 1) /\ v \in 0..(len - 1)
             /\ v = u + 1 \/ v = 0
             /\ Back(g, 1, len) = h
             /\ \A j \in 2..v : /\ j - 1 \in 1..u
                               /\ Back(g, j, len) = Back(h, j - 1, len)
                               /\ Back(h, j - 1, len) # h
BY IncBuf DEF Back, Between

\* When the tail moves on by one, the last of the unread keys goes.
LEMMA Take ==
  ASSUME NEW len \in Nat, len > 1, NEW h \in 0..(len - 1), NEW t \in 0..(len - 1), t # h
  PROVE  LET s == inc_buf(t, len)
             u == Between(t, h, len)
         IN  /\ s \in 0..(len - 1) /\ u \in 1..(len - 1)
             /\ Between(s, h, len) = u - 1
             /\ Back(h, u, len) = t
BY IncBuf DEF Back, Between

-----------------------------------------------------------------------------
(* Types *)

LEMMA TypedStep ==
  ASSUME Typed, Met, [Next]_vars
  PROVE  Typed'
<1> USE LengthAssumption DEF ring, options, repeats, interrupt, opening, history
<1> DEFINE Key == Keys \cup {Zero}
           Shapes == /\ irq' \in IrqPlaces
                     /\ irq'.pc \in {"arm", "flag", "slot", "unflag"} => pushed' < MaxPush
<1>0. met' \subseteq {"ring", "timer", "opening"}
  BY MetStep
<1>1. OT_IR_MAX_BUF \in Nat /\ 0 \in Slots /\ DEFAULT_BUF_LEN \in Lengths /\ MaxPush \in Nat
  BY DEF Slots, Lengths
<1>2. Nobody \in Entries
  BY <1>1 DEF Nobody, Entries
<1>3. BUF_LAST \in Entries
  BY <1>1 DEF BUF_LAST, Typed, Slots, Lengths
<1>4. ASSUME UNCHANGED <<pc, reading>>, Shapes, UNCHANGED <<buf, head, tail, buf_len>>,
             UNCHANGED <<options, pushed, last, prev, ir_key_wait, ir_enable>>,
             repkey_checkflag' \in BOOLEAN, held' \in BOOLEAN,
             g_repkey_timeout_timer' \in {"idle", "pending"}, handler' \in {"idle", "del", "clear"}
      PROVE  Typed'
  BY <1>0, <1>4 DEF Typed
<1>5. ASSUME interrupt_rcv
      PROVE  Typed'
  <2>1. pushed < MaxPush /\ pushed' = pushed
    BY <1>5 DEF interrupt_rcv
  <2>2. PICK k \in Keys :
          irq' = IF Repeated(k) THEN NoIrq
                 ELSE [pc |-> IF enable_repkey THEN "arm" ELSE "slot", key |-> k, up |-> FALSE]
    BY <1>5 DEF interrupt_rcv
  <2>3. irq' \in IrqPlaces
    BY <2>2 DEF IrqPlaces
  <2>4. QED
    BY <1>4, <1>5, <2>1, <2>3 DEF interrupt_rcv, Typed
<1>6. ASSUME ArmTimer \/ SetCheckflag
      PROVE  Typed'
  <2>1. irq \in [pc : {"arm", "flag"}, key : Keys, up : {FALSE}]
    BY <1>6, IrqFacts DEF ArmTimer, SetCheckflag
  <2>2. irq' \in [pc : {"arm", "flag"}, key : Keys, up : {FALSE}]
          \cup [pc : {"slot"}, key : Key, up : BOOLEAN]
    BY <1>6, <2>1 DEF ArmTimer, SetCheckflag
  <2>3. pushed < MaxPush /\ pushed' = pushed
    BY <1>6, <2>1 DEF ArmTimer, SetCheckflag, Typed
  <2>4. QED
    BY <1>4, <1>6, <2>2, <2>3 DEF ArmTimer, SetCheckflag, Typed, IrqPlaces
<1>7. ASSUME ReleaseKey
      PROVE  Typed'
  BY <1>4, <1>7 DEF ReleaseKey, Typed, IrqPlaces
<1>8. ASSUME ClearCheckflag
      PROVE  Typed'
  <2>1. irq' \in IrqPlaces
    BY <1>8, <1>3 DEF ClearCheckflag, IrqPlaces, Entries
  <2>2. pushed < MaxPush /\ pushed' = pushed
    BY <1>8 DEF ClearCheckflag, Typed
  <2>3. QED
    BY <1>4, <1>8, <2>1, <2>2 DEF ClearCheckflag, Typed
<1>9. ASSUME StoreKey
      PROVE  Typed'
  <2>1. irq \in [pc : {"slot"}, key : Key, up : BOOLEAN] /\ pushed < MaxPush
    BY <1>9, IrqFacts DEF StoreKey, Typed
  <2>2. Entry \in Entries
    BY <1>1, <2>1 DEF Entry, Entries, Typed
  <2>3. pushed' \in 0..MaxPush /\ prev' \in Entries
    BY <1>1, <1>9, <2>1, <2>2 DEF StoreKey, Typed
  <2>4. irq' \in IrqPlaces /\ irq'.pc \in {"head", "late"}
    <3>1. CASE irq' = [pc |-> "head", at |-> head, len |-> buf_len]
      BY <3>1 DEF Typed, IrqPlaces
    <3>2. CASE irq' = [pc |-> "late", at |-> head, entry |-> Entry]
      BY <2>2, <3>2 DEF Typed, IrqPlaces
    <3>3. QED
      BY <1>9, <3>1, <3>2 DEF StoreKey
  <2>5. buf' \in [Slots -> Entries] /\ head' \in Slots
    <3>1. head \in Nat /\ buf_len \in Lengths
      BY <1>1 DEF Typed, Slots
    <3>2. inc_buf(head, buf_len) \in Slots
      BY <1>1, <3>1, IncInside
    <3>3. QED
      BY <1>9, <2>2, <3>2 DEF StoreKey, Typed
  <2>6. UNCHANGED <<tail, buf_len, options, repeats, ir_enable, held, opening, pc, reading, last>>
    BY <1>9 DEF StoreKey
  <2>7. QED
    BY <1>0, <2>3, <2>4, <2>5, <2>6 DEF Typed
<1>10. ASSUME StoreHead
       PROVE  Typed'
  <2>1. irq' = NoIrq /\ irq'.pc = "idle"
    BY <1>10 DEF StoreHead, NoIrq
  <2>2. buf' \in [Slots -> Entries] /\ head' \in Slots
    <3>1. CASE irq.pc = "head"
      <4>1. irq.at \in Nat /\ irq.len \in Lengths
        BY <1>1, <3>1, IrqFacts DEF Slots
      <4>2. inc_buf(irq.at, irq.len) \in Slots
        BY <1>1, <4>1, IncInside
      <4>3. QED
        BY <1>10, <3>1, <4>2 DEF StoreHead, Typed
    <3>2. CASE irq.pc = "late"
      <4>1. irq.at \in Slots /\ irq.entry \in Entries
        BY <3>2, IrqFacts
      <4>2. QED
        BY <1>10, <3>2, <4>1 DEF StoreHead, Typed
    <3>3. QED
      BY <1>10, <3>1, <3>2 DEF StoreHead
  <2>3. UNCHANGED <<tail, buf_len, options, repeats, ir_enable, held, opening, pc, reading, history>>
    BY <1>10 DEF StoreHead
  <2>4. QED
    BY <1>0, <2>1, <2>2, <2>3 DEF Typed, IrqPlaces
<1>11. ASSUME TimerFires \/ repkey_timeout_handler
       PROVE  Typed'
  BY <1>4, <1>11 DEF TimerFires, repkey_timeout_handler, Typed
<1>12. ASSUME NEW c \in Callers, NEW place \in Places, Goto(c, place),
              UNCHANGED <<buf, irq, held, pushed, handler>>,
              head' \in Slots, tail' \in Slots, buf_len' \in Lengths,
              enable_repkey' \in BOOLEAN, repkey_checkflag' \in BOOLEAN, enable_keyup' \in BOOLEAN,
              repkey_delaytime' \in Delays \cup {0, DEFAULT_DELAYTIME},
              ir_key_wait' \in BOOLEAN, g_repkey_timeout_timer' \in {"idle", "pending"},
              ir_enable' \in BOOLEAN, last' \in 0..MaxPush, prev' \in Entries,
              reading' \in [Callers -> [at : Slots, len : Lengths, left : Int]]
       PROVE  Typed'
  BY <1>0, <1>12 DEF Typed, Goto
<1>13. ASSUME NEW c \in Callers,
              \/ ot_ir_open(c) \/ OpenRefused(c) \/ OpenTimer(c) \/ OpenQueue(c) \/ OpenConfig(c)
              \/ ot_ir_release(c) \/ ReleaseCount(c) \/ ReleaseTimer(c) \/ ReleaseQueue(c)
       PROVE  Typed'
  <2>1. \E place \in Places : Goto(c, place)
    BY <1>13 DEF ot_ir_open, OpenRefused, OpenTimer, OpenQueue, OpenConfig, ot_ir_release,
                 ReleaseCount, ReleaseTimer, ReleaseQueue, Places, OpenPlaces, ReleasePlaces
  <2>2. UNCHANGED <<ring, options, repkey_checkflag, handler, held, irq, reading, history>>
    BY <1>13 DEF ot_ir_open, OpenRefused, OpenTimer, OpenQueue, OpenConfig, ot_ir_release,
                 ReleaseCount, ReleaseTimer, ReleaseQueue
  <2>3. /\ g_repkey_timeout_timer' \in {"idle", g_repkey_timeout_timer}
        /\ ir_enable' \in {TRUE, FALSE, ir_enable}
        /\ ir_key_wait' \in {TRUE, FALSE, ir_key_wait}
    BY <1>13 DEF ot_ir_open, OpenRefused, OpenTimer, OpenQueue, OpenConfig, ot_ir_release,
                 ReleaseCount, ReleaseTimer, ReleaseQueue
  <2>4. UNCHANGED <<buf, irq, held, pushed, handler>>
    BY <2>2
  <2>5. /\ head' \in Slots /\ tail' \in Slots /\ buf_len' \in Lengths
        /\ enable_repkey' \in BOOLEAN /\ enable_keyup' \in BOOLEAN
        /\ repkey_delaytime' \in Delays \cup {0, DEFAULT_DELAYTIME}
        /\ last' \in 0..MaxPush /\ prev' \in Entries
        /\ reading' \in [Callers -> [at : Slots, len : Lengths, left : Int]]
    BY <2>2 DEF Typed
  <2>6. repkey_checkflag' \in BOOLEAN
    BY <2>2 DEF Typed
  <2>7. ir_key_wait' \in BOOLEAN /\ ir_enable' \in BOOLEAN
    BY <2>3 DEF Typed
  <2>8. g_repkey_timeout_timer' \in {"idle", "pending"}
    BY <2>3 DEF Typed
  <2>9. PICK place \in Places : Goto(c, place)
    BY <2>1
  <2>10. QED
    BY ONLY <1>12, <1>13, <2>4, <2>5, <2>6, <2>7, <2>8, <2>9
<1>14. ASSUME NEW c \in Callers, OpenInit(c)
       PROVE  Typed'
  <2>1. Goto(c, "open_queue") /\ "open_queue" \in Places
    BY <1>14 DEF OpenInit, Places, OpenPlaces
  <2>2. QED
    BY <1>1, <1>2, <1>12, <1>14, <2>1 DEF OpenInit, Typed
<1>15. ASSUME NEW c \in Callers, ot_ir_read(c) \/ ReadTest(c) \/ ReadLoop(c) \/ ReadTake(c)
       PROVE  Typed'
  <2>1. \E place \in Places : Goto(c, place)
    BY <1>15 DEF ot_ir_read, ReadTest, ReadLoop, ReadTake, Places
  <2>2. reading' \in [Callers -> [at : Slots, len : Lengths, left : Int]]
    <3>1. NotReading \in [at : Slots, len : Lengths, left : Int]
      BY <1>1 DEF NotReading
    <3>2. \E r \in [at : Slots, len : Lengths, left : Int] : reading' = [reading EXCEPT ![c] = r]
      <4>1. CASE ot_ir_read(c)
        <5>1. PICK n \in Counts : reading' = [reading EXCEPT ![c].left = n]
          BY <4>1 DEF ot_ir_read
        <5>2. reading' = [reading EXCEPT ![c] = [reading[c] EXCEPT !.left = n]]
          BY <5>1 DEF Typed
        <5>3. [reading[c] EXCEPT !.left = n] \in [at : Slots, len : Lengths, left : Int]
          BY DEF Typed
        <5>4. QED
          BY <5>2, <5>3
      <4>2. CASE ReadTest(c) \/ ReadLoop(c)
        <5>1. UNCHANGED reading \/ reading' = [reading EXCEPT ![c] = NotReading]
          BY <4>2 DEF ReadTest, ReadLoop
        <5>2. reading = [reading EXCEPT ![c] = reading[c]]
          BY DEF Typed
        <5>3. reading[c] \in [at : Slots, len : Lengths, left : Int]
          BY DEF Typed
        <5>4. QED
          BY <3>1, <5>1, <5>2, <5>3
      <4>3. CASE ReadTake(c)
        <5>1. reading' = [reading EXCEPT ![c] = [at |-> tail, len |-> buf_len,
                                                 left |-> reading[c].left - 1]]
          BY <4>3 DEF ReadTake
        <5>2. [at |-> tail, len |-> buf_len, left |-> reading[c].left - 1]
                \in [at : Slots, len : Lengths, left : Int]
          BY DEF Typed
        <5>3. QED
          BY <5>1, <5>2
      <4>4. QED
        BY <1>15, <4>1, <4>2, <4>3
    <3>3. QED
      BY <3>2 DEF Typed
  <2>3. last' \in 0..MaxPush
    <3>1. buf[tail].n \in 0..MaxPush
      BY DEF Typed, Entries
    <3>2. QED
      BY <1>15, <3>1 DEF ot_ir_read, ReadTest, ReadLoop, ReadTake, Typed
  <2>4. UNCHANGED <<ring, options, repeats, interrupt, opening, pushed, prev>>
    BY <1>15 DEF ot_ir_read, ReadTest, ReadLoop, ReadTake
  <2>5. QED
    BY <1>12, <2>1, <2>2, <2>3, <2>4 DEF Typed
<1>16. ASSUME NEW c \in Callers, ReadAdvance(c)
       PROVE  Typed'
  <2>1. Goto(c, "loop") /\ "loop" \in Places
    BY <1>16 DEF ReadAdvance, Places
  <2>2. tail' \in Slots
    <3>1. reading[c].at \in Nat /\ reading[c].len \in Lengths
      BY <1>1 DEF Typed, Slots
    <3>2. QED
      BY <1>1, <1>16, <3>1, IncInside DEF ReadAdvance
  <2>3. QED
    BY <1>12, <1>16, <2>1, <2>2 DEF ReadAdvance, Typed
<1>17. ASSUME NEW c \in Callers, IR_IOC_SET_BUF(c) \/ SetBufPointers(c)
       PROVE  Typed'
  <2>1. \E place \in Places : Goto(c, place)
    BY <1>17 DEF IR_IOC_SET_BUF, SetBufPointers, Places
  <2>2. buf_len' \in Lengths
    BY <1>1, <1>17 DEF IR_IOC_SET_BUF, SetBufPointers, Typed, Lengths
  <2>3. head' \in Slots /\ tail' \in Slots
    BY <1>1, <1>17 DEF IR_IOC_SET_BUF, SetBufPointers, Typed
  <2>4. last' \in 0..MaxPush /\ prev' \in Entries
    BY <1>2, <1>17 DEF IR_IOC_SET_BUF, SetBufPointers, Typed
  <2>5. UNCHANGED <<buf, options, repeats, interrupt, opening, reading, pushed>>
    BY <1>17 DEF IR_IOC_SET_BUF, SetBufPointers
  <2>6. QED
    BY <1>12, <2>1, <2>2, <2>3, <2>4, <2>5 DEF Typed
<1>18. ASSUME NEW c \in Callers, SetOption(c)
       PROVE  Typed'
  <2>1. UNCHANGED <<ring, repeats, interrupt, opening, pc, reading, history>>
    BY <1>18 DEF SetOption
  <2>2. /\ enable_repkey' \in BOOLEAN /\ enable_keyup' \in BOOLEAN
        /\ repkey_delaytime' \in Delays \cup {0, DEFAULT_DELAYTIME}
    BY <1>18 DEF SetOption, Typed
  <2>3. QED
    BY <1>0, <2>1, <2>2 DEF Typed
<1>19. CASE UNCHANGED vars
  BY <1>4, <1>19 DEF vars, Typed
<1>20. QED
  BY <1>5, <1>6, <1>7, <1>8, <1>9, <1>10, <1>11, <1>13, <1>14, <1>15, <1>16, <1>17, <1>18, <1>19
     DEF Next, Interrupt, Proceed, Begin

-----------------------------------------------------------------------------
(* Opening and closing *)

LEMMA GotoFacts ==
  ASSUME Typed, NEW c \in Callers, NEW place, Goto(c, place)
  PROVE  pc'[c] = place /\ \A d \in Callers : d # c => pc'[d] = pc[d]
BY DEF Typed, Goto

LEMMA OnceStep ==
  ASSUME Typed, Once, [Next]_vars
  PROVE  Once'
<1> USE DEF ring, options, repeats, interrupt, opening, history
<1> DEFINE Calls == {"test", "wait", "loop", "take", "advance", "set_head", "set_tail"}
<1>1. ASSUME UNCHANGED <<pc, g_ot_ir_s_available, files, ir_enable>>
      PROVE  Once'
  BY <1>1 DEF Once, Leak, Opening, Closing, Opener, Opens, Releaser, Counting, Undoes, At
<1>2. ASSUME NEW c \in Callers, NEW place \in Calls \cup {"idle"}, Goto(c, place),
             pc[c] \in Calls \/ (pc[c] = "idle" /\ files > 0),
             UNCHANGED <<g_ot_ir_s_available, files, ir_enable>>
      PROVE  Once'
  <2>1. pc'[c] = place /\ \A d \in Callers : d # c => pc'[d] = pc[d]
    BY <1>2, GotoFacts
  <2>2. /\ \A d \in Callers : pc'[d] \in OpenPlaces <=> pc[d] \in OpenPlaces
        /\ \A d \in Callers : pc'[d] \in OpenPlaces \cup ReleasePlaces => pc'[d] = pc[d]
        /\ \A d \in Callers : pc'[d] \in ReleasePlaces <=> pc[d] \in ReleasePlaces
    BY <1>2, <2>1 DEF OpenPlaces, ReleasePlaces
  <2>3. files # 0
    BY <1>2 DEF Once, OpenPlaces, ReleasePlaces
  <2>4. Opening' = Opening /\ Closing' = Closing
    BY <2>2 DEF Opening, Closing, Opener, Counting, At, ReleasePlaces
  <2>5. Leak' = Leak
    BY <1>2, <2>4 DEF Leak
  <2>6. \A d \in Callers : /\ Opener(d)' <=> Opener(d)
                           /\ Opens(d)' <=> Opens(d)
                           /\ Releaser(d)' <=> Releaser(d)
                           /\ Counting(d)' <=> Counting(d)
                           /\ Undoes(d)' <=> Undoes(d)
    BY <2>2 DEF Opener, Opens, Releaser, Counting, Undoes, At, OpenPlaces, ReleasePlaces
  <2>7. QED
    BY <1>2, <2>3, <2>5, <2>6 DEF Once
<1>3. ASSUME NEW c \in Callers, ot_ir_open(c)
      PROVE  Once'
  <2>1. /\ pc'[c] = IF g_ot_ir_s_available = 1 THEN "open_timer" ELSE "refuse"
        /\ \A d \in Callers : d # c => pc'[d] = pc[d]
    BY <1>3, GotoFacts DEF ot_ir_open
  <2>2. /\ pc[c] = "idle" /\ \A d \in Callers : pc[d] \notin OpenPlaces
        /\ g_ot_ir_s_available' = g_ot_ir_s_available - 1
        /\ UNCHANGED <<files, ir_enable>>
    BY <1>3 DEF ot_ir_open, At
  <2>3. Opening = 0 /\ Opening' = 1 /\ Closing' = Closing /\ Closing \in {0, 1}
    BY <2>1, <2>2 DEF Opening, Closing, Opener, Counting, At, OpenPlaces
  <2>4. Leak' = Leak
    BY <2>2, <2>3 DEF Leak, Once
  <2>5. ASSUME g_ot_ir_s_available = 1
        PROVE  files = 0 /\ Closing = 0 /\ Leak = 0
    BY <2>3, <2>5 DEF Leak, Once
  <2>6. \A d \in Callers : /\ Opener(d)' <=> d = c
                           /\ Opens(d)' <=> d = c /\ g_ot_ir_s_available = 1
                           /\ Releaser(d)' <=> Releaser(d)
                           /\ Counting(d)' <=> Counting(d)
                           /\ Undoes(d)' <=> Undoes(d)
                           /\ pc'[d] # pc[d] => pc'[d] \in OpenPlaces
    BY <2>1, <2>2 DEF Opener, Opens, Releaser, Counting, Undoes, At, OpenPlaces, ReleasePlaces
  <2>7. g_ot_ir_s_available' \in Int
    BY <2>2 DEF Once
  <2>8. QED
    BY <2>2, <2>4, <2>5, <2>6, <2>7 DEF Once, Closing
<1>4. ASSUME NEW c \in Callers, OpenRefused(c)
      PROVE  Once'
  <2>1. pc'[c] = "idle" /\ \A d \in Callers : d # c => pc'[d] = pc[d]
    BY <1>4, GotoFacts DEF OpenRefused
  <2>2. /\ pc[c] = "refuse"
        /\ g_ot_ir_s_available' = g_ot_ir_s_available + 1
        /\ UNCHANGED <<files, ir_enable>>
    BY <1>4 DEF OpenRefused, At
  <2>3. Opener(c)
    BY <2>2 DEF Opener, OpenPlaces
  <2>4. \A d \in Callers : /\ ~Opener(d)' /\ ~Opens(d)'
                           /\ Releaser(d)' <=> Releaser(d)
                           /\ Counting(d)' <=> Counting(d)
                           /\ Undoes(d)' <=> Undoes(d)
                           /\ pc'[d] # pc[d] => pc'[d] = "idle"
    BY <2>1, <2>2, <2>3 DEF Once, Opener, Opens, Releaser, Counting, Undoes, At, OpenPlaces, ReleasePlaces
  <2>5. Opening = 1 /\ Opening' = 0 /\ Closing' = Closing /\ Closing \in {0, 1}
    BY <2>3, <2>4 DEF Opening, Closing
  <2>6. Leak' = Leak /\ g_ot_ir_s_available' \in Int
    BY <2>2, <2>5 DEF Leak, Once
  <2>7. QED
    BY <2>2, <2>4, <2>6 DEF Once
<1>5. ASSUME NEW c \in Callers, OpenTimer(c) \/ OpenInit(c) \/ OpenQueue(c)
      PROVE  Once'
  <2>1. /\ pc'[c] \in OpenPlaces \ {"refuse"} /\ \A d \in Callers : d # c => pc'[d] = pc[d]
        /\ pc[c] \in OpenPlaces \ {"refuse"}
    BY <1>5, GotoFacts DEF OpenTimer, OpenInit, OpenQueue, At, OpenPlaces
  <2>2. UNCHANGED <<g_ot_ir_s_available, files, ir_enable>>
    BY <1>5 DEF OpenTimer, OpenInit, OpenQueue
  <2>3. \A d \in Callers : /\ Opener(d)' <=> Opener(d)
                           /\ Opens(d)' <=> Opens(d)
                           /\ Releaser(d)' <=> Releaser(d)
                           /\ Counting(d)' <=> Counting(d)
                           /\ Undoes(d)' <=> Undoes(d)
                           /\ pc'[d] # pc[d] => pc'[d] \in OpenPlaces
    BY <2>1 DEF Opener, Opens, Releaser, Counting, Undoes, At, OpenPlaces, ReleasePlaces
  <2>4. Opening' = Opening /\ Closing' = Closing
    BY <2>3 DEF Opening, Closing
  <2>5. Leak' = Leak
    BY <2>2, <2>4 DEF Leak
  <2>6. QED
    BY <2>2, <2>3, <2>5 DEF Once
<1>6. ASSUME NEW c \in Callers, OpenConfig(c)
      PROVE  Once'
  <2>1. pc'[c] = "idle" /\ \A d \in Callers : d # c => pc'[d] = pc[d]
    BY <1>6, GotoFacts DEF OpenConfig
  <2>2. pc[c] = "open_config" /\ files' = files + 1 /\ UNCHANGED g_ot_ir_s_available
    BY <1>6 DEF OpenConfig, At
  <2>3. Opener(c) /\ Opens(c) /\ files = 0 /\ \A d \in Callers : ~Counting(d)
    BY <2>2 DEF Once, Opener, Opens, OpenPlaces
  <2>4. \A d \in Callers : /\ ~Opener(d)' /\ ~Opens(d)'
                           /\ Releaser(d)' <=> Releaser(d)
                           /\ ~Counting(d)'
                           /\ Undoes(d)' <=> Undoes(d)
    BY <2>1, <2>2, <2>3 DEF Once, Opener, Opens, Releaser, Counting, Undoes, At, OpenPlaces, ReleasePlaces
  <2>5. Opening = 1 /\ Opening' = 0 /\ Closing' = 0 /\ Closing = 0
    BY <2>3, <2>4 DEF Opening, Closing
  <2>6. Leak' = Leak /\ files' = 1
    BY <2>2, <2>3, <2>5 DEF Leak, Once
  <2>7. Leak # 2 /\ ~(Leak = 1 /\ \E d \in Callers : Undoes(d))
    BY <2>3 DEF Once
  <2>8. QED
    BY <2>2, <2>4, <2>6, <2>7 DEF Once
<1>7. ASSUME NEW c \in Callers, ot_ir_release(c)
      PROVE  Once'
  <2>1. pc'[c] = "release_count" /\ \A d \in Callers : d # c => pc'[d] = pc[d]
    BY <1>7, GotoFacts DEF ot_ir_release
  <2>2. /\ files > 0 /\ pc[c] = "idle" /\ files' = files - 1 /\ ~ir_enable'
        /\ \A d \in Callers : pc[d] \in OpenPlaces \cup {"idle"}
        /\ UNCHANGED g_ot_ir_s_available
    BY <1>7 DEF ot_ir_release, At
  <2>3. files = 1 /\ files' = 0
    BY <2>2 DEF Once
  <2>4. \A d \in Callers : ~Opens(d) /\ ~Counting(d)
    BY <2>3 DEF Once
  <2>5. \A d \in Callers : /\ Opener(d)' <=> Opener(d)
                           /\ ~Opens(d)'
                           /\ Releaser(d)' <=> d = c
                           /\ Counting(d)' <=> d = c
                           /\ ~Undoes(d)'
                           /\ pc'[d] \in OpenPlaces \cup ReleasePlaces \cup {"idle"}
    BY <2>1, <2>2, <2>4 DEF Opener, Opens, Releaser, Counting, Undoes, At, OpenPlaces, ReleasePlaces
  <2>6. Opening' = Opening /\ Closing = 0 /\ Closing' = 1 /\ Opening \in {0, 1}
    BY <2>4, <2>5 DEF Opening, Closing
  <2>7. Leak' = Leak /\ Leak # 2
    BY <2>2, <2>3, <2>6 DEF Leak, Once
  <2>8. QED
    BY <2>2, <2>3, <2>5, <2>7 DEF Once
<1>8. ASSUME NEW c \in Callers, ReleaseCount(c), At(c, "release_count")
      PROVE  Once'
  <2>1. /\ pc'[c] = IF g_ot_ir_s_available = 0 THEN "release_timer" ELSE "release_undo"
        /\ \A d \in Callers : d # c => pc'[d] = pc[d]
    BY <1>8, GotoFacts DEF ReleaseCount, At
  <2>2. /\ g_ot_ir_s_available' = g_ot_ir_s_available + 1 /\ UNCHANGED <<files, ir_enable>>
    BY <1>8 DEF ReleaseCount, At
  <2>3. Releaser(c) /\ Counting(c) /\ files = 0 /\ (\A d \in Callers : ~Opens(d)) /\ Leak # 2
    BY <1>8 DEF Once, Releaser, Counting, At, ReleasePlaces
  <2>4. \A d \in Callers : /\ Opener(d)' <=> Opener(d)
                           /\ ~Opens(d)'
                           /\ Releaser(d)' <=> d = c
                           /\ ~Counting(d)'
                           /\ pc'[d] # pc[d] => pc'[d] \in ReleasePlaces
    BY <1>8, <2>1, <2>3 DEF Once, Opener, Opens, Releaser, Counting, At, OpenPlaces, ReleasePlaces
  <2>5. Opening' = Opening /\ Closing = 1 /\ Closing' = 0 /\ Opening \in {0, 1}
    BY <2>3, <2>4 DEF Opening, Closing
  <2>6. Leak' = Leak /\ g_ot_ir_s_available' \in Int
    BY <2>2, <2>5, <2>3 DEF Leak, Once
  <2>7. QED
    BY <2>2, <2>3, <2>4, <2>6 DEF Once
<1>9. ASSUME NEW c \in Callers, ReleaseCount(c), At(c, "release_undo")
      PROVE  Once'
  <2>1. pc'[c] = "idle" /\ \A d \in Callers : d # c => pc'[d] = pc[d]
    BY <1>9, GotoFacts DEF ReleaseCount, At
  <2>2. /\ g_ot_ir_s_available' = g_ot_ir_s_available - 1 /\ UNCHANGED <<files, ir_enable>>
    BY <1>9 DEF ReleaseCount, At
  <2>3. Releaser(c) /\ Undoes(c) /\ Leak # 2 /\ \A d \in Callers : ~Counting(d)
    BY <1>9 DEF Once, Releaser, Undoes, Counting, At, ReleasePlaces
  <2>4. Leak = 1 => files = 0 /\ \A d \in Callers : ~Opens(d)
    BY <2>3 DEF Once
  <2>5. \A d \in Callers : /\ Opener(d)' <=> Opener(d)
                           /\ Opens(d)' <=> Opens(d)
                           /\ ~Releaser(d)' /\ ~Counting(d)' /\ ~Undoes(d)'
                           /\ pc'[d] # pc[d] => pc'[d] = "idle"
    BY <1>9, <2>1, <2>3 DEF Once, Opener, Opens, Releaser, Counting, Undoes, At, OpenPlaces, ReleasePlaces
  <2>6. Opening' = Opening /\ Closing = 0 /\ Closing' = 0 /\ Opening \in {0, 1}
    BY <2>3, <2>5 DEF Opening, Closing
  <2>7. Leak' = Leak + 1 /\ Leak \in {0, 1} /\ g_ot_ir_s_available' \in Int
    BY <2>2, <2>6, <2>3 DEF Leak, Once
  <2>8. QED
    BY <2>2, <2>4, <2>5, <2>7 DEF Once
<1>10. ASSUME NEW c \in Callers, ReleaseTimer(c) \/ ReleaseQueue(c)
       PROVE  Once'
  <2>1. /\ pc'[c] \in {"release_queue", "idle"} /\ \A d \in Callers : d # c => pc'[d] = pc[d]
        /\ pc[c] \in {"release_timer", "release_queue"}
    BY <1>10, GotoFacts DEF ReleaseTimer, ReleaseQueue, At
  <2>2. UNCHANGED <<g_ot_ir_s_available, files, ir_enable>>
    BY <1>10 DEF ReleaseTimer, ReleaseQueue
  <2>3. \A d \in Callers : /\ Opener(d)' <=> Opener(d)
                           /\ Opens(d)' <=> Opens(d)
                           /\ Releaser(d)' => Releaser(d)
                           /\ Counting(d)' <=> Counting(d)
                           /\ Undoes(d)' <=> Undoes(d)
                           /\ pc'[d] # pc[d] => pc'[d] \in ReleasePlaces \cup {"idle"}
    BY <2>1 DEF Opener, Opens, Releaser, Counting, Undoes, At, OpenPlaces, ReleasePlaces
  <2>4. Opening' = Opening /\ Closing' = Closing
    BY <2>3 DEF Opening, Closing
  <2>5. Leak' = Leak
    BY <2>2, <2>4 DEF Leak
  <2>6. QED
    BY <2>2, <2>3, <2>5 DEF Once
<1>11. ASSUME NEW c \in Callers,
              \/ ot_ir_read(c) \/ ReadTest(c) \/ ReadLoop(c) \/ ReadTake(c) \/ ReadAdvance(c)
              \/ IR_IOC_SET_BUF(c) \/ SetBufPointers(c)
       PROVE  Once'
  <2>1. \E place \in Calls \cup {"idle"} : Goto(c, place)
    BY <1>11 DEF ot_ir_read, ReadTest, ReadLoop, ReadTake, ReadAdvance, IR_IOC_SET_BUF, SetBufPointers
  <2>2. pc[c] \in Calls \/ (pc[c] = "idle" /\ files > 0)
    BY <1>11 DEF ot_ir_read, ReadTest, ReadLoop, ReadTake, ReadAdvance, IR_IOC_SET_BUF,
                 SetBufPointers, At
  <2>3. UNCHANGED <<g_ot_ir_s_available, files, ir_enable>>
    BY <1>11 DEF ot_ir_read, ReadTest, ReadLoop, ReadTake, ReadAdvance, IR_IOC_SET_BUF, SetBufPointers
  <2>4. QED
    BY <1>2, <2>1, <2>2, <2>3
<1>12. ASSUME Interrupt \/ TimerFires \/ repkey_timeout_handler
              \/ \E c \in Callers : SetOption(c)
       PROVE  Once'
  BY <1>1, <1>12 DEF Interrupt, interrupt_rcv, ArmTimer, SetCheckflag, ReleaseKey, ClearCheckflag,
                     StoreKey, StoreHead, TimerFires, repkey_timeout_handler, SetOption
<1>13. CASE UNCHANGED vars
  BY <1>1, <1>13 DEF vars
<1>14. ASSUME NEW c \in Callers, ReleaseCount(c)
       PROVE  Once'
  BY <1>8, <1>9, <1>14 DEF ReleaseCount
<1>15. QED
  BY <1>3, <1>4, <1>5, <1>6, <1>7, <1>10, <1>11, <1>12, <1>13, <1>14 DEF Next, Proceed, Begin

-----------------------------------------------------------------------------
(* The timer of repeated keys *)

LEMMA DelayStep ==
  ASSUME Typed, Once, DelaySet, [Next]_vars
  PROVE  DelaySet'
<1> USE DEF ring, options, repeats, interrupt, opening, history
<1>1. ASSUME repkey_delaytime' = repkey_delaytime, files' > 0 => files > 0,
             \A c \in Callers : Configuring(c)' => Configuring(c)
      PROVE  DelaySet'
  BY <1>1 DEF DelaySet
<1>2. ASSUME NEW c \in Callers, OpenInit(c)
      PROVE  DelaySet'
  BY <1>2 DEF OpenInit, DelaySet
<1>3. ASSUME NEW c \in Callers, SetOption(c)
      PROVE  DelaySet'
  BY <1>3 DEF SetOption, DelaySet, Configuring
<1>4. ASSUME NEW c \in Callers, OpenConfig(c)
      PROVE  DelaySet'
  BY <1>4 DEF OpenConfig, DelaySet, Configuring, At
<1>5. ASSUME NEW c \in Callers, OpenQueue(c)
      PROVE  DelaySet'
  BY <1>5 DEF OpenQueue, DelaySet, Configuring, At
<1>6. ASSUME NEW c \in Callers,
             \/ ot_ir_open(c) \/ OpenRefused(c) \/ OpenTimer(c) \/ ReleaseCount(c)
             \/ ReleaseTimer(c) \/ ReleaseQueue(c) \/ ot_ir_read(c) \/ ReadTest(c) \/ ReadLoop(c)
             \/ ReadTake(c) \/ ReadAdvance(c) \/ IR_IOC_SET_BUF(c) \/ SetBufPointers(c)
      PROVE  DelaySet'
  <2>1. \E place \in Places \ {"open_queue", "open_config"} : Goto(c, place)
    BY <1>6 DEF ot_ir_open, OpenRefused, OpenTimer, ReleaseCount, ReleaseTimer, ReleaseQueue,
                ot_ir_read, ReadTest, ReadLoop, ReadTake, ReadAdvance, IR_IOC_SET_BUF,
                SetBufPointers, Places, OpenPlaces, ReleasePlaces
  <2>2. UNCHANGED <<files, repkey_delaytime>>
    BY <1>6 DEF ot_ir_open, OpenRefused, OpenTimer, ReleaseCount, ReleaseTimer, ReleaseQueue,
                ot_ir_read, ReadTest, ReadLoop, ReadTake, ReadAdvance, IR_IOC_SET_BUF, SetBufPointers
  <2>3. QED
    BY <1>1, <2>1, <2>2 DEF Goto, Typed, Configuring
<1>7. ASSUME NEW c \in Callers, ot_ir_release(c)
      PROVE  DelaySet'
  <2>1. Goto(c, "release_count") /\ files > 0 /\ UNCHANGED repkey_delaytime
    BY <1>7 DEF ot_ir_release
  <2>2. QED
    BY <1>1, <2>1 DEF Goto, Typed, Configuring
<1>8. ASSUME Interrupt \/ TimerFires \/ repkey_timeout_handler \/ UNCHANGED vars
      PROVE  DelaySet'
  BY <1>1, <1>8 DEF Interrupt, interrupt_rcv, ArmTimer, SetCheckflag, ReleaseKey, ClearCheckflag,
                    StoreKey, StoreHead, TimerFires, repkey_timeout_handler, vars, Configuring
<1>9. QED
  BY <1>2, <1>3, <1>4, <1>5, <1>6, <1>7, <1>8 DEF Next, Proceed, Begin

\* osal_set_timer accepts every delay that can be set.
LongDelays == \A d \in Delays \cup {DEFAULT_DELAYTIME} : d \div 10 > 0

LEMMA TimedStep ==
  ASSUME LongDelays, Typed, Met, Once, DelaySet, Timed, [Next]_vars
  PROVE  Timed'
<1> USE DEF ring, options, repeats, interrupt, opening, history
<1> DEFINE Apart == "timer" \notin met' /\ "opening" \notin met'
<1>1. met \subseteq met' /\ Met'
  BY MetStep
<1> SUFFICES ASSUME Apart
             PROVE  /\ \A c \in Callers : Releaser(c)' => files' = 0
                    /\ \A c \in Callers : Configuring(c)' => irq' = NoIrq /\ ~repkey_checkflag'
                    /\ files' > 0 /\ irq'.pc = "flag" => g_repkey_timeout_timer' = "pending"
                    /\ files' > 0 /\ repkey_checkflag' /\ irq'.pc # "unflag" =>
                         g_repkey_timeout_timer' = "pending" \/ handler' # "idle"
  BY DEF Timed
<1> DEFINE Goal == /\ \A c \in Callers : Releaser(c)' => files' = 0
                   /\ \A c \in Callers : Configuring(c)' => irq' = NoIrq /\ ~repkey_checkflag'
                   /\ files' > 0 /\ irq'.pc = "flag" => g_repkey_timeout_timer' = "pending"
                   /\ files' > 0 /\ repkey_checkflag' /\ irq'.pc # "unflag" =>
                        g_repkey_timeout_timer' = "pending" \/ handler' # "idle"
<1>2. /\ \A c \in Callers : Releaser(c) => files = 0
      /\ \A c \in Callers : Configuring(c) => irq = NoIrq /\ ~repkey_checkflag
      /\ files > 0 /\ irq.pc = "flag" => g_repkey_timeout_timer = "pending"
      /\ files > 0 /\ repkey_checkflag /\ irq.pc # "unflag" =>
           g_repkey_timeout_timer = "pending" \/ handler # "idle"
  BY <1>1 DEF Timed
<1>3. ~TimerMet /\ ~OpeningMet /\ ~TimerMet' /\ ~OpeningMet'
  BY <1>1 DEF Met
<1>4. /\ handler # "idle" => irq = NoIrq
      /\ handler' # "idle" => irq' = NoIrq
  BY <1>3 DEF TimerMet
<1>5. NoIrq.pc = "idle"
  BY DEF NoIrq
<1>6. \A c \in Callers : Configuring(c) => files = 0 /\ ~ir_enable
  BY DEF Once, Configuring, Opens, OpenPlaces
<1>7. ASSUME NEW c \in Callers, NEW place \in Places \ {"open_queue", "open_config"},
             Goto(c, place), place \in ReleasePlaces => files = 0,
             UNCHANGED <<files, irq, repkey_checkflag, g_repkey_timeout_timer, handler>>
      PROVE  Goal
  <2>1. \A d \in Callers : Releaser(d)' => Releaser(d) \/ files = 0
    BY <1>7, GotoFacts DEF Releaser
  <2>2. \A d \in Callers : Configuring(d)' => Configuring(d)
    BY <1>7, GotoFacts DEF Configuring
  <2>3. QED
    BY <1>2, <1>7, <2>1, <2>2
<1>8. ASSUME UNCHANGED <<pc, files>>, ~(\E c \in Callers : Configuring(c)),
             files' > 0 /\ irq'.pc = "flag" => g_repkey_timeout_timer' = "pending",
             files' > 0 /\ repkey_checkflag' /\ irq'.pc # "unflag" =>
               g_repkey_timeout_timer' = "pending" \/ handler' # "idle"
      PROVE  Goal
  BY <1>2, <1>8 DEF Releaser, Configuring
<1>9. ASSUME irq # NoIrq \/ ir_enable
      PROVE  ~\E c \in Callers : Configuring(c)
  BY <1>2, <1>6, <1>9
<1>10. ASSUME interrupt_rcv
       PROVE  Goal
  <2>1. irq = NoIrq /\ ir_enable /\ irq'.pc # "flag"
        /\ UNCHANGED <<repeats, files, pc>>
    BY <1>5, <1>10 DEF interrupt_rcv
  <2>2. irq.pc # "unflag"
    BY <1>5, <2>1
  <2>3. QED
    BY <1>2, <1>8, <1>9, <2>1, <2>2
<1>11. ASSUME ArmTimer
       PROVE  Goal
  <2>1. irq.pc = "arm" /\ irq'.pc = "flag" /\ irq # NoIrq
    BY <1>5, <1>11, IrqFacts DEF ArmTimer
  <2>2. UNCHANGED <<files, pc, repkey_checkflag, handler>>
    BY <1>11 DEF ArmTimer
  <2>3. files > 0 => g_repkey_timeout_timer' = "pending"
    BY <1>11 DEF ArmTimer, DelaySet, LongDelays
  <2>4. QED
    BY <1>8, <1>9, <2>1, <2>2, <2>3
<1>12. ASSUME SetCheckflag
       PROVE  Goal
  <2>1. irq.pc = "flag" /\ irq'.pc = "slot" /\ irq # NoIrq
    BY <1>5, <1>12, IrqFacts DEF SetCheckflag
  <2>2. UNCHANGED <<files, pc, g_repkey_timeout_timer, handler>>
    BY <1>12 DEF SetCheckflag
  <2>3. QED
    BY <1>2, <1>8, <1>9, <2>1, <2>2
<1>13. ASSUME ReleaseKey
       PROVE  Goal
  <2>1. irq'.pc = "unflag" /\ ir_enable /\ UNCHANGED <<files, pc>>
    BY <1>13 DEF ReleaseKey
  <2>2. QED
    BY <1>8, <1>9, <2>1
<1>14. ASSUME ClearCheckflag
       PROVE  Goal
  <2>1. irq.pc = "unflag" /\ irq # NoIrq /\ irq'.pc # "flag"
    BY <1>5, <1>14 DEF ClearCheckflag
  <2>2. UNCHANGED <<files, pc>> /\ ~repkey_checkflag'
    BY <1>14 DEF ClearCheckflag
  <2>3. QED
    BY <1>8, <1>9, <2>1, <2>2
<1>15. ASSUME StoreKey \/ StoreHead
       PROVE  Goal
  <2>1. /\ irq.pc \in {"slot", "head", "late"} /\ irq # NoIrq
        /\ irq'.pc \notin {"flag", "unflag"}
    BY <1>5, <1>15 DEF StoreKey, StoreHead
  <2>2. UNCHANGED <<files, pc, repeats>>
    BY <1>15 DEF StoreKey, StoreHead
  <2>3. QED
    BY <1>2, <1>8, <1>9, <2>1, <2>2
<1>16. ASSUME TimerFires
       PROVE  Goal
  <2>1. handler' # "idle" /\ UNCHANGED <<files, pc, irq, repkey_checkflag>>
    BY <1>16 DEF TimerFires
  <2>2. irq'.pc # "flag"
    BY <1>4, <1>5, <2>1
  <2>3. QED
    BY <1>2, <2>1, <2>2 DEF Releaser, Configuring
<1>17. ASSUME repkey_timeout_handler
       PROVE  Goal
  <2>1. handler # "idle" /\ irq = NoIrq /\ UNCHANGED <<files, pc, irq>>
    BY <1>4, <1>17 DEF repkey_timeout_handler
  <2>2. irq'.pc # "flag"
    BY <1>5, <2>1
  <2>3. repkey_checkflag' => repkey_checkflag /\ handler' # "idle"
    BY <1>17 DEF repkey_timeout_handler
  <2>4. QED
    BY <1>2, <2>1, <2>2, <2>3 DEF Releaser, Configuring
<1>18. ASSUME NEW c \in Callers,
              \/ ot_ir_open(c) \/ OpenRefused(c) \/ ReleaseCount(c) \/ ReleaseQueue(c)
              \/ ot_ir_read(c) \/ ReadTest(c) \/ ReadLoop(c) \/ ReadTake(c) \/ ReadAdvance(c)
              \/ IR_IOC_SET_BUF(c) \/ SetBufPointers(c)
       PROVE  Goal
  <2>1. PICK place \in Places \ {"open_queue", "open_config"} :
          Goto(c, place) /\ (place \in ReleasePlaces => pc[c] \in ReleasePlaces)
    BY <1>18 DEF ot_ir_open, OpenRefused, ReleaseCount, ReleaseQueue, ot_ir_read, ReadTest,
                 ReadLoop, ReadTake, ReadAdvance, IR_IOC_SET_BUF, SetBufPointers, Places,
                 OpenPlaces, ReleasePlaces, At
  <2>2. UNCHANGED <<files, irq, repkey_checkflag, g_repkey_timeout_timer, handler>>
    BY <1>18 DEF ot_ir_open, OpenRefused, ReleaseCount, ReleaseQueue, ot_ir_read, ReadTest,
                 ReadLoop, ReadTake, ReadAdvance, IR_IOC_SET_BUF, SetBufPointers
  <2>3. QED
    BY <1>2, <1>7, <2>1, <2>2 DEF Releaser
<1>19. ASSUME NEW c \in Callers, OpenTimer(c)
       PROVE  Goal
  <2>1. Goto(c, "open_init") /\ pc[c] = "open_timer"
        /\ UNCHANGED <<files, irq, repkey_checkflag, handler>>
    BY <1>19 DEF OpenTimer, At
  <2>2. files = 0
    BY <2>1 DEF Once, Opens, OpenPlaces
  <2>3. \A d \in Callers : Configuring(d)' => Configuring(d)
    BY <2>1, GotoFacts DEF Configuring
  <2>4. QED
    BY <1>2, <2>1, <2>2, <2>3
<1>20. ASSUME NEW c \in Callers, OpenInit(c)
       PROVE  Goal
  <2>1. At(c, "open_init") /\ ~repkey_checkflag' /\ UNCHANGED <<files, irq>>
    BY <1>20 DEF OpenInit
  <2>2. files = 0 /\ irq = NoIrq
    BY <1>3, <2>1 DEF Once, Opens, OpenPlaces, At, OpeningMet
  <2>3. QED
    BY <2>1, <2>2
<1>21. ASSUME NEW c \in Callers, OpenQueue(c)
       PROVE  Goal
  <2>1. Goto(c, "open_config") /\ Configuring(c) /\ UNCHANGED <<files, irq, repkey_checkflag>>
    BY <1>21 DEF OpenQueue, At, Configuring
  <2>2. QED
    BY <1>2, <1>6, <2>1
<1>22. ASSUME NEW c \in Callers, OpenConfig(c)
       PROVE  Goal
  <2>1. Goto(c, "idle") /\ pc[c] = "open_config" /\ UNCHANGED <<irq, repkey_checkflag>>
    BY <1>22 DEF OpenConfig, At
  <2>2. irq = NoIrq /\ ~repkey_checkflag
    BY <1>2, <2>1 DEF Configuring
  <2>3. irq'.pc # "flag"
    BY <1>5, <2>1, <2>2
  <2>4. \A d \in Callers : ~Releaser(d)
    BY <1>3, <2>1 DEF OpeningMet, Releaser, OpenPlaces
  <2>5. \A d \in Callers : ~Releaser(d)'
    BY <2>1, <2>4, GotoFacts DEF Releaser, ReleasePlaces
  <2>6. QED
    BY <2>1, <2>2, <2>3, <2>5
<1>23. ASSUME NEW c \in Callers, ot_ir_release(c)
       PROVE  Goal
  <2>1. Goto(c, "release_count") /\ files' = files - 1 /\ files > 0 /\ UNCHANGED <<irq, repkey_checkflag>>
    BY <1>23 DEF ot_ir_release
  <2>2. files' = 0 /\ ~(files' > 0)
    BY <2>1 DEF Once
  <2>3. \A d \in Callers : Configuring(d)' => Configuring(d)
    BY <2>1, GotoFacts DEF Configuring
  <2>4. \A d \in Callers : Configuring(d)' => irq' = NoIrq /\ ~repkey_checkflag'
    BY <1>2, <2>1, <2>3, Zenon
  <2>5. QED
    BY <2>2, <2>4, Zenon
<1>24. ASSUME NEW c \in Callers, ReleaseTimer(c)
       PROVE  Goal
  <2>1. Goto(c, "release_queue") /\ Releaser(c) /\ UNCHANGED <<files, irq, repkey_checkflag>>
    BY <1>24 DEF ReleaseTimer, At, Releaser, ReleasePlaces
  <2>2. \A d \in Callers : Configuring(d)' => Configuring(d)
    BY <2>1, GotoFacts DEF Configuring
  <2>3. QED
    BY <1>2, <2>1, <2>2
<1>25. ASSUME (\E c \in Callers : SetOption(c)) \/ UNCHANGED vars
       PROVE  Goal
  <2>1. UNCHANGED <<pc, files, irq, repkey_checkflag, g_repkey_timeout_timer, handler>>
    BY <1>25 DEF SetOption, vars
  <2>2. QED
    BY <1>2, <2>1 DEF Releaser, Configuring
<1> HIDE DEF Goal
<1>26. Goal
  BY <1>10, <1>11, <1>12, <1>13, <1>14, <1>15, <1>16, <1>17, <1>18, <1>19, <1>20, <1>21, <1>22,
     <1>23, <1>24, <1>25 DEF Next, Interrupt, Proceed, Begin
<1>27. QED
  BY <1>26 DEF Goal

-----------------------------------------------------------------------------
(* The ring *)

\* A slot some places back is another slot of the ring.
LEMMA BackInside ==
  ASSUME NEW len \in Nat, NEW h \in 0..(len - 1), NEW j \in 1..(len - 1)
  PROVE  Back(h, j, len) \in 0..(len - 1) /\ Back(h, j, len) # h
BY DEF Back

LEMMA BetweenInside ==
  ASSUME NEW len \in Nat, NEW h \in 0..(len - 1), NEW t \in 0..(len - 1)
  PROVE  Between(t, h, len) \in 0..(len - 1)
BY DEF Between

\* What has not met in the ring
RingApart ==
  /\ \A c \in Callers : Resizing(c) => /\ irq.pc \notin {"slot", "head", "late"}
                                       /\ \A d \in Callers : ~Taking(d)
  /\ \A c, d \in Callers : Taking(c) /\ Taking(d) => c = d
  /\ irq.pc = "late" => \A c \in Callers : ~Taking(c)
  /\ \A c \in Callers : At(c, "take") => head # tail

LEMMA ApartFacts == ~RingMet => RingApart
BY DEF RingMet, RingApart

\* What Ordered says while nothing has met
InRing ==
  /\ \A c \in Callers : At(c, "set_tail") => head = 0
  /\ \A c \in Callers : At(c, "advance") => reading[c].at = tail /\ reading[c].len = buf_len
  /\ Writing
  /\ Calm => Ring

\* The lengths and places in a quiet ring
LEMMA RingFacts ==
  ASSUME Typed, head < buf_len, tail < buf_len
  PROVE  /\ buf_len \in Nat /\ buf_len > 1 /\ 0..(buf_len - 1) \subseteq Slots
         /\ head \in 0..(buf_len - 1) /\ tail \in 0..(buf_len - 1)
         /\ NextTail \in 0..(buf_len - 1)
         /\ Unread \in 0..(buf_len - 1)
         /\ BUF_LAST = buf[Back(head, 1, buf_len)]
         /\ \A j \in 1..Unread : Back(head, j, buf_len) \in Slots /\ Back(head, j, buf_len) # head
<1>1. /\ buf_len \in Nat /\ buf_len > 1 /\ 0..(buf_len - 1) \subseteq Slots
      /\ head \in 0..(buf_len - 1) /\ tail \in 0..(buf_len - 1)
  BY LengthAssumption DEF Typed, Slots, Lengths
<1>2. NextTail \in 0..(buf_len - 1)
  BY <1>1, IncBuf DEF NextTail
<1>3. Unread \in 0..(buf_len - 1)
  BY <1>1, <1>2, BetweenInside DEF Unread
<1>4. BUF_LAST = buf[Back(head, 1, buf_len)]
  BY <1>1 DEF BUF_LAST, Back
<1>5. ASSUME NEW j \in 1..Unread
      PROVE  Back(head, j, buf_len) \in Slots /\ Back(head, j, buf_len) # head
  <2>1. j \in 1..(buf_len - 1)
    BY <1>1, <1>3
  <2>2. Back(head, j, buf_len) \in 0..(buf_len - 1) /\ Back(head, j, buf_len) # head
    BY <1>1, <2>1, BackInside
  <2>3. QED
    BY <1>1, <2>2
<1>6. QED
  BY <1>1, <1>2, <1>3, <1>4, <1>5

\* A step that neither reads, writes nor resizes.
LEMMA Elsewhere ==
  ASSUME InRing, UNCHANGED <<buf, head, tail, buf_len, irq, pushed, last, prev>>,
         \A c \in Callers : /\ At(c, "advance")' <=> At(c, "advance")
                            /\ At(c, "advance") => reading'[c] = reading[c]
                            /\ At(c, "set_tail")' <=> At(c, "set_tail")
                            /\ Resizing(c)' <=> Resizing(c)
  PROVE  InRing'
<1>1. NextTail' = NextTail
  BY DEF NextTail, inc_buf
<1>2. Unread' = Unread /\ Passed' = Passed /\ BUF_LAST' = BUF_LAST
  BY <1>1 DEF Unread, Passed, BUF_LAST, Between
<1>3. \A i : Number(i)' = Number(i)
  BY DEF Number
<1>4. Calm' <=> Calm
  BY DEF Calm
<1>5. Writing' <=> Writing
  BY DEF Writing, Back
<1>6. Ring' <=> Ring
  BY <1>2, <1>3 DEF Ring, Back
<1>7. QED
  BY <1>4, <1>5, <1>6 DEF InRing

\* A step of the interrupt that does not touch the ring.
LEMMA InterruptElsewhere ==
  ASSUME InRing, UNCHANGED <<buf, head, tail, buf_len, pc, reading, pushed, last, prev>>,
         irq.pc \notin {"head", "late"}, irq'.pc \notin {"head", "late"},
         irq'.pc = "slot" /\ irq'.up /\ prev.n # 0 => prev.key = irq'.key /\ ~prev.up
  PROVE  InRing'
<1>1. NextTail' = NextTail
  BY DEF NextTail, inc_buf, At
<1>2. Unread' = Unread /\ Passed' = Passed /\ BUF_LAST' = BUF_LAST
  BY <1>1 DEF Unread, Passed, BUF_LAST, Between
<1>3. \A i : Number(i)' = Number(i)
  BY DEF Number
<1>4. Calm' <=> Calm
  BY DEF Calm, Resizing
<1>5. Writing'
  BY DEF Writing
<1>6. Ring' <=> Ring
  BY <1>2, <1>3 DEF Ring, Back
<1>7. QED
  BY <1>4, <1>5, <1>6 DEF InRing, At

\* A ring that is reset is empty.
LEMMA Reset ==
  ASSUME Typed', head' = 0, tail' = 0, last' = pushed', prev'.n = 0,
         irq'.pc \notin {"slot", "head", "late"}, \A c \in Callers : ~At(c, "advance")'
  PROVE  InRing'
<1>1. buf_len' \in Nat /\ buf_len' > 1 /\ pushed' \in Int
  BY LengthAssumption DEF Typed, Lengths
<1>2. NextTail' = 0 /\ Passed' = pushed'
  BY DEF NextTail, Passed
<1>3. Unread' = 0
  BY <1>2 DEF Unread, Between
<1>4. Writing'
  BY DEF Writing
<1>5. Ring'
  <2>1. head' < buf_len' /\ tail' < buf_len'
    BY <1>1
  <2>2. last' + Unread' <= Passed'
    <3>1. \A x \in Int : x + 0 <= x
      OBVIOUS
    <3>2. QED
      BY <1>1, <1>2, <1>3, <3>1, Zenon
  <2>3. \A j \in 1..Unread' : FALSE
    BY <1>3
  <2>4. QED
    BY <2>1, <2>2, <2>3 DEF Ring
<1>6. QED
  BY <1>4, <1>5 DEF InRing

\* The head passes a key, and nothing else changes in the ring.
LEMMA Passing ==
  ASSUME Typed, Ring, UNCHANGED <<tail, buf_len, last, pc>>,
         head' = inc_buf(head, buf_len),
         Passed' = Passed + 1, \A i \in Slots : Number(i)' = IF i = head THEN Passed' ELSE Number(i),
         irq'.pc \notin {"head", "late"} /\ prev'.n # 0 => BUF_LAST' = prev'
  PROVE  Ring'
<1> DEFINE u == Unread
           v == Between(NextTail, head', buf_len)
<1>1. head < buf_len /\ tail < buf_len
  BY DEF Ring
<1>2. /\ buf_len \in Nat /\ buf_len > 1 /\ 0..(buf_len - 1) \subseteq Slots
      /\ head \in 0..(buf_len - 1) /\ tail \in 0..(buf_len - 1)
      /\ NextTail \in 0..(buf_len - 1) /\ u \in 0..(buf_len - 1)
  BY <1>1, RingFacts
<1>3. NextTail' = NextTail
  BY DEF NextTail, inc_buf, At
<1>4. Unread' = v
  BY <1>3 DEF Unread, Between
<1>5. /\ head' \in 0..(buf_len - 1) /\ v \in 0..(buf_len - 1)
      /\ v = u + 1 \/ v = 0
      /\ Back(head', 1, buf_len) = head
      /\ \A j \in 2..v : /\ j - 1 \in 1..u
                         /\ Back(head', j, buf_len) = Back(head, j - 1, buf_len)
                         /\ Back(head, j - 1, buf_len) # head
  BY <1>2, Push DEF Unread
<1>6. Passed \in Int /\ last \in Nat /\ last + u <= Passed
  BY LengthAssumption DEF Typed, Passed, Ring
<1>7. head' < buf_len' /\ tail' < buf_len'
  BY <1>2, <1>5
<1>8. last' + Unread' <= Passed'
  <2>1. CASE v = 0
    BY <1>2, <1>4, <1>6, <2>1
  <2>2. CASE v = u + 1
    BY <1>2, <1>4, <1>6, <2>2
  <2>3. QED
    BY <1>5, <2>1, <2>2
<1>9. ASSUME NEW j \in 1..Unread'
      PROVE  Number(Back(head, j, buf_len))' = Passed' - j + 1
  <2>1. j \in 1..v /\ j \in Nat
    BY <1>4, <1>5, <1>9
  <2>2. CASE j = 1
    <3>1. Back(head', j, buf_len) = head /\ head \in Slots
      BY <1>2, <1>5, <2>2
    <3>2. Number(Back(head, j, buf_len))' = Passed'
      BY <3>1
    <3>3. QED
      BY <1>6, <2>2, <3>2
  <2>3. CASE j # 1
    <3>1. j \in 2..v
      BY <2>1, <2>3
    <3>2. /\ j - 1 \in 1..u
          /\ Back(head', j, buf_len) = Back(head, j - 1, buf_len)
          /\ Back(head, j - 1, buf_len) \in Slots \ {head}
      BY <1>1, <1>5, <3>1, RingFacts
    <3>3. Number(Back(head, j - 1, buf_len)) = Passed - (j - 1) + 1
      BY <3>2 DEF Ring
    <3>4. Number(Back(head, j, buf_len))' = Number(Back(head, j - 1, buf_len))
      BY <3>2
    <3>5. QED
      BY <1>6, <2>1, <3>3, <3>4
  <2>4. QED
    BY <2>2, <2>3
<1>10. QED
  BY <1>7, <1>8, <1>9 DEF Ring

LEMMA OrderedStep ==
  ASSUME Typed, Typed', Met, Once, Ordered, [Next]_vars
  PROVE  Ordered'
<1> USE DEF ring, options, repeats, interrupt, opening, history
<1>1. met \subseteq met' /\ Met'
  BY MetStep
<1> SUFFICES ASSUME "ring" \notin met', "opening" \notin met'
             PROVE  InRing'
  BY DEF Ordered, InRing
<1>2. InRing /\ RingApart /\ RingApart' /\ ~OpeningMet
  <2>1. "ring" \notin met /\ "opening" \notin met
    BY <1>1
  <2>2. ~RingMet /\ ~RingMet' /\ ~OpeningMet
    BY <1>1, <2>1 DEF Met
  <2>3. RingApart /\ RingApart'
    BY <2>2, ApartFacts DEF RingMet, RingApart
  <2>4. QED
    BY <2>1, <2>2, <2>3 DEF Ordered, InRing
<1>3. OT_IR_MAX_BUF \in Nat /\ MaxPush \in Nat
  BY LengthAssumption
<1>4. NoIrq.pc = "idle"
  BY DEF NoIrq
<1>5. \A c \in Callers : Taking(c) => Calm
  BY <1>2 DEF RingApart, Calm
<1>6. irq.pc \in {"slot", "head", "late"} => Calm
  BY <1>2 DEF RingApart, Calm
<1>7. Calm => /\ Ring
              /\ buf_len \in Nat /\ buf_len > 1 /\ 0..(buf_len - 1) \subseteq Slots
              /\ head \in 0..(buf_len - 1) /\ tail \in 0..(buf_len - 1)
              /\ Unread \in 0..(buf_len - 1)
              /\ BUF_LAST = buf[Back(head, 1, buf_len)]
              /\ \A j \in 1..Unread : Back(head, j, buf_len) \in Slots /\ Back(head, j, buf_len) # head
  <2> SUFFICES ASSUME Calm
               PROVE  /\ Ring
                      /\ buf_len \in Nat /\ buf_len > 1 /\ 0..(buf_len - 1) \subseteq Slots
                      /\ head \in 0..(buf_len - 1) /\ tail \in 0..(buf_len - 1)
                      /\ Unread \in 0..(buf_len - 1)
                      /\ BUF_LAST = buf[Back(head, 1, buf_len)]
                      /\ \A j \in 1..Unread : /\ Back(head, j, buf_len) \in Slots
                                              /\ Back(head, j, buf_len) # head
    OBVIOUS
  <2>1. Ring
    BY <1>2 DEF InRing
  <2>2. head < buf_len /\ tail < buf_len
    BY <2>1 DEF Ring
  <2>3. QED
    BY <2>1, <2>2, RingFacts
<1>8. pushed \in Int
  BY <1>3 DEF Typed
\* the interrupt
<1>11. ASSUME interrupt_rcv
       PROVE  InRing'
  <2>1. irq = NoIrq /\ irq'.pc \in {"idle", "arm", "slot"} /\ (irq'.pc = "slot" => ~irq'.up)
    BY <1>4, <1>11 DEF interrupt_rcv
  <2>2. irq.pc = "idle"
    BY <1>4, <2>1
  <2>3. UNCHANGED <<buf, head, tail, buf_len, pc, reading, pushed, last, prev>>
    BY <1>11 DEF interrupt_rcv
  <2>4. QED
    BY <1>2, <2>1, <2>2, <2>3, InterruptElsewhere
<1>12. ASSUME ArmTimer \/ SetCheckflag
       PROVE  InRing'
  <2>1. irq.pc \in {"arm", "flag"} /\ irq'.pc \in {"flag", "slot"} /\ irq'.up = FALSE
    BY <1>12, IrqFacts DEF ArmTimer, SetCheckflag
  <2>2. UNCHANGED <<buf, head, tail, buf_len, pc, reading, pushed, last, prev>>
    BY <1>12 DEF ArmTimer, SetCheckflag
  <2>3. QED
    BY <1>2, <2>1, <2>2, InterruptElsewhere
<1>13. ASSUME ReleaseKey
       PROVE  InRing'
  <2>1. irq.pc = "idle" /\ irq'.pc = "unflag"
    BY <1>4, <1>13 DEF ReleaseKey
  <2>2. UNCHANGED <<buf, head, tail, buf_len, pc, reading, pushed, last, prev>>
    BY <1>13 DEF ReleaseKey
  <2>3. QED
    BY <1>2, <2>1, <2>2, InterruptElsewhere
<1>14. ASSUME ClearCheckflag
       PROVE  InRing'
  <2>1. irq.pc = "unflag" /\ irq'.pc \in {"idle", "slot"}
        /\ (irq'.pc = "slot" => irq'.key = BUF_LAST.key /\ ~BUF_LAST.up)
    BY <1>4, <1>14 DEF ClearCheckflag
  <2>2. UNCHANGED <<buf, head, tail, buf_len, pc, reading, pushed, last, prev>>
    BY <1>14 DEF ClearCheckflag
  <2>3. irq'.pc = "slot" => Calm
    BY <1>2, <2>2 DEF RingApart, Calm, Resizing
  <2>4. irq'.pc = "slot" /\ prev.n # 0 => BUF_LAST = prev
    BY <1>2, <2>1, <2>3 DEF InRing, Ring
  <2>5. QED
    BY <1>2, <2>1, <2>2, <2>4, InterruptElsewhere
<1>15. ASSUME StoreKey
       PROVE  InRing'
  <2>1. irq.pc = "slot" /\ Calm /\ pushed' = pushed + 1 /\ prev' = Entry
        /\ UNCHANGED <<tail, buf_len, pc, reading, last>>
    BY <1>6, <1>15 DEF StoreKey
  <2>2. Calm' /\ head \in Slots /\ buf \in [Slots -> Entries]
    BY <2>1 DEF Calm, Resizing, Typed
  <2>3. Entry.n = pushed + 1
    BY DEF Entry
  <2>4. \A c \in Callers : ~At(c, "set_tail")'
    BY <2>2 DEF Calm, Resizing, At
  <2>5. \A c \in Callers : At(c, "advance")' => reading'[c].at = tail' /\ reading'[c].len = buf_len'
    BY <1>2, <2>1 DEF InRing, At
  <2>6. CASE /\ buf' = [buf EXCEPT ![head] = Entry] /\ UNCHANGED head
             /\ irq' = [pc |-> "head", at |-> head, len |-> buf_len]
    <3>1. irq'.pc = "head" /\ irq'.at = head /\ irq'.len = buf_len
      BY <2>6
    <3>2. Writing'
      BY <2>1, <2>2, <2>3, <2>6, <3>1 DEF Writing
    <3>3. NextTail' = NextTail
      BY <2>1 DEF NextTail, inc_buf, At
    <3>4. Unread' = Unread
      BY <2>1, <2>6, <3>3 DEF Unread, Between
    <3>5. Passed' = Passed
      BY <1>8, <2>1, <3>1 DEF Passed
    <3>6. ASSUME NEW i \in Slots, i # head
          PROVE  Number(i)' = Number(i)
      BY <2>1, <2>2, <2>6, <3>1, <3>6 DEF Number
    <3>7. ASSUME NEW j \in 1..Unread'
          PROVE  Number(Back(head, j, buf_len))' = Passed' - j + 1
      <4>1. j \in 1..Unread /\ Back(head, j, buf_len) \in Slots /\ Back(head, j, buf_len) # head
        BY <1>7, <2>1, <3>4
      <4>2. Number(Back(head, j, buf_len)) = Passed - j + 1
        BY <1>7, <2>1, <4>1 DEF Ring
      <4>3. Back(head, j, buf_len)' = Back(head, j, buf_len)
        BY <2>1, <2>6 DEF Back
      <4>4. QED
        BY <3>5, <3>6, <4>1, <4>2, <4>3
    <3>8. head' < buf_len' /\ tail' < buf_len' /\ last' + Unread' <= Passed'
      BY <1>7, <2>1, <2>6, <3>4, <3>5 DEF Ring
    <3>9. Ring'
      BY <3>1, <3>7, <3>8 DEF Ring
    <3>10. QED
      BY <2>4, <2>5, <3>2, <3>9 DEF InRing
  <2>7. CASE /\ head' = inc_buf(head, buf_len) /\ UNCHANGED buf
             /\ irq' = [pc |-> "late", at |-> head, entry |-> Entry]
    <3>1. irq'.pc = "late" /\ irq'.at = head /\ irq'.entry = Entry
      BY <2>7
    <3>2. Back(head', 1, buf_len) = head
      BY <1>7, <2>1, <2>7, Push
    <3>3. Writing'
      BY <2>1, <2>3, <3>1, <3>2 DEF Writing
    <3>4. Passed = pushed /\ Passed' = pushed + 1
      BY <2>1, <3>1 DEF Passed
    <3>5. \A i \in Slots : Number(i)' = IF i = head THEN Passed' ELSE Number(i)
      BY <2>1, <2>3, <2>7, <3>1, <3>4 DEF Number
    <3>6. Ring'
      BY <1>7, <2>1, <2>7, <3>1, <3>4, <3>5, Passing
    <3>7. QED
      BY <2>4, <2>5, <3>3, <3>6 DEF InRing
  <2>8. QED
    BY <1>15, <2>6, <2>7 DEF StoreKey
<1>16. ASSUME StoreHead
       PROVE  InRing'
  <2>1. irq.pc \in {"head", "late"} /\ Calm /\ irq'.pc = "idle"
        /\ UNCHANGED <<tail, buf_len, pc, reading, pushed, prev, last>>
    BY <1>4, <1>6, <1>16 DEF StoreHead
  <2>2. Calm' /\ head \in Slots /\ buf \in [Slots -> Entries]
    BY <2>1 DEF Calm, Resizing, Typed
  <2>3. \A c \in Callers : ~At(c, "set_tail")'
    BY <2>2 DEF Calm, Resizing, At
  <2>4. \A c \in Callers : At(c, "advance")' => reading'[c].at = tail' /\ reading'[c].len = buf_len'
    BY <1>2, <2>1 DEF InRing, At
  <2>5. Writing'
    BY <2>1 DEF Writing
  <2>6. CASE irq.pc = "head"
    <3>1. head' = inc_buf(head, buf_len) /\ UNCHANGED buf /\ buf[head] = prev /\ prev.n = pushed
      BY <1>2, <1>16, <2>6 DEF StoreHead, InRing, Writing
    <3>2. Back(head', 1, buf_len) = head /\ head' \in 0..(buf_len - 1)
      BY <1>7, <2>1, <3>1, Push
    <3>3. Passed = pushed - 1 /\ Passed' = Passed + 1 /\ Passed' = pushed
      BY <1>8, <2>1, <2>6 DEF Passed
    <3>4. \A i \in Slots : Number(i)' = IF i = head THEN Passed' ELSE Number(i)
      BY <2>1, <2>6, <3>1, <3>3 DEF Number
    <3>5. BUF_LAST' = prev'
      <4>1. BUF_LAST' = buf'[Back(head', 1, buf_len')]
        BY <1>7, <2>1, <3>2 DEF BUF_LAST, Back
      <4>2. QED
        BY <2>1, <3>1, <3>2, <4>1
    <3>6. Ring'
      BY <1>7, <2>1, <3>1, <3>3, <3>4, <3>5, Passing
    <3>7. QED
      BY <2>3, <2>4, <2>5, <3>6 DEF InRing
  <2>7. CASE irq.pc = "late"
    <3>1. buf' = [buf EXCEPT ![irq.at] = irq.entry] /\ UNCHANGED head
          /\ irq.at = Back(head, 1, buf_len) /\ irq.entry = prev /\ irq.at \in Slots
      BY <1>2, <1>16, <2>7, IrqFacts DEF StoreHead, InRing, Writing
    <3>2. NextTail' = NextTail
      BY <2>1 DEF NextTail, inc_buf, At
    <3>3. Unread' = Unread
      BY <2>1, <3>1, <3>2 DEF Unread, Between
    <3>4. Passed' = Passed
      BY <2>1, <2>7 DEF Passed
    <3>5. \A i \in Slots : Number(i)' = Number(i)
      BY <2>1, <2>2, <2>7, <3>1 DEF Number
    <3>6. BUF_LAST' = prev'
      <4>1. BUF_LAST' = buf'[Back(head, 1, buf_len)]
        BY <1>7, <2>1, <3>1 DEF BUF_LAST, Back
      <4>2. QED
        BY <2>1, <2>2, <3>1, <4>1
    <3>7. ASSUME NEW j \in 1..Unread'
          PROVE  Number(Back(head, j, buf_len))' = Passed' - j + 1
      <4>1. j \in 1..Unread /\ Back(head, j, buf_len) \in Slots
        BY <1>7, <2>1, <3>3
      <4>2. Number(Back(head, j, buf_len)) = Passed - j + 1
        BY <1>7, <2>1, <4>1 DEF Ring
      <4>3. Back(head, j, buf_len)' = Back(head, j, buf_len)
        BY <2>1, <3>1 DEF Back
      <4>4. QED
        BY <3>4, <3>5, <4>1, <4>2, <4>3
    <3>8. head' < buf_len' /\ tail' < buf_len' /\ last' + Unread' <= Passed'
      BY <1>7, <2>1, <3>1, <3>3, <3>4 DEF Ring
    <3>9. Ring'
      BY <3>6, <3>7, <3>8 DEF Ring
    <3>10. QED
      BY <2>3, <2>4, <2>5, <3>9 DEF InRing
  <2>8. QED
    BY <2>1, <2>6, <2>7
\* the programs
<1>21. ASSUME NEW c \in Callers, ReadTake(c)
       PROVE  InRing'
  <2>1. /\ At(c, "take") /\ Goto(c, "advance")
        /\ last' = buf[tail].n
        /\ reading' = [reading EXCEPT ![c] = [at |-> tail, len |-> buf_len, left |-> @.left - 1]]
        /\ UNCHANGED <<buf, head, tail, buf_len, irq, pushed, prev>>
    BY <1>21 DEF ReadTake
  <2>2. Taking(c) /\ Calm /\ head # tail /\ irq.pc # "late" /\ \A d \in Callers : d # c => ~Taking(d)
    BY <1>2, <1>5, <2>1 DEF RingApart, Taking, At
  <2>3. pc'[c] = "advance" /\ \A d \in Callers : d # c => pc'[d] = pc[d]
    BY <2>1, GotoFacts
  <2>4. \A d \in Callers : ~Resizing(d)' /\ ~At(d, "set_tail")'
    BY <2>2, <2>3 DEF Calm, Resizing, At
  <2>5. \A d \in Callers : At(d, "advance")' => reading'[d].at = tail' /\ reading'[d].len = buf_len'
    BY <2>1, <2>2, <2>3 DEF Taking, At, Typed
  <2>6. Writing'
    <3>1. Writing
      BY <1>2 DEF InRing
    <3>2. QED
      BY <2>1, <3>1 DEF Writing, Back
  <2>7. NextTail = tail
    BY <2>1, <2>2, <2>3 DEF NextTail, Taking, At
  <2>8. NextTail' = inc_buf(tail, buf_len)
    BY <2>1, <2>3 DEF NextTail, At
  <2>9. /\ Unread \in 1..(buf_len - 1)
        /\ Between(inc_buf(tail, buf_len), head, buf_len) = Unread - 1
        /\ Back(head, Unread, buf_len) = tail
    BY <1>7, <2>2, <2>7, Take DEF Unread
  <2>10. Unread' = Unread - 1
    BY <2>1, <2>8, <2>9 DEF Unread, Between
  <2>11. Passed' = Passed /\ Passed \in Int
    BY <1>8, <2>1 DEF Passed
  <2>12. last' = Passed - Unread + 1
    <3>1. Unread \in 1..Unread
      BY <2>9
    <3>2. Number(Back(head, Unread, buf_len)) = Passed - Unread + 1
      BY <1>7, <2>2, <3>1 DEF Ring
    <3>3. Number(tail) = buf[tail].n
      BY <2>2 DEF Number
    <3>4. QED
      BY <2>1, <2>9, <3>2, <3>3
  <2>13. last' + Unread' <= Passed'
    BY <2>9, <2>10, <2>11, <2>12
  <2>14. ASSUME NEW j \in 1..Unread'
         PROVE  Number(Back(head, j, buf_len))' = Passed' - j + 1
    <3>1. j \in 1..Unread
      BY <2>9, <2>10
    <3>2. Number(Back(head, j, buf_len)) = Passed - j + 1
      BY <1>7, <2>2, <3>1 DEF Ring
    <3>3. Number(Back(head, j, buf_len))' = Number(Back(head, j, buf_len))
      BY <2>1 DEF Number, Back
    <3>4. QED
      BY <2>11, <3>2, <3>3
  <2>15. BUF_LAST' = BUF_LAST
    BY <2>1 DEF BUF_LAST
  <2>16. Ring'
    BY <1>7, <2>1, <2>2, <2>13, <2>14, <2>15 DEF Ring
  <2>17. QED
    BY <2>4, <2>5, <2>6, <2>16 DEF InRing
<1>22. ASSUME NEW c \in Callers, ReadAdvance(c)
       PROVE  InRing'
  <2>1. /\ At(c, "advance") /\ Goto(c, "loop")
        /\ tail' = inc_buf(reading[c].at, reading[c].len)
        /\ UNCHANGED <<buf, head, buf_len, irq, pushed, last, prev, reading>>
    BY <1>22 DEF ReadAdvance
  <2>2. Taking(c) /\ Calm /\ \A d \in Callers : d # c => ~Taking(d)
    BY <1>2, <1>5, <2>1 DEF RingApart, Taking, At
  <2>3. pc'[c] = "loop" /\ \A d \in Callers : d # c => pc'[d] = pc[d]
    BY <2>1, GotoFacts
  <2>4. \A d \in Callers : ~Resizing(d)' /\ ~At(d, "set_tail")' /\ ~At(d, "advance")'
    BY <2>2, <2>3 DEF Calm, Resizing, At, Taking
  <2>5. tail' = NextTail
    BY <1>2, <2>1 DEF InRing, NextTail
  <2>6. NextTail' = NextTail
    BY <2>4, <2>5 DEF NextTail
  <2>7. Unread' = Unread /\ Passed' = Passed /\ BUF_LAST' = BUF_LAST
    BY <2>1, <2>6 DEF Unread, Passed, BUF_LAST, Between
  <2>8. \A i : Number(i)' = Number(i)
    BY <2>1 DEF Number
  <2>9. Writing'
    <3>1. Writing
      BY <1>2 DEF InRing
    <3>2. QED
      BY <2>1, <3>1 DEF Writing, Back
  <2>10. head' < buf_len' /\ tail' < buf_len'
    <3>1. NextTail \in 0..(buf_len - 1)
      BY <1>7, <2>2, RingFacts DEF Ring
    <3>2. QED
      BY <1>7, <2>1, <2>2, <2>5, <3>1
  <2>11. Ring'
    BY <1>7, <2>1, <2>2, <2>7, <2>8, <2>10 DEF Ring, Back
  <2>12. QED
    BY <2>4, <2>9, <2>11 DEF InRing
<1>23. ASSUME NEW c \in Callers, IR_IOC_SET_BUF(c)
       PROVE  InRing'
  <2>1. At(c, "idle") /\ Goto(c, "set_head") /\ UNCHANGED <<head, irq>>
    BY <1>23 DEF IR_IOC_SET_BUF
  <2>2. pc'[c] = "set_head" /\ \A d \in Callers : d # c => pc'[d] = pc[d]
    BY <2>1, GotoFacts
  <2>3. Resizing(c)'
    BY <2>2 DEF Resizing
  <2>4. irq'.pc \notin {"slot", "head", "late"} /\ \A d \in Callers : ~Taking(d)'
    BY <1>2, <2>3 DEF RingApart
  <2>5. \A d \in Callers : At(d, "set_tail")' => head' = 0
    BY <1>2, <2>1, <2>2 DEF InRing, At
  <2>6. QED
    BY <2>3, <2>4, <2>5 DEF InRing, Writing, Calm, Taking, At
<1>24. ASSUME NEW c \in Callers, SetBufPointers(c), At(c, "set_head")
       PROVE  InRing'
  <2>1. Goto(c, "set_tail") /\ head' = 0
    BY <1>24 DEF SetBufPointers, At
  <2>2. pc'[c] = "set_tail" /\ \A d \in Callers : d # c => pc'[d] = pc[d]
    BY <2>1, GotoFacts
  <2>3. Resizing(c)'
    BY <2>2 DEF Resizing
  <2>4. irq'.pc \notin {"slot", "head", "late"} /\ \A d \in Callers : ~Taking(d)'
    BY <1>2, <2>3 DEF RingApart
  <2>5. QED
    BY <2>1, <2>3, <2>4 DEF InRing, Writing, Calm, Taking, At
<1>25. ASSUME NEW c \in Callers, SetBufPointers(c), At(c, "set_tail")
       PROVE  InRing'
  <2>1. /\ Goto(c, "idle") /\ tail' = 0 /\ last' = pushed' /\ prev' = Nobody
        /\ UNCHANGED <<head, irq>>
    BY <1>25 DEF SetBufPointers, At
  <2>2. pc'[c] = "idle" /\ \A d \in Callers : d # c => pc'[d] = pc[d]
    BY <2>1, GotoFacts
  <2>3. Resizing(c) /\ head = 0
    BY <1>2, <1>25 DEF Resizing, InRing, At
  <2>4. irq.pc \notin {"slot", "head", "late"} /\ \A d \in Callers : ~Taking(d)
    BY <1>2, <2>3 DEF RingApart
  <2>5. \A d \in Callers : ~At(d, "advance")'
    BY <2>2, <2>4 DEF Taking, At
  <2>6. prev'.n = 0
    BY <2>1 DEF Nobody
  <2>7. QED
    BY <2>1, <2>3, <2>4, <2>5, <2>6, Reset
<1>26. ASSUME NEW c \in Callers, OpenInit(c)
       PROVE  InRing'
  <2>1. /\ At(c, "open_init") /\ Goto(c, "open_queue") /\ head' = 0 /\ tail' = 0
        /\ last' = pushed' /\ prev' = Nobody /\ UNCHANGED irq
    BY <1>26 DEF OpenInit
  <2>2. pc'[c] = "open_queue" /\ \A d \in Callers : d # c => pc'[d] = pc[d]
    BY <2>1, GotoFacts
  <2>3. files = 0
    BY <2>1 DEF Once, Opens, OpenPlaces, At
  <2>4. \A d \in Callers : ~At(d, "advance")'
    BY <2>2, <2>3 DEF Once, OpenPlaces, ReleasePlaces, At
  <2>5. irq'.pc = "idle"
    BY <1>2, <1>4, <2>1 DEF OpeningMet
  <2>6. prev'.n = 0
    BY <2>1 DEF Nobody
  <2>7. QED
    BY <2>1, <2>4, <2>5, <2>6, Reset
<1>27. ASSUME NEW c \in Callers,
              \/ ot_ir_open(c) \/ OpenRefused(c) \/ OpenTimer(c) \/ OpenQueue(c) \/ OpenConfig(c)
              \/ ot_ir_release(c) \/ ReleaseCount(c) \/ ReleaseTimer(c) \/ ReleaseQueue(c)
              \/ ot_ir_read(c) \/ ReadTest(c) \/ ReadLoop(c)
       PROVE  InRing'
  <2> DEFINE Own == {"advance", "set_head", "set_tail"}
  <2>1. pc[c] \notin Own /\ \E place \in Places \ Own : Goto(c, place)
    BY <1>27 DEF ot_ir_open, OpenRefused, OpenTimer, OpenQueue, OpenConfig, ot_ir_release,
                 ReleaseCount, ReleaseTimer, ReleaseQueue, ot_ir_read, ReadTest, ReadLoop, Places,
                 OpenPlaces, ReleasePlaces, At
  <2>2. UNCHANGED <<buf, head, tail, buf_len, irq, pushed, last, prev>>
    BY <1>27 DEF ot_ir_open, OpenRefused, OpenTimer, OpenQueue, OpenConfig, ot_ir_release,
                 ReleaseCount, ReleaseTimer, ReleaseQueue, ot_ir_read, ReadTest, ReadLoop
  <2>3. pc'[c] \notin Own /\ \A d \in Callers : d # c => pc'[d] = pc[d]
    BY <2>1, GotoFacts
  <2>4. \A d \in Callers : d # c => reading'[d] = reading[d]
    BY <1>27 DEF ot_ir_open, OpenRefused, OpenTimer, OpenQueue, OpenConfig, ot_ir_release,
                 ReleaseCount, ReleaseTimer, ReleaseQueue, ot_ir_read, ReadTest, ReadLoop, Typed
  <2>5. \A d \in Callers : /\ At(d, "advance")' <=> At(d, "advance")
                           /\ At(d, "advance") => reading'[d] = reading[d]
                           /\ At(d, "set_tail")' <=> At(d, "set_tail")
                           /\ Resizing(d)' <=> Resizing(d)
    BY <2>1, <2>3, <2>4 DEF At, Resizing
  <2>6. QED
    BY <1>2, <2>2, <2>5, Elsewhere
<1>28. ASSUME TimerFires \/ repkey_timeout_handler \/ (\E c \in Callers : SetOption(c))
              \/ UNCHANGED vars
       PROVE  InRing'
  <2>1. UNCHANGED <<buf, head, tail, buf_len, irq, pushed, last, prev, pc, reading>>
    BY <1>28 DEF TimerFires, repkey_timeout_handler, SetOption, vars
  <2>2. QED
    BY <1>2, <2>1, Elsewhere DEF At, Resizing
<1>29. ASSUME NEW c \in Callers, SetBufPointers(c)
       PROVE  InRing'
  BY <1>24, <1>25, <1>29 DEF SetBufPointers
<1>30. QED
  BY <1>11, <1>12, <1>13, <1>14, <1>15, <1>16, <1>21, <1>22, <1>23, <1>26, <1>27, <1>28, <1>29
     DEF Next, Interrupt, Proceed, Begin

-----------------------------------------------------------------------------
(* The theorems *)

\* What needs nothing of the delays
Always == Typed /\ Met /\ Once /\ DelaySet /\ Ordered

LEMMA StartsRight == Init => Always /\ Timed
<1> SUFFICES ASSUME Init
             PROVE  Always /\ Timed
  OBVIOUS
<1> USE LengthAssumption DEF Init
<1>1. \A c \in Callers : pc[c] = "idle"
  OBVIOUS
<1>2. irq.pc = "idle"
  BY DEF NoIrq
<1>3. Typed
  <2>1. Nobody \in Entries /\ NotReading \in [at : Slots, len : Lengths, left : Int]
    BY DEF Nobody, Entries, NotReading, Slots, Lengths
  <2>2. /\ buf \in [Slots -> Entries] /\ prev \in Entries
        /\ reading \in [Callers -> [at : Slots, len : Lengths, left : Int]]
    BY <2>1 DEF Slots
  <2>3. pc \in [Callers -> Places] /\ irq \in IrqPlaces
    BY DEF Places, IrqPlaces
  <2>4. head \in Slots /\ tail \in Slots /\ buf_len \in Lengths
        /\ pushed \in 0..MaxPush /\ last \in 0..MaxPush
    BY DEF Slots, Lengths
  <2>5. irq.pc \notin {"arm", "flag", "slot", "unflag"}
    BY <1>2
  <2>6. QED
    BY <2>2, <2>3, <2>4, <2>5 DEF Typed
<1>4. Met
  BY <1>1, <1>2 DEF Met, RingMet, TimerMet, OpeningMet, Resizing, Taking, At, ReleasePlaces
<1>5. Once
  <2>1. \A c \in Callers : /\ ~Opener(c) /\ ~Opens(c) /\ ~Releaser(c) /\ ~Counting(c) /\ ~Undoes(c)
                           /\ pc[c] \in OpenPlaces \cup ReleasePlaces \cup {"idle"}
    BY <1>1 DEF Opener, Opens, Releaser, Counting, Undoes, At, OpenPlaces, ReleasePlaces
  <2>2. Leak = 0
    BY <2>1 DEF Leak, Opening, Closing
  <2>3. QED
    BY <2>1, <2>2 DEF Once
<1>6. DelaySet
  BY <1>1 DEF DelaySet, Configuring
<1>7. Ordered
  <2>1. prev.n = 0 /\ \A c \in Callers : ~At(c, "advance") /\ ~At(c, "set_tail")
    BY <1>1 DEF Nobody, At
  <2>2. Ring
    <3>1. NextTail = 0 /\ Passed = 0
      BY <1>2, <2>1 DEF NextTail, Passed
    <3>2. Unread = 0
      BY <3>1 DEF Unread, Between
    <3>3. head < buf_len /\ tail < buf_len /\ last + Unread <= Passed
      BY <3>1, <3>2
    <3>4. \A j \in 1..Unread : FALSE
      BY <3>2
    <3>5. QED
      BY <2>1, <3>3, <3>4 DEF Ring
  <2>3. Writing
    BY <1>2 DEF Writing
  <2>4. QED
    BY <2>1, <2>2, <2>3 DEF Ordered
<1>8. Timed
  BY <1>1, <1>2 DEF Timed, Releaser, Configuring, ReleasePlaces
<1>9. QED
  BY <1>3, <1>4, <1>5, <1>6, <1>7, <1>8 DEF Always

LEMMA AlwaysHolds == Spec => []Always
<1>1. Init => Always
  BY StartsRight
<1>2. Always /\ [Next]_vars => Always'
  <2> SUFFICES ASSUME Always, [Next]_vars
               PROVE  Always'
    OBVIOUS
  <2>1. Typed'
    BY TypedStep DEF Always
  <2>2. Met' /\ Once' /\ DelaySet'
    BY MetStep, OnceStep, DelayStep DEF Always
  <2>3. Ordered'
    BY <2>1, OrderedStep DEF Always
  <2>4. QED
    BY <2>1, <2>2, <2>3 DEF Always
<1>3. QED
  BY <1>1, <1>2, PTL DEF Spec

\* Every variable has its type. Among this: the device is open to one program at
\* most, though the count of who has it open is taken and corrected in two steps
\* by calls that meet; the count itself, which ought to be 0 or 1, is never below
\* -2. (ir.c:469-520)
THEOREM TypeCorrect == Spec => []TypeOK
<1>1. Always => TypeOK
  <2> SUFFICES ASSUME Always
               PROVE  TypeOK
    OBVIOUS
  <2>1. g_ot_ir_s_available \in -2..1 /\ files \in {0, 1}
    <3>1. Opening \in {0, 1} /\ Closing \in {0, 1}
      BY DEF Opening, Closing
    <3>2. Closing = 1 => files = 0
      BY DEF Closing, Always, Once
    <3>3. Leak = 2 => files = 0 /\ Closing = 0
      BY DEF Closing, Always, Once
    <3>4. g_ot_ir_s_available \in Int /\ files \in {0, 1} /\ Leak \in 0..2
      BY DEF Always, Once
    <3>5. g_ot_ir_s_available = 1 - files - Leak - Opening - Closing
      BY <3>1, <3>4 DEF Leak
    <3> HIDE DEF Leak
    <3>6. QED
      BY <3>1, <3>2, <3>3, <3>4, <3>5
  <2>2. \A i \in 0..OT_IR_MAX_BUF : buf[i] \in Entries
    BY DEF Always, Typed, Slots
  <2>3. QED
    BY <2>1, <2>2 DEF Always, Typed, TypeOK, Slots, Lengths, Entries
<1>2. QED
  BY <1>1, AlwaysHolds, PTL

\* With delays that osal_set_timer accepts, repeated keys are never suppressed
\* without a timer, or its handler, that will let them through again, unless the
\* handler has met the interrupt or a close an open. (ir.c:214-251, 272-283)
THEOREM RepeatsResumeAlways == LongDelays => (Spec => []RepeatsResume)
<1> SUFFICES ASSUME LongDelays
             PROVE  Spec => []RepeatsResume
  OBVIOUS
<1>1. Init => Timed
  BY StartsRight
<1>2. Always /\ Timed /\ [Next]_vars => Timed'
  BY TimedStep DEF Always
<1>3. Timed => RepeatsResume
  BY DEF Timed, RepeatsResume, NoIrq
<1>4. QED
  BY <1>1, <1>2, <1>3, AlwaysHolds, PTL DEF Spec

\* Keys are read in the order they were pressed in, each once and none from
\* before a reset, for a ring of any length and however often the interrupt
\* overtakes a reader, unless accesses met that InOrder names.
\* (ir.c:221-251, 420-450)
THEOREM ReadInOrder == Spec => InOrder
<1> DEFINE Step == \A c \in Callers : At(c, "take") /\ pc'[c] = "advance" =>
                     met \cap {"ring", "opening"} # {} \/ buf[tail].n > last
<1>1. Always => [Step]_vars
  <2> SUFFICES ASSUME Always, "ring" \notin met, "opening" \notin met,
                      NEW c \in Callers, At(c, "take")
               PROVE  buf[tail].n > last
    BY DEF Step
  <2>1. InRing /\ RingApart
    BY ApartFacts DEF Always, Ordered, Met, InRing, RingMet
  <2>2. Taking(c) /\ Calm /\ head # tail /\ irq.pc # "late" /\ \A d \in Callers : ~At(d, "advance")
    BY <2>1 DEF RingApart, Taking, At, Calm
  <2>3. Ring /\ NextTail = tail
    BY <2>1, <2>2 DEF InRing, NextTail
  <2>4. /\ buf_len \in Nat /\ buf_len > 1
        /\ head \in 0..(buf_len - 1) /\ tail \in 0..(buf_len - 1)
    BY <2>3, RingFacts DEF Ring, Always
  <2>5. Unread \in 1..(buf_len - 1) /\ Back(head, Unread, buf_len) = tail
    BY <2>2, <2>3, <2>4, Take DEF Unread
  <2>6. Number(tail) = Passed - Unread + 1
    <3>1. Unread \in 1..Unread
      BY <2>5
    <3>2. QED
      BY <2>3, <2>5, <3>1 DEF Ring
  <2>7. Number(tail) = buf[tail].n
    BY <2>2 DEF Number
  <2>8. last + Unread <= Passed /\ Passed \in Int /\ last \in Int
    BY <2>3, LengthAssumption DEF Ring, Passed, Always, Typed
  <2>9. QED
    BY <2>5, <2>6, <2>7, <2>8
<1> HIDE DEF Step
<1>2. Spec => [][Step]_vars
  BY <1>1, AlwaysHolds, PTL
<1>3. QED
  BY <1>2 DEF InOrder, Step

\* The key that is said to go up is the one that went down last, also across the
\* end of the ring. (ir.c:272-283)
THEOREM UpIsWhatWentDown == Spec => UpFollowsDown
<1> DEFINE Step == irq.pc = "slot" /\ irq' # irq /\ irq.up =>
                     met \cap {"ring", "opening"} # {} \/ prev.n = 0
                       \/ (prev.key = irq.key /\ ~prev.up)
<1>1. Always => [Step]_vars
  BY DEF Always, Ordered, Writing
<1> HIDE DEF Step
<1>2. Spec => [][Step]_vars
  BY <1>1, AlwaysHolds, PTL
<1>3. QED
  BY <1>2 DEF UpFollowsDown, Step
=============================================================================
