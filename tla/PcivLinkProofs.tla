---------------------------- MODULE PcivLinkProofs ----------------------------
(***************************************************************************)
(* Proofs about PcivLink, for any number of buffers and any bounds: a       *)
(* buffer is at one place, no picture is overwritten while it is used, and  *)
(* pictures are shown in order. The inductive invariant speaks of a queue   *)
(* by three things only: the buffers of its pictures of the current life,   *)
(* the numbers of its pictures, and that neither occurs twice. The steps    *)
(* append to a queue, take its head, or put one back, and a lemma for each  *)
(* says what becomes of the three; what is left is a matter of sets.        *)
(***************************************************************************)
EXTENDS PcivLink, FiniteSetTheorems, FunctionTheorems, SequenceTheorems, WellFoundedInduction, TLAPS

-----------------------------------------------------------------------------
(* Queues *)

\* The buffers of the messages of life l, which are all different.
BufsOf(s, l) == {s[i].buf : i \in {j \in DOMAIN s : s[j].life = l}}
OnceEach(s, l) ==
  \A i, j \in DOMAIN s : s[i].life = l /\ s[j].life = l /\ s[i].buf = s[j].buf => i = j

\* The numbers of the pictures, which go up.
NumsOf(s) == {s[i].num : i \in {j \in DOMAIN s : s[j].buf # None}}
Rising(s) ==
  \A i, j \in DOMAIN s : i < j /\ s[i].buf # None /\ s[j].buf # None => s[i].num < s[j].num

\* The same of one message, or of none
BufOf(m, l) == IF m # None /\ m.life = l THEN {m.buf} ELSE {}
NumOf(m) == IF m # None /\ m.buf # None THEN {m.num} ELSE {}

Apart(A, B) == A \cap B = {}
Before(A, B) == \A x \in A, y \in B : x < y

\* A queue t with the message m in front of it is the queue s.
Heads(s, m, t) ==
  /\ Len(s) = Len(t) + 1 /\ s[1] = m
  /\ \A i \in 1..Len(t) : s[i + 1] = t[i]

\* What is in front counts with the rest of the queue, and is different from it.
LEMMA InFront ==
  ASSUME NEW S, NEW s \in Seq(S), NEW t \in Seq(S), NEW m \in S, None \notin S,
         Heads(s, m, t), NEW l
  PROVE  /\ BufsOf(s, l) = BufOf(m, l) \cup BufsOf(t, l)
         /\ OnceEach(s, l) <=> OnceEach(t, l) /\ Apart(BufOf(m, l), BufsOf(t, l))
         /\ NumsOf(s) = NumOf(m) \cup NumsOf(t)
         /\ Rising(s) <=> Rising(t) /\ Before(NumOf(m), NumsOf(t))
<1>1. /\ DOMAIN s = 1..Len(s) /\ DOMAIN t = 1..Len(t) /\ Len(t) \in Nat /\ Len(s) = Len(t) + 1
      /\ m # None /\ s[1] = m /\ \A i \in 1..Len(t) : s[i + 1] = t[i]
  BY LenProperties DEF Heads
<1>2. \A j \in DOMAIN s : j = 1 \/ (j - 1 \in DOMAIN t /\ s[j] = t[j - 1])
  BY <1>1
<1>3. \A j \in DOMAIN t : j + 1 \in DOMAIN s /\ s[j + 1] = t[j]
  BY <1>1
<1>4. 1 \in DOMAIN s
  BY <1>1
<1>5. BufsOf(s, l) = BufOf(m, l) \cup BufsOf(t, l)
  BY <1>1, <1>2, <1>3, <1>4 DEF BufsOf, BufOf
<1>6. NumsOf(s) = NumOf(m) \cup NumsOf(t)
  BY <1>1, <1>2, <1>3, <1>4 DEF NumsOf, NumOf
<1>7. OnceEach(s, l) => OnceEach(t, l) /\ Apart(BufOf(m, l), BufsOf(t, l))
  <2>1. \A i, j \in DOMAIN t : (i + 1 = j + 1 => i = j) /\ i + 1 # 1
    BY <1>1
  <2>2. OnceEach(s, l) => OnceEach(t, l)
    BY <1>3, <2>1 DEF OnceEach
  <2>3. OnceEach(s, l) => Apart(BufOf(m, l), BufsOf(t, l))
    BY <1>1, <1>3, <1>4, <2>1 DEF OnceEach, Apart, BufOf, BufsOf
  <2>4. QED
    BY <2>2, <2>3
<1>8. OnceEach(t, l) /\ Apart(BufOf(m, l), BufsOf(t, l)) => OnceEach(s, l)
  <2> SUFFICES ASSUME OnceEach(t, l), Apart(BufOf(m, l), BufsOf(t, l)),
                      NEW i \in DOMAIN s, NEW j \in DOMAIN s,
                      s[i].life = l, s[j].life = l, s[i].buf = s[j].buf
               PROVE  i = j
    BY DEF OnceEach
  <2>1. ASSUME NEW x \in DOMAIN t, t[x].life = l, m.life = l, t[x].buf = m.buf
        PROVE  FALSE
    BY <1>1, <2>1 DEF Apart, BufOf, BufsOf
  <2>2. CASE i # 1 /\ j # 1
    <3>1. i - 1 \in DOMAIN t /\ s[i] = t[i - 1] /\ j - 1 \in DOMAIN t /\ s[j] = t[j - 1]
      BY <1>2, <2>2
    <3>2. i - 1 = j - 1
      BY <3>1 DEF OnceEach
    <3>3. QED
      BY <1>1, <3>2
  <2>3. QED
    BY <1>1, <1>2, <2>1, <2>2
<1>9. Rising(s) => Rising(t) /\ Before(NumOf(m), NumsOf(t))
  <2>1. \A i \in DOMAIN t : 1 < i + 1 /\ \A j \in DOMAIN t : i < j => i + 1 < j + 1
    BY <1>1
  <2>2. Rising(s) => Rising(t)
    BY <1>3, <2>1 DEF Rising
  <2>3. Rising(s) => Before(NumOf(m), NumsOf(t))
    BY <1>1, <1>3, <1>4, <2>1 DEF Rising, Before, NumOf, NumsOf
  <2>4. QED
    BY <2>2, <2>3
<1>10. Rising(t) /\ Before(NumOf(m), NumsOf(t)) => Rising(s)
  <2> SUFFICES ASSUME Rising(t), Before(NumOf(m), NumsOf(t)),
                      NEW i \in DOMAIN s, NEW j \in DOMAIN s, i < j, s[i].buf # None, s[j].buf # None
               PROVE  s[i].num < s[j].num
    BY DEF Rising
  <2>1. j # 1
    BY <1>1
  <2>2. j - 1 \in DOMAIN t /\ s[j] = t[j - 1]
    BY <1>2, <2>1
  <2>3. CASE i = 1
    <3>1. m.num \in NumOf(m) /\ t[j - 1].num \in NumsOf(t)
      BY <1>1, <2>2, <2>3 DEF NumOf, NumsOf
    <3>2. QED
      BY <1>1, <2>2, <2>3, <3>1 DEF Before
  <2>4. CASE i # 1
    <3>1. i - 1 \in DOMAIN t /\ s[i] = t[i - 1] /\ i - 1 < j - 1
      BY <1>1, <1>2, <2>4
    <3>2. QED
      BY <2>2, <3>1 DEF Rising
  <2>5. QED
    BY <2>3, <2>4
<1>11. QED
  BY <1>5, <1>6, <1>7, <1>8, <1>9, <1>10

\* What is appended too.
LEMMA AtEnd ==
  ASSUME NEW S, NEW s \in Seq(S), NEW m \in S, None \notin S, NEW l
  PROVE  /\ BufsOf(Append(s, m), l) = BufsOf(s, l) \cup BufOf(m, l)
         /\ OnceEach(Append(s, m), l) <=> OnceEach(s, l) /\ Apart(BufsOf(s, l), BufOf(m, l))
         /\ NumsOf(Append(s, m)) = NumsOf(s) \cup NumOf(m)
         /\ Rising(Append(s, m)) <=> Rising(s) /\ Before(NumsOf(s), NumOf(m))
<1> DEFINE t == Append(s, m)
           n == Len(s) + 1
<1>1. /\ DOMAIN s = 1..Len(s) /\ DOMAIN t = 1..n /\ Len(s) \in Nat
      /\ m # None /\ t[n] = m /\ \A i \in 1..Len(s) : t[i] = s[i]
  BY LenProperties, AppendProperties
<1> HIDE DEF t
<1>2. \A j \in DOMAIN t : j = n \/ (j \in DOMAIN s /\ t[j] = s[j] /\ j < n)
  BY <1>1
<1>3. \A j \in DOMAIN s : j \in DOMAIN t /\ t[j] = s[j] /\ j < n
  BY <1>1
<1>4. n \in DOMAIN t /\ n \notin DOMAIN s
  BY <1>1
<1> HIDE DEF n
<1>5. BufsOf(t, l) = BufsOf(s, l) \cup BufOf(m, l)
  BY <1>1, <1>2, <1>3, <1>4 DEF BufsOf, BufOf
<1>6. NumsOf(t) = NumsOf(s) \cup NumOf(m)
  BY <1>1, <1>2, <1>3, <1>4 DEF NumsOf, NumOf
<1>7. OnceEach(t, l) => OnceEach(s, l) /\ Apart(BufsOf(s, l), BufOf(m, l))
  BY <1>1, <1>3, <1>4 DEF OnceEach, Apart, BufOf, BufsOf
<1>8. OnceEach(s, l) /\ Apart(BufsOf(s, l), BufOf(m, l)) => OnceEach(t, l)
  BY <1>1, <1>2 DEF OnceEach, Apart, BufOf, BufsOf
<1>9. Rising(t) => Rising(s) /\ Before(NumsOf(s), NumOf(m))
  BY <1>1, <1>3, <1>4 DEF Rising, Before, NumOf, NumsOf
<1>10. Rising(s) /\ Before(NumsOf(s), NumOf(m)) => Rising(t)
  <2> SUFFICES ASSUME Rising(s), Before(NumsOf(s), NumOf(m)),
                      NEW i \in DOMAIN t, NEW j \in DOMAIN t, i < j,
                      t[i].buf # None, t[j].buf # None
               PROVE  t[i].num < t[j].num
    BY DEF Rising
  <2>1. i \in DOMAIN s /\ t[i] = s[i]
    <3>1. i # n
      BY <1>1, <1>2, <1>4 DEF n
    <3>2. QED
      BY <1>2, <3>1
  <2>2. CASE j \in DOMAIN s
    BY <1>3, <2>1, <2>2 DEF Rising
  <2>3. CASE j = n
    BY <1>1, <2>1, <2>3 DEF Before, NumOf, NumsOf
  <2>4. QED
    BY <1>2, <2>2, <2>3
<1>11. QED
  BY <1>5, <1>6, <1>7, <1>8, <1>9, <1>10 DEF t

\* An empty queue, and one whose messages are all of other lives.
LEMMA Nothing ==
  ASSUME NEW s, NEW l, \A i \in DOMAIN s : s[i].life # l
  PROVE  BufsOf(s, l) = {} /\ OnceEach(s, l)
  BY DEF BufsOf, OnceEach

LEMMA Empty ==
  ASSUME NEW s, s = <<>>
  PROVE  /\ DOMAIN s = {} /\ NumsOf(s) = {} /\ Rising(s)
         /\ \A l : BufsOf(s, l) = {} /\ OnceEach(s, l)
<1>1. DOMAIN s = {}
  OBVIOUS
<1>2. QED
  BY ONLY <1>1 DEF NumsOf, Rising, BufsOf, OnceEach

LEMMA TakeHead ==
  ASSUME NEW S, NEW s \in Seq(S), s # <<>>
  PROVE  /\ Head(s) \in S /\ Tail(s) \in Seq(S)
         /\ Heads(s, Head(s), Tail(s))
         /\ 1 \in DOMAIN s /\ s[1] = Head(s)
         /\ \A i \in DOMAIN Tail(s) : i + 1 \in DOMAIN s /\ Tail(s)[i] = s[i + 1] /\ 1 < i + 1
<1>1. /\ Len(s) \in Nat /\ DOMAIN s = 1..Len(s) /\ Head(s) \in S /\ Tail(s) \in Seq(S)
      /\ Len(Tail(s)) = Len(s) - 1 /\ DOMAIN Tail(s) = 1..Len(Tail(s))
      /\ \A i \in 1..Len(Tail(s)) : Tail(s)[i] = s[i + 1]
  BY HeadTailProperties, LenProperties
<1>2. Len(s) > 0
  BY EmptySeq
<1>3. s[1] = Head(s)
  OBVIOUS
<1>4. QED
  BY <1>1, <1>2, <1>3 DEF Heads

LEMMA PutHead ==
  ASSUME NEW S, NEW t \in Seq(S), NEW m \in S
  PROVE  <<m>> \o t \in Seq(S) /\ Heads(<<m>> \o t, m, t)
<1>1. <<m>> \in Seq(S) /\ Len(<<m>>) = 1 /\ <<m>>[1] = m /\ Len(t) \in Nat
  OBVIOUS
<1>2. /\ <<m>> \o t \in Seq(S) /\ Len(<<m>> \o t) = 1 + Len(t)
      /\ \A i \in 1 .. 1 + Len(t) :
           (<<m>> \o t)[i] = IF i <= 1 THEN <<m>>[i] ELSE t[i - 1]
  BY ConcatProperties, <1>1
<1>3. QED
  BY <1>1, <1>2 DEF Heads

LEMMA Appended ==
  ASSUME NEW S, NEW s \in Seq(S), NEW m \in S
  PROVE  /\ Append(s, m) \in Seq(S)
         /\ Len(s) + 1 \in DOMAIN Append(s, m) /\ Append(s, m)[Len(s) + 1] = m
         /\ \A i \in DOMAIN s : i \in DOMAIN Append(s, m) /\ Append(s, m)[i] = s[i] /\ i < Len(s) + 1
         /\ \A i \in DOMAIN Append(s, m) : i \in DOMAIN s \/ i = Len(s) + 1
<1>1. /\ Len(s) \in Nat /\ DOMAIN s = 1..Len(s) /\ Append(s, m) \in Seq(S)
      /\ DOMAIN Append(s, m) = 1 .. Len(s) + 1
      /\ Append(s, m)[Len(s) + 1] = m /\ \A i \in 1..Len(s) : Append(s, m)[i] = s[i]
  BY LenProperties, AppendProperties
<1>2. QED
  BY <1>1

\* What is given back comes to the end of to_slave, each buffer once.
LEMMA Returned ==
  ASSUME NEW bufs \in SUBSET Bufs, to_slave \in Seq(ReadDone), life \in 0..MaxStarts, GiveBack(bufs),
         NEW l
  PROVE  /\ to_slave' \in Seq(ReadDone) /\ busy' = busy \ bufs
         /\ \A i \in DOMAIN to_slave' :
              to_slave'[i].life = life \/ \E j \in DOMAIN to_slave : to_slave'[i] = to_slave[j]
         /\ BufsOf(to_slave', l) \subseteq BufsOf(to_slave, l) \cup (IF l = life THEN bufs ELSE {})
         /\ OnceEach(to_slave, l) /\ (l = life => Apart(BufsOf(to_slave, l), bufs))
              => OnceEach(to_slave', l)
<1> DEFINE n == Cardinality(bufs)
<1>1. n \in Nat
  <2>1. IsFiniteSet(Bufs)
    BY FS_Interval, ParamsAssumption DEF Bufs
  <2>2. QED
    BY <2>1, FS_Subset, FS_CardinalityType
<1>2. PICK list \in [1..n -> bufs] :
        /\ \A i, j \in DOMAIN list : i < j => list[i] < list[j]
        /\ to_slave' = to_slave \o [i \in DOMAIN list |-> [buf |-> list[i], life |-> life]]
  BY DEF GiveBack
<1> DEFINE back == [i \in DOMAIN list |-> [buf |-> list[i], life |-> life]]
           k == Len(to_slave)
           t == to_slave'
<1> HIDE DEF n
<1>3. /\ back \in [1..n -> ReadDone]
      /\ \A i \in 1..n : back[i].buf = list[i] /\ back[i].life = life /\ list[i] \in bufs
  BY <1>2 DEF ReadDone
<1>4. back \in Seq(ReadDone) /\ Len(back) = n
  <2>1. back \in Seq(ReadDone)
    BY <1>1, <1>3, SeqDef
  <2>2. QED
    BY <1>1, <1>3, <2>1, LenProperties
<1>5. \A i, j \in 1..n : i # j => list[i] # list[j]
  <2>1. \A i \in 1..n : list[i] \in Int
    <3>1. Bufs \subseteq Int
      BY ParamsAssumption DEF Bufs
    <3>2. QED
      BY <1>3, <3>1
  <2>2. DOMAIN list = 1..n
    BY <1>2
  <2>3. QED
    BY <1>1, <1>2, <2>1, <2>2
<1> HIDE DEF back
<1>6. /\ t \in Seq(ReadDone) /\ DOMAIN t = 1 .. k + n /\ k \in Nat /\ DOMAIN to_slave = 1..k
      /\ \A i \in 1 .. k + n : t[i] = IF i <= k THEN to_slave[i] ELSE back[i - k]
  <2>1. t = to_slave \o back
    BY <1>2 DEF back
  <2>2. /\ to_slave \o back \in Seq(ReadDone) /\ Len(to_slave \o back) = k + n
        /\ \A i \in 1 .. k + n : (to_slave \o back)[i] = IF i <= k THEN to_slave[i] ELSE back[i - k]
    BY <1>4, ConcatProperties
  <2>3. k \in Nat /\ DOMAIN to_slave = 1..k /\ DOMAIN (to_slave \o back) = 1..Len(to_slave \o back)
    BY <2>2, LenProperties
  <2>4. QED
    BY <2>1, <2>2, <2>3
<1> HIDE DEF t, k
<1>7. \A i \in DOMAIN t :
        \/ i \in DOMAIN to_slave /\ t[i] = to_slave[i]
        \/ i - k \in 1..n /\ i \notin DOMAIN to_slave /\ t[i].buf = list[i - k] /\ t[i].life = life
  BY <1>1, <1>3, <1>6
<1>8. BufsOf(t, l) \subseteq BufsOf(to_slave, l) \cup (IF l = life THEN bufs ELSE {})
  BY <1>3, <1>7 DEF BufsOf
<1>9. ASSUME OnceEach(to_slave, l), l = life => Apart(BufsOf(to_slave, l), bufs)
      PROVE  OnceEach(t, l)
  <2> SUFFICES ASSUME NEW i \in DOMAIN t, NEW j \in DOMAIN t, t[i].life = l, t[j].life = l,
                      t[i].buf = t[j].buf
               PROVE  i = j
    BY DEF OnceEach
  <2>1. CASE i \in DOMAIN to_slave /\ j \in DOMAIN to_slave
    BY <1>7, <1>9, <2>1 DEF OnceEach
  <2>2. CASE i \notin DOMAIN to_slave /\ j \notin DOMAIN to_slave
    <3>1. i - k \in 1..n /\ j - k \in 1..n /\ list[i - k] = list[j - k]
      BY <1>7, <2>2
    <3>2. i - k = j - k
      BY <1>5, <3>1
    <3>3. QED
      BY <1>6, <3>2
  <2>3. ASSUME NEW x \in DOMAIN t, NEW y \in DOMAIN t, x \in DOMAIN to_slave, y \notin DOMAIN to_slave,
               t[x].life = l, t[y].life = l, t[x].buf = t[y].buf
        PROVE  FALSE
    <3>1. t[x].buf \in BufsOf(to_slave, l)
      BY <1>7, <2>3 DEF BufsOf
    <3>2. t[y].buf \in bufs /\ l = life
      BY <1>3, <1>7, <2>3
    <3>3. QED
      BY <1>9, <2>3, <3>1, <3>2 DEF Apart
  <2>4. QED
    BY <2>1, <2>2, <2>3
<1>10. busy' = busy \ bufs
  BY DEF GiveBack
<1>11. QED
  BY <1>6, <1>7, <1>8, <1>9, <1>10 DEF t

\* A set of numbers that is not empty has a least one.
LEMMA SmallestNat ==
  ASSUME NEW A \in SUBSET Nat, A # {}
  PROVE  \E i \in A : \A j \in A : i <= j
<1>1. \A x, y \in Nat : <<x, y>> \in OpToRel(<, Nat) <=> x < y
  BY DEF OpToRel
<1>2. \E m \in A : \A k \in A : ~ (<<k, m>> \in OpToRel(<, Nat))
  BY NatLessThanWellFounded, WFMin, Zenon
<1>3. \E m \in A : \A k \in A : ~ (k < m)
  BY <1>1, <1>2, Zenon
<1>4. QED
  BY <1>3

\* As many tasks as the driver takes go from one queue to the other.
LEMMA Started ==
  ASSUME NEW list \in Seq(Picture), dma \in Seq(Picture), Len(dma) <= DmaDepth, StartDma(list)
  PROVE  /\ dma' \in Seq(Picture) /\ tasks' \in Seq(Picture) /\ Len(dma') <= DmaDepth
         /\ dma' \o tasks' = dma \o list
<1> DEFINE room == DmaDepth - Len(dma)
           k == IF Len(list) < room THEN Len(list) ELSE room
           a == SubSeq(list, 1, k)
           z == SubSeq(list, k + 1, Len(list))
<1>1. Len(list) \in Nat /\ Len(dma) \in Nat /\ DmaDepth \in Nat
  BY LenProperties, ParamsAssumption
<1>2. k \in 0..Len(list) /\ k <= room
  BY <1>1
<1>3. dma' = dma \o a /\ tasks' = z
  BY DEF StartDma
<1> HIDE DEF k, room
<1>4. \A i \in 1..Len(list) : list[i] \in Picture
  BY ElementOfSeq
<1>5. a \in Seq(Picture) /\ Len(a) = k
  BY <1>1, <1>2, <1>4, SubSeqProperties
<1>6. z \in Seq(Picture)
  BY <1>1, <1>2, <1>4, SubSeqProperties
<1>7. a \o z = list
  <2>1. 1 \in 1 .. Len(list) + 1 /\ k \in 1 - 1 .. Len(list) /\ Len(list) \in k .. Len(list)
    BY <1>1, <1>2
  <2>2. a \o z = SubSeq(list, 1, Len(list))
    BY <2>1, ConcatAdjacentSubSeq
  <2>3. QED
    BY <2>2, SubSeqFull
<1> HIDE DEF a, z
<1>8. dma' \in Seq(Picture) /\ Len(dma') = Len(dma) + k
  BY <1>3, <1>5, ConcatProperties
<1>9. Len(dma') <= DmaDepth
  BY <1>1, <1>2, <1>8 DEF room
<1>10. dma' \o tasks' = dma \o list
  <2>1. (dma \o a) \o z = dma \o (a \o z)
    <3>1. dma \in Seq(Picture) /\ a \in Seq(Picture) /\ z \in Seq(Picture)
      BY <1>5, <1>6
    <3>2. QED
      BY ONLY <3>1, ConcatAssociative
  <2>2. QED
    BY <1>3, <1>7, <2>1
<1>11. QED
  BY <1>3, <1>6, <1>8, <1>9, <1>10

-----------------------------------------------------------------------------
(* The inductive invariant *)

SlaveTyped ==
  /\ sender \in {"stopped", "starting", "started", "stopping"}
  /\ free \subseteq Bufs
  /\ tasks \in Seq(Picture) /\ dma \in Seq(Picture) /\ Len(dma) <= DmaDepth
  /\ sent \in 0..MaxPics

LinkTyped == to_host \in Seq(Message) /\ to_slave \in Seq(ReadDone)

HostTyped ==
  /\ started \in BOOLEAN /\ can_recv \in BOOLEAN /\ armed \in BOOLEAN
  /\ busy \subseteq Bufs /\ isr \in Picture \cup {None}
  /\ scan \in [at : Bufs, hit : BOOLEAN, release : BOOLEAN] \cup {None}

\* No node of the queue of refused pictures is invented.
FirmwareTyped ==
  /\ queue \in Seq(Picture) /\ cur \in Picture \cup {None}
  /\ nodes \in Nat /\ nodes + Len(queue) + (IF cur = None THEN 0 ELSE 1) <= NumBufs
  /\ hold \subseteq Bufs /\ vdec \in {"idle", "frame", "send"}
  /\ display \subseteq Picture /\ shown \in 0..MaxPics
  /\ kind = "live" => queue = <<>> /\ cur = None
  /\ vdec = "idle" => cur = None

HistoryTyped ==
  /\ starts \in 0..MaxStarts /\ life \in 0..starts /\ host_starts \in 0..MaxHostStarts
  /\ kind \in Kinds
  /\ stale \in BOOLEAN /\ raced \in BOOLEAN /\ met \in BOOLEAN /\ dropped \in BOOLEAN

Typed == SlaveTyped /\ LinkTyped /\ HostTyped /\ FirmwareTyped /\ HistoryTyped

\* What waits at the slave
waiting == dma \o tasks

\* A slave that is stopped has sent all it had, so what waits is of the current
\* life.
SlaveLives ==
  /\ sender \in {"stopped", "starting"} => tasks = <<>> /\ dma = <<>>
  /\ sender # "stopped" => starts > 0
  /\ \A i \in DOMAIN waiting : waiting[i].life = starts

\* The host hears of the lives in their order; until it has heard of the current
\* one, a FREE of that life is under way.
HostLives ==
  /\ \A i \in DOMAIN to_host :
       /\ life <= to_host[i].life /\ to_host[i].life <= starts
       /\ to_host[i].buf = None => life < to_host[i].life
  /\ \A i, j \in DOMAIN to_host : i < j =>
       /\ to_host[i].life <= to_host[j].life
       /\ to_host[j].buf = None => to_host[i].life < to_host[j].life
  /\ life < starts => \E i \in DOMAIN to_host : to_host[i].buf = None /\ to_host[i].life = starts

BackLives == \A i \in DOMAIN to_slave : to_slave[i].life <= life
UsedLives == \A p \in Used : p.life <= starts

\* FREE is not handled while a picture comes in.
IncomingLives == isr # None /\ life = starts => isr.life = starts

Lives == SlaveLives /\ HostLives /\ BackLives /\ UsedLives /\ IncomingLives

\* The buffers the host uses, if it means the life the slave means
host == IF life = starts THEN busy ELSE {}

\* The five places of the buffers of the current life
OnePlaceInv ==
  /\ OnceEach(waiting, starts) /\ OnceEach(to_host, starts) /\ OnceEach(to_slave, starts)
  /\ Apart(free, BufsOf(waiting, starts)) /\ Apart(free, BufsOf(to_host, starts))
  /\ Apart(free, BufsOf(to_slave, starts)) /\ Apart(free, host)
  /\ Apart(BufsOf(waiting, starts), BufsOf(to_host, starts))
  /\ Apart(BufsOf(waiting, starts), BufsOf(to_slave, starts))
  /\ Apart(BufsOf(waiting, starts), host)
  /\ Apart(BufsOf(to_host, starts), BufsOf(to_slave, starts))
  /\ Apart(BufsOf(to_host, starts), host)
  /\ Apart(BufsOf(to_slave, starts), host)

ShownBufs == {p.buf : p \in {q \in display : q.life = starts}}

\* The pictures of the current life that the host uses are in busy buffers, those
\* that wait are held, and the one that has just come shares its buffer with none.
UsedInv ==
  LET q == BufsOf(queue, starts)
      c == BufOf(cur, starts)
      n == BufOf(isr, starts)
  IN  /\ ShownBufs \cup q \cup c \cup n \subseteq host
      /\ q \cup c \subseteq hold
      /\ OnceEach(queue, starts) /\ Apart(q, c)
      /\ Apart(n, q) /\ Apart(n, c) /\ Apart(n, ShownBufs)

\* The numbers go up from the picture shown last to the one sent last,
Line ==
  LET c == NumOf(cur)
      q == NumsOf(queue)
      n == NumOf(isr)
      h == NumsOf(to_host)
      w == NumsOf(waiting)
  IN  /\ Rising(queue) /\ Rising(to_host) /\ Rising(waiting)
      /\ Before({shown}, c \cup q \cup n \cup h \cup w)
      /\ Before(c, q \cup n \cup h \cup w) /\ Before(q, n \cup h \cup w)
      /\ Before(n, h \cup w) /\ Before(h, w)
      /\ Before(c \cup q \cup n \cup h \cup w \cup {shown}, {sent + 1})
      /\ \A p \in display : p.num <= shown

\* with none left out unless it was dropped.
Unseen == NumOf(cur) \cup NumsOf(queue) \cup NumOf(isr) \cup NumsOf(to_host) \cup NumsOf(waiting)

OrderInv == Line /\ (~dropped => shown + 1 .. sent \subseteq Unseen)

IInv ==
  /\ Typed /\ Lives
  /\ ~stale => OnePlaceInv
  /\ ~raced /\ ~stale /\ (kind = "live" \/ starts <= 1) => UsedInv
  /\ ~met => OrderInv

-----------------------------------------------------------------------------
(* Frames and types *)

SlaveStep == \/ PcivStart \/ PcivStarted \/ SrcPicSend \/ SrcPicSendDone \/ PcivStop
             \/ PcivStopWait \/ FreeShareBuf
HostStep == \/ Receive \/ BufTimer \/ VdecTimer \/ HostStart \/ HostStop \/ DisplayDone

LEMMA SlaveFrame ==
  ASSUME SlaveStep
  PROVE  /\ UNCHANGED <<started, can_recv, busy, isr, armed, scan, queue, nodes, hold, cur, vdec>>
         /\ UNCHANGED <<display, kind, life, host_starts, raced, met, shown>>
  BY DEF SlaveStep, PcivStart, PcivStarted, SrcPicSend, SrcPicSendDone, PcivStop, PcivStopWait,
         FreeShareBuf, timer, firmware, lives, faults

LEMMA HostFrame ==
  ASSUME HostStep
  PROVE  UNCHANGED <<sender, free, tasks, dma, sent, starts, stale, kind>>
  BY DEF HostStep, Receive, BufTimer, VdecTimer, HostStart, HostStop, DisplayDone,
         ReceivePic, RecvLive, RecvPlayback, RecvFail, FreeAllBuf,
         TimerFire, TimerLook, TimerRelease, VdecTake, VdecFrame, VdecSent, VdecRefused,
         slave, lives, faults

LEMMA Messages ==
  /\ Picture \subseteq Message /\ None \notin Message /\ None \notin Picture /\ None \notin Bufs
  /\ \A m \in Message : m.num \in Nat /\ m.life \in Nat
  /\ \A m \in Picture : m.num \in Nat /\ m.num > 0 /\ m.life \in Nat /\ m.life > 0 /\ m.buf \in Bufs /\ m.buf # None
  /\ \A m \in Message : m.buf # None => m \in Picture
<1>1. None \notin Message /\ None \notin Bufs /\ Picture \subseteq Message
  BY NoneAssumption DEF Message
<1>2. \A m \in Picture : m.num \in Nat /\ m.num > 0 /\ m.life \in Nat /\ m.life > 0 /\ m.buf \in Bufs
  BY DEF Picture
<1>3. \A m \in Message : m \in Picture \/ (m.buf = None /\ m.num = 0 /\ m.life \in Nat)
  BY DEF Message
<1>4. QED
  BY <1>1, <1>2, <1>3

\* What Typed says of the queues
LEMMA Queues ==
  ASSUME Typed
  PROVE  /\ to_host \in Seq(Message) /\ to_slave \in Seq(ReadDone)
         /\ tasks \in Seq(Picture) /\ dma \in Seq(Picture)
         /\ waiting \in Seq(Picture) /\ waiting \in Seq(Message)
         /\ queue \in Seq(Picture) /\ queue \in Seq(Message)
         /\ starts \in Nat /\ life \in Nat /\ life <= starts /\ sent \in Nat /\ shown \in Nat
         /\ life \in 0..MaxStarts
         /\ \A i \in DOMAIN to_host : to_host[i] \in Message
         /\ \A i \in DOMAIN waiting : waiting[i] \in Picture
         /\ \A i \in DOMAIN queue : queue[i] \in Picture
         /\ \A i \in DOMAIN to_slave : to_slave[i] \in ReadDone
<1>1. /\ to_host \in Seq(Message) /\ to_slave \in Seq(ReadDone)
      /\ tasks \in Seq(Picture) /\ dma \in Seq(Picture) /\ queue \in Seq(Picture)
  BY DEF Typed, SlaveTyped, LinkTyped, FirmwareTyped
<1>2. waiting \in Seq(Picture)
  BY <1>1, ConcatProperties DEF waiting
<1>3. waiting \in Seq(Message) /\ queue \in Seq(Message)
  <2>1. Picture \subseteq Message
    BY Messages
  <2>2. QED
    BY <1>1, <1>2, <2>1, SeqMonotonic
<1>4. /\ starts \in Nat /\ life \in Nat /\ life <= starts /\ sent \in Nat /\ shown \in Nat
      /\ life \in 0..MaxStarts
  <2>1. starts \in 0..MaxStarts /\ life \in 0..starts /\ sent \in 0..MaxPics /\ shown \in 0..MaxPics
    BY DEF Typed, HistoryTyped, SlaveTyped, FirmwareTyped
  <2>2. QED
    BY <2>1, ParamsAssumption
<1>5. \A S : \A s \in Seq(S) : \A i \in DOMAIN s : s[i] \in S
  BY LenProperties
<1>6. QED
  BY <1>1, <1>2, <1>3, <1>4, <1>5

\* A new task comes to the end of what waits, and DMA takes its head.
LEMMA WaitingQueue ==
  ASSUME Typed
  PROVE  /\ \A m \in Picture : dma \o Append(tasks, m) = Append(waiting, m)
         /\ dma # <<>> => waiting # <<>> /\ Head(waiting) = Head(dma) /\ Tail(waiting) = Tail(dma) \o tasks
<1>1. /\ tasks \in Seq(Picture) /\ dma \in Seq(Picture) /\ waiting \in Seq(Picture)
      /\ Len(dma) \in Nat /\ Len(tasks) \in Nat
      /\ Len(waiting) = Len(dma) + Len(tasks)
      /\ \A i \in 1 .. Len(dma) + Len(tasks) : waiting[i] = IF i <= Len(dma) THEN dma[i] ELSE tasks[i - Len(dma)]
  <2>1. tasks \in Seq(Picture) /\ dma \in Seq(Picture) /\ waiting \in Seq(Picture)
    BY Queues
  <2>2. QED
    BY <2>1, ConcatProperties, LenProperties DEF waiting
<1>2. ASSUME NEW m \in Picture
      PROVE  dma \o Append(tasks, m) = Append(waiting, m)
  <2> DEFINE t == Append(tasks, m)
             x == dma \o t
             y == Append(waiting, m)
  <2>1. /\ t \in Seq(Picture) /\ Len(t) = Len(tasks) + 1 /\ t[Len(tasks) + 1] = m
        /\ \A i \in 1..Len(tasks) : t[i] = tasks[i]
    BY <1>1, AppendProperties
  <2>2. /\ y \in Seq(Picture) /\ Len(y) = Len(waiting) + 1 /\ y[Len(waiting) + 1] = m
        /\ \A i \in 1..Len(waiting) : y[i] = waiting[i]
    BY <1>1, AppendProperties
  <2> HIDE DEF t, y
  <2>3. /\ x \in Seq(Picture) /\ Len(x) = Len(dma) + Len(t)
        /\ \A i \in 1 .. Len(dma) + Len(t) : x[i] = IF i <= Len(dma) THEN dma[i] ELSE t[i - Len(dma)]
    <3>1. dma \in Seq(Picture) /\ t \in Seq(Picture)
      BY <1>1, <2>1
    <3>2. QED
      BY ONLY <3>1, ConcatProperties
  <2> HIDE DEF x
  <2>4. Len(x) = Len(y)
    BY <1>1, <2>1, <2>2, <2>3
  <2>5. ASSUME NEW i \in 1..Len(x)
        PROVE  x[i] = y[i]
    <3>1. i \in 1 .. Len(dma) + Len(t) /\ i \in 1 .. Len(waiting) + 1
      BY <1>1, <2>1, <2>3, <2>5
    <3>2. CASE i <= Len(dma)
      <4>1. i \in 1 .. Len(dma) + Len(tasks) /\ i \in 1..Len(waiting)
        BY <1>1, <3>1, <3>2
      <4>2. QED
        BY <1>1, <2>2, <2>3, <3>1, <3>2, <4>1
    <3>3. CASE i > Len(dma) /\ i # Len(waiting) + 1
      <4>1. i - Len(dma) \in 1..Len(tasks) /\ i \in 1..Len(waiting) /\ ~(i <= Len(dma))
        <5>1. Len(dma) \in Nat /\ Len(tasks) \in Nat /\ Len(waiting) = Len(dma) + Len(tasks)
          BY <1>1
        <5>2. QED
          BY ONLY <5>1, <3>1, <3>3
      <4>2. x[i] = t[i - Len(dma)] /\ y[i] = waiting[i] /\ waiting[i] = tasks[i - Len(dma)]
        BY <1>1, <2>2, <2>3, <3>1, <4>1
      <4>3. QED
        BY <2>1, <4>1, <4>2
    <3>4. CASE i = Len(waiting) + 1
      <4>1. i - Len(dma) = Len(tasks) + 1 /\ ~(i <= Len(dma))
        BY <1>1, <3>4
      <4>2. QED
        BY <2>1, <2>2, <2>3, <3>1, <3>4, <4>1
    <3>5. QED
      BY <1>1, <3>1, <3>2, <3>3, <3>4
  <2>6. x = y
    BY ONLY <2>2, <2>3, <2>4, <2>5, SeqEqual
  <2>7. QED
    BY <2>6 DEF x, y, t
<1>3. ASSUME dma # <<>>
      PROVE  waiting # <<>> /\ Head(waiting) = Head(dma) /\ Tail(waiting) = Tail(dma) \o tasks
  <2> DEFINE t == Tail(dma)
             x == t \o tasks
             y == Tail(waiting)
  <2>1. /\ t \in Seq(Picture) /\ Len(t) = Len(dma) - 1 /\ Len(t) \in Nat
        /\ \A i \in 1..Len(t) : t[i] = dma[i + 1]
    BY <1>1, <1>3, HeadTailProperties, LenProperties
  <2>2. /\ x \in Seq(Picture) /\ Len(x) = Len(t) + Len(tasks)
        /\ \A i \in 1 .. Len(t) + Len(tasks) : x[i] = IF i <= Len(t) THEN t[i] ELSE tasks[i - Len(t)]
    BY <1>1, <2>1, ConcatProperties
  <2>3. waiting # <<>>
    BY <1>1, <2>1
  <2>4. /\ y \in Seq(Picture) /\ Len(y) = Len(waiting) - 1
        /\ \A i \in 1..Len(y) : y[i] = waiting[i + 1]
    BY <1>1, <2>3, HeadTailProperties
  <2>5. Head(waiting) = waiting[1] /\ Head(dma) = dma[1] /\ waiting[1] = dma[1]
    BY <1>1, <1>3, <2>1, <2>3
  <2> HIDE DEF t, x, y
  <2>6. Len(x) = Len(y)
    BY <1>1, <2>1, <2>2, <2>4
  <2>7. ASSUME NEW i \in 1..Len(x)
        PROVE  x[i] = y[i]
    <3>1. /\ i \in 1 .. Len(t) + Len(tasks) /\ i \in 1..Len(y)
          /\ i + 1 \in 1 .. Len(dma) + Len(tasks)
      BY <1>1, <2>1, <2>2, <2>6, <2>7
    <3>2. y[i] = waiting[i + 1]
      BY <2>4, <3>1
    <3>3. CASE i <= Len(t)
      <4>1. i \in 1..Len(t) /\ i + 1 <= Len(dma)
        BY <2>1, <3>1, <3>3
      <4>2. QED
        BY <1>1, <2>1, <2>2, <3>1, <3>2, <4>1
    <3>4. CASE ~(i <= Len(t))
      <4>1. i - Len(t) = (i + 1) - Len(dma) /\ ~(i + 1 <= Len(dma))
        BY <1>1, <2>1, <3>1, <3>4
      <4>2. QED
        BY <1>1, <2>2, <3>1, <3>2, <3>4, <4>1
    <3>5. QED
      BY <3>3, <3>4
  <2>8. x = y
    BY ONLY <2>2, <2>4, <2>6, <2>7, SeqEqual
  <2>9. QED
    BY <2>3, <2>5, <2>8 DEF x, y, t
<1>4. QED
  BY <1>2, <1>3

\* Tasks that a stop starts wait still, for their DMA.
LEMMA StopWaits ==
  ASSUME Typed, PcivStopWait
  PROVE  waiting' = waiting
<1>1. CASE tasks = <<>> /\ dma = <<>>
  BY <1>1 DEF PcivStopWait, waiting
<1>2. CASE ~(tasks = <<>> /\ dma = <<>>)
  <2>1. StartDma(tasks)
    BY <1>2 DEF PcivStopWait
  <2>2. tasks \in Seq(Picture) /\ dma \in Seq(Picture) /\ Len(dma) <= DmaDepth
    BY DEF Typed, SlaveTyped
  <2>3. QED
    BY ONLY <2>1, <2>2, Started DEF waiting
<1>3. QED
  BY <1>1, <1>2

\* The steps of the host that may give buffers back
Giving == TimerRelease \/ RecvLive \/ RecvPlayback \/ RecvFail \/ VdecSent

LEMMA GivenBack ==
  ASSUME Giving
  PROVE  /\ \E bufs \in SUBSET busy : GiveBack(bufs)
         /\ UNCHANGED <<to_host, started, can_recv, life, host_starts>>
<1>1. CASE TimerRelease
  BY <1>1 DEF TimerRelease, lives
<1>2. Scan => \E bufs \in SUBSET busy : GiveBack(bufs)
  BY DEF Scan
<1>3. CASE RecvLive
  BY <1>2, <1>3 DEF RecvLive, lives
<1>4. CASE RecvPlayback
  BY <1>2, <1>4 DEF RecvPlayback, lives
<1>5. CASE RecvFail
  BY <1>5 DEF RecvFail, lives
<1>6. CASE VdecSent
  BY <1>2, <1>6 DEF VdecSent, lives
<1>7. QED
  BY <1>1, <1>3, <1>4, <1>5, <1>6 DEF Giving

\* The other steps of the host, but for those that take a message
HostKeeps == \/ TimerFire \/ TimerLook \/ VdecTake \/ VdecFrame \/ VdecRefused
             \/ HostStart \/ HostStop \/ DisplayDone

LEMMA HostSteps == HostStep <=> Giving \/ HostKeeps \/ ReceivePic \/ FreeAllBuf
  BY DEF HostStep, Giving, HostKeeps, Receive, BufTimer, VdecTimer

LEMMA KeepsFrame ==
  ASSUME HostKeeps
  PROVE  UNCHANGED <<to_host, to_slave, busy, isr, life, raced, met, dropped, shown>>
  BY DEF HostKeeps, TimerFire, TimerLook, VdecTake, VdecFrame, VdecRefused, HostStart, HostStop,
         DisplayDone, lives, faults

LEMMA TakesFrame ==
  ASSUME ReceivePic \/ FreeAllBuf
  PROVE  UNCHANGED <<started, armed, scan, queue, nodes, hold, cur, vdec, display, host_starts,
                     raced, met, shown>>
  BY DEF ReceivePic, FreeAllBuf, timer, firmware, lives, faults

-----------------------------------------------------------------------------
(* The types are kept *)

LEMMA LinkTypedStep ==
  ASSUME Typed, Lives, SlaveStep \/ HostStep
  PROVE  LinkTyped'
<1>1. /\ to_host \in Seq(Message) /\ to_slave \in Seq(ReadDone) /\ dma \in Seq(Message)
      /\ busy \subseteq Bufs /\ life \in 0..MaxStarts
  <2>1. to_host \in Seq(Message) /\ to_slave \in Seq(ReadDone) /\ dma \in Seq(Picture)
    BY Queues
  <2>2. Picture \subseteq Message /\ busy \subseteq Bufs /\ life \in 0..MaxStarts
    BY Messages, Queues DEF Typed, HostTyped
  <2>3. QED
    BY <2>1, <2>2, SeqMonotonic
<1>2. CASE PcivStart
  <2>1. starts' \in 1..MaxStarts
    BY <1>2, Queues, ParamsAssumption DEF PcivStart
  <2>2. [buf |-> None, num |-> 0, life |-> starts'] \in Message
    BY <2>1 DEF Message
  <2>3. QED
    BY <1>1, <1>2, <2>2, AppendProperties DEF PcivStart, LinkTyped
<1>3. CASE SrcPicSendDone
  <2>1. Head(dma) \in Message
    BY <1>1, <1>3, HeadTailProperties DEF SrcPicSendDone
  <2>2. Append(to_host, Head(dma)) \in Seq(Message)
    BY <1>1, <2>1, AppendProperties
  <2>3. QED
    BY <1>1, <1>3, <2>2 DEF SrcPicSendDone, LinkTyped
<1>4. CASE FreeShareBuf
  <2>1. Tail(to_slave) \in Seq(ReadDone)
    BY <1>1, <1>4, HeadTailProperties DEF FreeShareBuf
  <2>2. QED
    BY <1>1, <1>4, <2>1 DEF FreeShareBuf, LinkTyped
<1>5. CASE PcivStarted \/ SrcPicSend \/ PcivStop \/ PcivStopWait
  BY <1>1, <1>5 DEF PcivStarted, SrcPicSend, PcivStop, PcivStopWait, LinkTyped
<1>6. CASE ReceivePic
  <2>1. to_host # <<>> /\ Head(to_host).buf # None /\ to_host' = Tail(to_host)
    BY <1>6 DEF ReceivePic
  <2>2. Head(to_host) \in Picture /\ Tail(to_host) \in Seq(Message)
    BY <1>1, <2>1, HeadTailProperties, Messages
  <2>3. [buf |-> Head(to_host).buf, life |-> life] \in ReadDone
    BY <1>1, <2>2, Messages DEF ReadDone
  <2>4. Append(to_slave, [buf |-> Head(to_host).buf, life |-> life]) \in Seq(ReadDone)
    BY <1>1, <2>3, AppendProperties
  <2>5. QED
    BY <1>1, <1>6, <2>1, <2>2, <2>4 DEF ReceivePic, LinkTyped
<1>7. CASE FreeAllBuf
  <2>1. Tail(to_host) \in Seq(Message)
    BY <1>1, <1>7, HeadTailProperties DEF FreeAllBuf
  <2>2. QED
    BY <1>1, <1>7, <2>1 DEF FreeAllBuf, LinkTyped
<1>8. CASE Giving
  <2>1. PICK bufs \in SUBSET busy : GiveBack(bufs)
    BY <1>8, GivenBack
  <2>2. to_slave' \in Seq(ReadDone)
    BY <1>1, <2>1, Returned
  <2>3. QED
    BY <1>1, <1>8, <2>2, GivenBack DEF LinkTyped
<1>9. CASE HostKeeps
  BY <1>1, <1>9, KeepsFrame DEF LinkTyped
<1>10. QED
  BY <1>2, <1>3, <1>4, <1>5, <1>6, <1>7, <1>8, <1>9, HostSteps DEF SlaveStep

\* What the slave sends is a picture of the current life in a buffer that was free.
LEMMA NewTask ==
  ASSUME Typed, Lives, SrcPicSend
  PROVE  \E m \in Picture :
           /\ m.buf \in free /\ m.num = sent + 1 /\ m.life = starts /\ free' = free \ {m.buf}
           /\ dma' \in Seq(Picture) /\ tasks' \in Seq(Picture) /\ Len(dma') <= DmaDepth
           /\ waiting' = Append(waiting, m)
<1> DEFINE b == CHOOSE i \in free : \A j \in free : i <= j
           m == [buf |-> b, num |-> sent + 1, life |-> starts]
<1>1. free # {} /\ free \subseteq Bufs /\ sent \in 0..MaxPics /\ sent < MaxPics
  BY DEF SrcPicSend, Typed, SlaveTyped
<1>2. b \in free
  <2>1. Bufs \subseteq Nat
    BY ParamsAssumption DEF Bufs
  <2>2. \E i \in free : \A j \in free : i <= j
    BY <1>1, <2>1, SmallestNat
  <2>3. QED
    BY <2>2
<1> HIDE DEF b
<1>3. starts \in 1..MaxStarts
  <2>1. starts \in 0..MaxStarts /\ starts > 0
    BY DEF SrcPicSend, Lives, SlaveLives, Typed, HistoryTyped
  <2>2. QED
    BY <2>1, ParamsAssumption
<1>4. sent + 1 \in 1..MaxPics
  BY <1>1, ParamsAssumption
<1>5. m \in Picture
  BY <1>1, <1>2, <1>3, <1>4 DEF Picture
<1>6. StartDma(Append(tasks, m)) /\ free' = free \ {b}
  BY DEF SrcPicSend, b
<1>7. dma \in Seq(Picture) /\ Len(dma) <= DmaDepth /\ tasks \in Seq(Picture)
  BY DEF Typed, SlaveTyped
<1> HIDE DEF m
<1>8. Append(tasks, m) \in Seq(Picture)
  BY <1>5, <1>7, AppendProperties
<1>9. /\ dma' \in Seq(Picture) /\ tasks' \in Seq(Picture) /\ Len(dma') <= DmaDepth
      /\ dma' \o tasks' = dma \o Append(tasks, m)
  BY ONLY <1>6, <1>7, <1>8, Started
<1>10. waiting' = Append(waiting, m)
  BY <1>5, <1>9, WaitingQueue DEF waiting
<1>11. m.buf = b /\ m.num = sent + 1 /\ m.life = starts
  BY DEF m
<1>12. QED
  BY <1>2, <1>5, <1>6, <1>9, <1>10, <1>11

LEMMA SlaveTypedStep ==
  ASSUME Typed, Lives, SlaveStep \/ HostStep
  PROVE  SlaveTyped'
<1>1. /\ sender \in {"stopped", "starting", "started", "stopping"} /\ free \subseteq Bufs
      /\ tasks \in Seq(Picture) /\ dma \in Seq(Picture) /\ Len(dma) <= DmaDepth
      /\ sent \in 0..MaxPics /\ to_slave \in Seq(ReadDone)
  BY DEF Typed, SlaveTyped, LinkTyped
<1>2. CASE PcivStart \/ PcivStarted \/ PcivStop
  BY <1>1, <1>2 DEF PcivStart, PcivStarted, PcivStop, SlaveTyped
<1>3. CASE SrcPicSend
  <2>1. sent' \in 0..MaxPics
    BY <1>1, <1>3, ParamsAssumption DEF SrcPicSend
  <2>2. sender' \in {"stopped", "starting", "started", "stopping"}
    BY <1>1, <1>3 DEF SrcPicSend
  <2>3. free' \subseteq Bufs /\ dma' \in Seq(Picture) /\ tasks' \in Seq(Picture) /\ Len(dma') <= DmaDepth
    BY <1>1, <1>3, NewTask
  <2>4. QED
    BY <2>1, <2>2, <2>3 DEF SlaveTyped
<1>4. CASE SrcPicSendDone
  <2>1. dma # <<>> /\ dma' = Tail(dma)
    BY <1>4 DEF SrcPicSendDone
  <2>2. Head(dma) \in Picture /\ dma' \in Seq(Picture) /\ Len(dma') = Len(dma) - 1
    BY <1>1, <2>1, HeadTailProperties
  <2>3. Len(dma') <= DmaDepth
    BY <1>1, <2>2, LenProperties, ParamsAssumption
  <2>4. free' \subseteq Bufs
    BY <1>1, <1>4, <2>2, Messages DEF SrcPicSendDone
  <2>5. QED
    BY <1>1, <1>4, <2>2, <2>3, <2>4 DEF SrcPicSendDone, SlaveTyped
<1>5. CASE PcivStopWait
  <2>1. CASE tasks = <<>> /\ dma = <<>>
    BY <1>1, <1>5, <2>1 DEF PcivStopWait, SlaveTyped
  <2>2. CASE ~(tasks = <<>> /\ dma = <<>>)
    <3>1. StartDma(tasks)
      BY <1>5, <2>2 DEF PcivStopWait
    <3>2. dma' \in Seq(Picture) /\ tasks' \in Seq(Picture) /\ Len(dma') <= DmaDepth
      BY ONLY <1>1, <3>1, Started
    <3>3. QED
      BY <1>1, <1>5, <2>2, <3>2 DEF PcivStopWait, SlaveTyped
  <2>3. QED
    BY <2>1, <2>2
<1>6. CASE FreeShareBuf
  <2>1. Head(to_slave) \in ReadDone
    BY <1>1, <1>6, HeadTailProperties DEF FreeShareBuf
  <2>2. free' \subseteq Bufs
    BY <1>1, <1>6, <2>1 DEF FreeShareBuf, ReadDone
  <2>3. QED
    BY <1>1, <1>6, <2>2 DEF FreeShareBuf, SlaveTyped
<1>7. CASE HostStep
  BY <1>1, <1>7, HostFrame DEF SlaveTyped
<1>8. QED
  BY <1>2, <1>3, <1>4, <1>5, <1>6, <1>7 DEF SlaveStep

LEMMA HostTypedStep ==
  ASSUME Typed, Lives, SlaveStep \/ HostStep
  PROVE  HostTyped'
<1>1. /\ started \in BOOLEAN /\ can_recv \in BOOLEAN /\ armed \in BOOLEAN
      /\ busy \subseteq Bufs /\ isr \in Picture \cup {None}
      /\ scan \in [at : Bufs, hit : BOOLEAN, release : BOOLEAN] \cup {None}
      /\ to_host \in Seq(Message)
  BY DEF Typed, HostTyped, LinkTyped
<1>2. CASE SlaveStep
  BY <1>1, <1>2, SlaveFrame DEF HostTyped
<1>3. CASE ReceivePic
  <2>1. Head(to_host) \in Picture
    BY <1>1, <1>3, HeadTailProperties, Messages DEF ReceivePic
  <2>2. busy' \subseteq Bufs /\ isr' \in Picture \cup {None}
    BY <1>1, <1>3, <2>1, Messages DEF ReceivePic
  <2>3. QED
    BY <1>1, <1>3, <2>2, TakesFrame DEF ReceivePic, HostTyped
<1>4. CASE FreeAllBuf
  BY <1>1, <1>4, TakesFrame DEF FreeAllBuf, HostTyped
<1>5. ASSUME scan # None, NEW hit \in BOOLEAN, TimerNext(hit)
      PROVE  armed' \in BOOLEAN /\ scan' \in [at : Bufs, hit : BOOLEAN, release : BOOLEAN] \cup {None}
  <2>1. scan.at < NumBufs => scan.at + 1 \in Bufs
    BY <1>1, <1>5, ParamsAssumption DEF Bufs
  <2>2. CASE scan.at < NumBufs
    <3>1. scan' = [at |-> scan.at + 1, hit |-> hit, release |-> FALSE] /\ armed' = armed
      BY <1>5, <2>2 DEF TimerNext
    <3>2. QED
      BY <1>1, <1>5, <2>1, <2>2, <3>1
  <2>3. CASE ~(scan.at < NumBufs)
    BY <1>1, <1>5, <2>3 DEF TimerNext
  <2>4. QED
    BY <2>2, <2>3
<1>6. CASE HostKeeps
  <2>1. busy' \subseteq Bufs /\ isr' \in Picture \cup {None}
    BY <1>1, <1>6, KeepsFrame
  <2>2. started' \in BOOLEAN /\ can_recv' \in BOOLEAN
    BY <1>1, <1>6 DEF HostKeeps, TimerFire, TimerLook, VdecTake, VdecFrame, VdecRefused, HostStart,
                      HostStop, DisplayDone
  <2>3. CASE TimerFire
    <3>1. 1 \in Bufs
      BY ParamsAssumption DEF Bufs
    <3>2. QED
      BY <2>1, <2>2, <2>3, <3>1 DEF TimerFire, HostTyped
  <2>4. CASE TimerLook
    <3>1. CASE CanRelease(scan.at, display, hold)
      BY <1>1, <2>1, <2>2, <2>4, <3>1 DEF TimerLook, HostTyped
    <3>2. CASE ~CanRelease(scan.at, display, hold)
      <4>1. scan # None /\ TimerNext(scan.hit) /\ scan.hit \in BOOLEAN
        BY <1>1, <2>4, <3>2 DEF TimerLook
      <4>2. QED
        BY <1>5, <2>1, <2>2, <4>1 DEF HostTyped
    <3>3. QED
      BY <3>1, <3>2
  <2>5. CASE ~TimerFire /\ ~TimerLook
    BY <1>1, <1>6, <2>1, <2>2, <2>5
       DEF HostKeeps, VdecTake, VdecFrame, VdecRefused, HostStart, HostStop, DisplayDone, HostTyped,
           timer
  <2>6. QED
    BY <2>3, <2>4, <2>5
<1>7. CASE Giving
  <2>1. busy' \subseteq Bufs
    <3>1. PICK bufs \in SUBSET busy : GiveBack(bufs)
      BY <1>7, GivenBack
    <3>2. QED
      BY <1>1, <3>1 DEF GiveBack
  <2>2. started' \in BOOLEAN /\ can_recv' \in BOOLEAN
    BY <1>1, <1>7, GivenBack
  <2>3. isr' \in Picture \cup {None}
    BY <1>1, <1>7 DEF Giving, TimerRelease, RecvLive, RecvPlayback, RecvFail, VdecSent
  <2>4. CASE TimerRelease
    <3>1. scan # None /\ TimerNext(scan.hit \/ scan.at \in busy) /\ (scan.hit \/ scan.at \in busy) \in BOOLEAN
      BY <1>1, <2>4 DEF TimerRelease
    <3>2. armed' \in BOOLEAN /\ scan' \in [at : Bufs, hit : BOOLEAN, release : BOOLEAN] \cup {None}
      BY <1>5, <3>1
    <3>3. QED
      BY <2>1, <2>2, <2>3, <3>2 DEF HostTyped
  <2>5. CASE ~TimerRelease
    <3>1. Scan => armed' \in BOOLEAN
      BY <1>1 DEF Scan
    <3>2. armed' \in BOOLEAN
      BY <1>1, <1>7, <2>5, <3>1 DEF Giving, RecvLive, RecvPlayback, RecvFail, VdecSent, timer
    <3>3. scan' = scan
      BY <1>7, <2>5 DEF Giving, RecvLive, RecvPlayback, RecvFail, VdecSent, timer
    <3>4. QED
      BY <1>1, <2>1, <2>2, <2>3, <3>2, <3>3 DEF HostTyped
  <2>6. QED
    BY <2>4, <2>5
<1>8. QED
  BY <1>2, <1>3, <1>4, <1>6, <1>7, HostSteps

\* The queue and the picture that comes after it, of which k are shown.
arrived == Append(queue, isr)

LEMMA Arrived ==
  ASSUME Typed, isr # None
  PROVE  /\ isr \in Picture /\ arrived \in Seq(Picture) /\ arrived \in Seq(Message)
         /\ Len(queue) \in Nat /\ Len(arrived) = Len(queue) + 1
         /\ \A i \in 1..Len(arrived) : arrived[i] \in Picture
<1>1. isr \in Picture /\ queue \in Seq(Picture)
  BY DEF Typed, HostTyped, FirmwareTyped
<1>2. arrived \in Seq(Picture) /\ Len(arrived) = Len(queue) + 1 /\ Len(queue) \in Nat
  BY <1>1, AppendProperties, LenProperties DEF arrived
<1>3. Picture \subseteq Message
  BY Messages
<1>4. QED
  BY <1>1, <1>2, <1>3, SeqMonotonic, ElementOfSeq

LEMMA Refused ==
  ASSUME Typed, isr # None, NEW k \in 0..Len(arrived),
         queue' = SubSeq(arrived, k + 1, Len(arrived))
  PROVE  /\ queue' \in Seq(Picture) /\ Len(queue') = Len(queue) + 1 - k
         /\ DOMAIN queue' = 1..Len(queue')
         /\ \A i \in 1..Len(queue') : k + i \in 1..Len(arrived) /\ queue'[i] = arrived[k + i]
<1>1. /\ Len(queue) \in Nat /\ Len(arrived) = Len(queue) + 1
      /\ \A i \in k + 1 .. Len(arrived) : arrived[i] \in Picture
  BY Arrived
<1>2. k + 1 \in Int /\ Len(arrived) \in Int
  BY <1>1
<1> DEFINE a == k + 1
           z == Len(arrived)
           q == SubSeq(arrived, a, z)
<1>3. /\ q \in Seq(Picture) /\ Len(q) = (IF a <= z THEN z - a + 1 ELSE 0)
      /\ \A i \in 1 .. z - a + 1 : q[i] = arrived[a + i - 1]
  BY <1>1, <1>2, SubSeqProperties
<1> HIDE DEF q
<1>4. Len(q) = Len(queue) + 1 - k /\ \A i \in 1..Len(q) : k + i \in 1..z /\ a + i - 1 = k + i
  BY <1>1, <1>3
<1>5. \A i \in 1..Len(q) : q[i] = arrived[k + i]
  BY <1>1, <1>3, <1>4
<1>6. DOMAIN q = 1..Len(q)
  BY <1>3, LenProperties
<1>7. queue' = q
  BY DEF q
<1>8. QED
  BY <1>3, <1>4, <1>5, <1>6, <1>7

LEMMA FirmwareTypedStep ==
  ASSUME Typed, Lives, SlaveStep \/ HostStep
  PROVE  FirmwareTyped'
<1>1. /\ queue \in Seq(Picture) /\ cur \in Picture \cup {None} /\ Len(queue) \in Nat
      /\ nodes \in Nat /\ nodes + Len(queue) + (IF cur = None THEN 0 ELSE 1) <= NumBufs
      /\ hold \subseteq Bufs /\ vdec \in {"idle", "frame", "send"}
      /\ display \subseteq Picture /\ shown \in 0..MaxPics
      /\ kind = "live" => queue = <<>> /\ cur = None
      /\ vdec = "idle" => cur = None
      /\ isr \in Picture \cup {None} /\ NumBufs \in Nat
  BY LenProperties, ParamsAssumption DEF Typed, FirmwareTyped, HostTyped
<1>2. kind' = kind
  BY SlaveFrame, HostFrame
<1>3. \A m \in Picture : m.num \in 0..MaxPics /\ m.buf \in Bufs
  BY ParamsAssumption DEF Picture
<1>4. CASE UNCHANGED <<queue, nodes, hold, cur, vdec, display, shown>>
  BY <1>1, <1>2, <1>4 DEF FirmwareTyped
<1>5. CASE RecvLive
  <2>1. display' \subseteq Picture /\ shown' \in 0..MaxPics
    BY <1>1, <1>3, <1>5 DEF RecvLive
  <2>2. UNCHANGED <<queue, nodes, hold, cur, vdec>>
    BY <1>5 DEF RecvLive, firmware
  <2>3. QED
    BY <1>1, <1>2, <2>1, <2>2 DEF FirmwareTyped
<1>6. CASE RecvPlayback
  <2>1. PICK k \in 0..Len(arrived) :
          /\ nodes > 0 \/ (queue = <<>> /\ k = 1)
          /\ Offer(arrived, k)
    BY <1>6 DEF RecvPlayback, arrived
  <2>2. /\ isr # None /\ vdec' = vdec /\ cur' = (IF queue = <<>> THEN cur ELSE None)
        /\ kind = "playback"
    BY <1>6 DEF RecvPlayback
  <2>3. /\ Len(arrived) = Len(queue) + 1 /\ \A i \in 1..Len(arrived) : arrived[i] \in Picture
        /\ isr \in Picture
    BY <2>2, Arrived
  <2>4. queue' = SubSeq(arrived, k + 1, Len(arrived))
    BY <2>1 DEF Offer
  <2>5. queue' \in Seq(Picture) /\ Len(queue') = Len(queue) + 1 - k
    BY <2>2, <2>4, Refused
  <2>6. nodes' = nodes + k + Len(queue) - Len(arrived)
    BY <2>1 DEF Offer
  <2>7. nodes' \in Nat /\ nodes' + Len(queue') = nodes + Len(queue)
    <3>1. nodes' = nodes + k - 1 /\ k \in Nat
      BY <1>1, <2>3, <2>6
    <3>2. nodes > 0 \/ k = 1
      BY <2>1
    <3>3. QED
      BY <1>1, <2>5, <3>1, <3>2
  <2>8. nodes' + Len(queue') + (IF cur' = None THEN 0 ELSE 1) <= NumBufs
    BY <1>1, <2>2, <2>7
  <2>9. hold' \subseteq Bufs
    BY <1>1, <1>3, <2>1, <2>3 DEF Offer
  <2>10. display' \subseteq Picture /\ shown' \in 0..MaxPics
    <3>1. \A i \in 1..k : i \in 1..Len(arrived)
      BY <1>1, <2>1, <2>3
    <3>2. display' = display \cup {arrived[i] : i \in 1..k} /\ shown' = IF k = 0 THEN shown ELSE arrived[k].num
      BY <2>1 DEF Offer
    <3>3. k = 0 \/ k \in 1..k
      BY <2>1, <2>3, <1>1
    <3>4. QED
      BY <1>1, <1>3, <2>3, <3>1, <3>2, <3>3
  <2>11. cur' \in Picture \cup {None} /\ vdec' \in {"idle", "frame", "send"}
         /\ (vdec' = "idle" => cur' = None) /\ kind' # "live"
    BY <1>1, <1>2, <2>2
  <2>12. QED
    BY <2>5, <2>7, <2>8, <2>9, <2>10, <2>11 DEF FirmwareTyped
<1>7. CASE RecvFail
  <2>1. hold' \subseteq Bufs /\ UNCHANGED <<queue, nodes, cur, vdec, display, shown>>
    BY <1>1, <1>3, <1>7 DEF RecvFail
  <2>2. QED
    BY <1>1, <1>2, <2>1 DEF FirmwareTyped
<1>8. CASE VdecTake
  <2>1. /\ queue # <<>> /\ cur' = Head(queue) /\ queue' = Tail(queue) /\ vdec' = "frame"
        /\ UNCHANGED <<nodes, hold, display, shown>>
    BY <1>8 DEF VdecTake
  <2>2. Head(queue) \in Picture /\ Tail(queue) \in Seq(Picture) /\ Len(Tail(queue)) = Len(queue) - 1
    BY <1>1, <2>1, HeadTailProperties
  <2>3. nodes' + Len(queue') + (IF cur' = None THEN 0 ELSE 1) <= NumBufs
    BY <1>1, <2>1, <2>2, Messages
  <2>4. kind' # "live"
    BY <1>1, <1>2, <2>1
  <2>5. QED
    BY <1>1, <2>1, <2>2, <2>3, <2>4 DEF FirmwareTyped
<1>9. CASE VdecFrame
  <2>1. UNCHANGED <<queue, nodes, hold, cur, display, shown>> /\ vdec' = IF cur = None THEN "idle" ELSE "send"
    BY <1>9 DEF VdecFrame
  <2>2. vdec' \in {"idle", "frame", "send"} /\ (vdec' = "idle" => cur' = None)
    BY <2>1
  <2>3. QED
    BY <1>1, <1>2, <2>1, <2>2 DEF FirmwareTyped
<1>10. CASE VdecSent
  <2>1. /\ cur # None /\ vdec' = "idle" /\ cur' = None /\ nodes' = nodes + 1 /\ hold' = hold \ {cur.buf}
        /\ display' = display \cup {cur} /\ shown' = cur.num /\ queue' = queue
    BY <1>10 DEF VdecSent
  <2>2. nodes' \in Nat /\ nodes' + Len(queue') + (IF cur' = None THEN 0 ELSE 1) <= NumBufs
    BY <1>1, <2>1
  <2>3. display' \subseteq Picture /\ shown' \in 0..MaxPics /\ hold' \subseteq Bufs
    BY <1>1, <1>3, <2>1
  <2>4. QED
    BY <1>1, <1>2, <2>1, <2>2, <2>3 DEF FirmwareTyped
<1>11. CASE VdecRefused
  <2>1. /\ cur # None /\ vdec' = "idle" /\ cur' = None /\ queue' = <<cur>> \o queue
        /\ UNCHANGED <<nodes, hold, display, shown>>
    BY <1>11 DEF VdecRefused, Again
  <2>2. queue' \in Seq(Picture) /\ Len(queue') = Len(queue) + 1
    BY <1>1, <2>1, PutHead DEF Heads
  <2>3. nodes' + Len(queue') + (IF cur' = None THEN 0 ELSE 1) <= NumBufs
    BY <1>1, <2>1, <2>2
  <2>4. kind' # "live"
    BY <1>1, <1>2, <2>1
  <2>5. QED
    BY <1>1, <2>1, <2>2, <2>3, <2>4 DEF FirmwareTyped
<1>12. CASE DisplayDone
  <2>1. display' \subseteq display /\ UNCHANGED <<queue, nodes, hold, cur, vdec, shown>>
    BY <1>12 DEF DisplayDone, firmware
  <2>2. QED
    BY <1>1, <1>2, <2>1 DEF FirmwareTyped
<1>13. CASE \/ SlaveStep \/ ReceivePic \/ FreeAllBuf \/ TimerFire \/ TimerLook \/ TimerRelease
            \/ HostStart \/ HostStop
  <2>1. CASE SlaveStep \/ ReceivePic \/ FreeAllBuf
    BY <1>4, <2>1, SlaveFrame, TakesFrame
  <2>2. CASE TimerFire \/ TimerLook \/ TimerRelease \/ HostStart \/ HostStop
    BY <1>4, <2>2 DEF TimerFire, TimerLook, TimerRelease, HostStart, HostStop, firmware
  <2>3. QED
    BY <1>13, <2>1, <2>2
<1>14. QED
  BY <1>5, <1>6, <1>7, <1>8, <1>9, <1>10, <1>11, <1>12, <1>13, HostSteps DEF Giving, HostKeeps

LEMMA HistoryTypedStep ==
  ASSUME Typed, Lives, SlaveStep \/ HostStep
  PROVE  HistoryTyped'
<1>1. /\ starts \in 0..MaxStarts /\ life \in 0..starts /\ host_starts \in 0..MaxHostStarts
      /\ kind \in Kinds
      /\ stale \in BOOLEAN /\ raced \in BOOLEAN /\ met \in BOOLEAN /\ dropped \in BOOLEAN
  BY DEF Typed, HistoryTyped
<1>2. kind' = kind
  BY SlaveFrame, HostFrame
<1>3. stale' \in BOOLEAN
  BY <1>1, HostFrame
     DEF SlaveStep, PcivStart, PcivStarted, SrcPicSend, SrcPicSendDone, PcivStop, PcivStopWait,
         FreeShareBuf, faults
<1>4. raced' \in BOOLEAN
  <2>1. Scan => raced' \in BOOLEAN
    BY <1>1 DEF Scan
  <2>2. QED
    BY <1>1, <2>1, SlaveFrame, TakesFrame, KeepsFrame, HostSteps
       DEF Giving, TimerRelease, RecvLive, RecvPlayback, RecvFail, VdecSent
<1>5. met' \in BOOLEAN
  BY <1>1, SlaveFrame, TakesFrame, KeepsFrame, HostSteps
     DEF Giving, TimerRelease, RecvLive, RecvPlayback, RecvFail, VdecSent
<1>6. dropped' \in BOOLEAN
  <2>1. CASE SlaveStep
    BY <1>1, <2>1 DEF SlaveStep, PcivStart, PcivStarted, SrcPicSend, SrcPicSendDone, PcivStop,
                      PcivStopWait, FreeShareBuf, faults
  <2>2. CASE ReceivePic \/ FreeAllBuf
    BY <1>1, <2>2 DEF ReceivePic, FreeAllBuf, faults
  <2>3. CASE Giving
    BY <1>1, <2>3 DEF Giving, TimerRelease, RecvLive, RecvPlayback, RecvFail, VdecSent
  <2>4. QED
    BY <1>1, <2>1, <2>2, <2>3, KeepsFrame, HostSteps
<1>7. starts' \in 0..MaxStarts /\ starts' >= starts
  <2>1. CASE PcivStart
    BY <1>1, <2>1, ParamsAssumption DEF PcivStart
  <2>2. CASE ~PcivStart
    <3>1. starts' = starts
      BY <2>2, HostFrame DEF SlaveStep, PcivStarted, SrcPicSend, SrcPicSendDone, PcivStop, PcivStopWait,
                             FreeShareBuf, lives
    <3>2. QED
      BY <1>1, <3>1, ParamsAssumption
  <2>3. QED
    BY <2>1, <2>2
<1>8. life' \in 0..starts'
  <2>1. CASE FreeAllBuf
    <3>1. to_host # <<>> /\ life' = Head(to_host).life /\ starts' = starts
      BY <2>1, HostFrame, HostSteps DEF FreeAllBuf
    <3>2. 1 \in DOMAIN to_host /\ to_host[1] = Head(to_host) /\ Head(to_host) \in Message
      BY <3>1, TakeHead, Queues
    <3>3. Head(to_host).life \in Nat /\ Head(to_host).life <= starts
      BY <3>2, Messages DEF Lives, HostLives
    <3>4. QED
      BY <1>1, <3>1, <3>3, ParamsAssumption
  <2>2. CASE ~FreeAllBuf
    <3>1. life' = life
      BY <2>2, SlaveFrame, GivenBack, KeepsFrame, HostSteps DEF ReceivePic, lives
    <3>2. QED
      BY <1>1, <1>7, <3>1, ParamsAssumption
  <2>3. QED
    BY <2>1, <2>2
<1>9. host_starts' \in 0..MaxHostStarts
  <2>1. CASE HostStart
    BY <1>1, <2>1, ParamsAssumption DEF HostStart
  <2>2. CASE HostKeeps /\ ~HostStart
    BY <1>1, <2>2 DEF HostKeeps, TimerFire, TimerLook, VdecTake, VdecFrame, VdecRefused, HostStop,
                      DisplayDone, lives
  <2>3. QED
    BY <1>1, <2>1, <2>2, SlaveFrame, TakesFrame, GivenBack, HostSteps
<1>10. QED
  BY <1>1, <1>2, <1>3, <1>4, <1>5, <1>6, <1>7, <1>8, <1>9 DEF HistoryTyped

LEMMA TypedStep ==
  ASSUME Typed, Lives, SlaveStep \/ HostStep
  PROVE  Typed'
  BY SlaveTypedStep, LinkTypedStep, HostTypedStep, FirmwareTypedStep, HistoryTypedStep DEF Typed

-----------------------------------------------------------------------------
(* The lives of the channel *)

LEMMA SlaveLivesStep ==
  ASSUME Typed, Lives, SlaveStep \/ HostStep
  PROVE  SlaveLives'
<1>1. SlaveLives /\ starts \in Nat
  BY Queues DEF Lives
<1>2. CASE PcivStart
  <2>1. tasks' = <<>> /\ dma' = <<>> /\ sender' = "starting" /\ starts' = starts + 1
    BY <1>1, <1>2 DEF PcivStart, SlaveLives
  <2>2. waiting' = <<>>
    BY <2>1 DEF waiting
  <2>3. starts' > 0
    BY <1>1, <2>1
  <2>4. QED
    BY <2>1, <2>2, <2>3, Empty DEF SlaveLives
<1>3. CASE PcivStarted \/ PcivStop \/ FreeShareBuf \/ HostStep
  <2>1. UNCHANGED <<tasks, dma, starts>>
    BY <1>3, HostFrame DEF PcivStarted, PcivStop, FreeShareBuf, lives
  <2>2. sender' \in {"stopped", "starting"} => sender' = sender
    BY <1>3, HostFrame DEF PcivStarted, PcivStop, FreeShareBuf
  <2>3. sender' # "stopped" => sender # "stopped"
    BY <1>3, HostFrame DEF PcivStarted, PcivStop, FreeShareBuf
  <2>4. QED
    BY <1>1, <2>1, <2>2, <2>3 DEF SlaveLives, waiting
<1>4. CASE SrcPicSend
  <2>1. PICK m \in Picture : m.life = starts /\ waiting' = Append(waiting, m)
    BY <1>4, NewTask
  <2>2. sender = "started" /\ sender' = sender /\ starts' = starts
    BY <1>4 DEF SrcPicSend, lives
  <2>3. waiting \in Seq(Picture)
    BY Queues
  <2>4. \A i \in DOMAIN waiting' : (i \in DOMAIN waiting /\ waiting'[i] = waiting[i]) \/ waiting'[i] = m
    BY <2>1, <2>3, Appended
  <2>5. QED
    BY <1>1, <2>1, <2>2, <2>4 DEF SlaveLives
<1>5. CASE SrcPicSendDone
  <2>1. dma # <<>> /\ dma' = Tail(dma) /\ tasks' = tasks /\ sender' = sender /\ starts' = starts
    BY <1>5 DEF SrcPicSendDone, lives
  <2>2. waiting # <<>> /\ waiting' = Tail(waiting) /\ waiting \in Seq(Picture)
    BY <2>1, WaitingQueue, Queues DEF waiting
  <2>3. \A i \in DOMAIN waiting' : i + 1 \in DOMAIN waiting /\ waiting'[i] = waiting[i + 1]
    BY <2>2, TakeHead
  <2>4. sender \notin {"stopped", "starting"}
    BY <1>1, <2>1 DEF SlaveLives
  <2>5. QED
    BY <1>1, <2>1, <2>3, <2>4 DEF SlaveLives
<1>6. CASE PcivStopWait
  <2>1. sender = "stopping" /\ starts' = starts
    BY <1>6 DEF PcivStopWait, lives
  <2>2. CASE tasks = <<>> /\ dma = <<>>
    BY <1>1, <1>6, <2>1, <2>2 DEF PcivStopWait, SlaveLives, waiting
  <2>3. CASE ~(tasks = <<>> /\ dma = <<>>)
    <3>1. sender' = sender /\ waiting' = waiting
      BY <1>6, <2>3, StopWaits DEF PcivStopWait
    <3>2. QED
      BY <1>1, <2>1, <3>1 DEF SlaveLives
  <2>4. QED
    BY <2>2, <2>3
<1>7. QED
  BY <1>2, <1>3, <1>4, <1>5, <1>6 DEF SlaveStep

\* A message taken from the line to the host
LEMMA HostLivesTail ==
  ASSUME Typed, HostLives, to_host # <<>>, to_host' = Tail(to_host), starts' = starts,
         IF Head(to_host).buf = None THEN life' = Head(to_host).life ELSE life' = life
  PROVE  HostLives'
<1>1. /\ to_host \in Seq(Message) /\ starts \in Nat /\ life \in Nat
      /\ \A i \in DOMAIN to_host : to_host[i] \in Message
  BY Queues
<1>2. /\ 1 \in DOMAIN to_host /\ to_host[1] = Head(to_host)
      /\ \A i \in DOMAIN to_host' : i + 1 \in DOMAIN to_host /\ to_host'[i] = to_host[i + 1] /\ 1 < i + 1
      /\ to_host' \in Seq(Message)
  BY <1>1, TakeHead
<1>3. \A i \in DOMAIN to_host : to_host[i].life \in Nat
  BY <1>1, Messages
<1>4. \A i \in DOMAIN to_host : i = 1 \/ (i - 1 \in DOMAIN to_host' /\ to_host'[i - 1] = to_host[i])
  <2>1. /\ DOMAIN to_host = 1..Len(to_host) /\ DOMAIN to_host' = 1..Len(to_host')
        /\ Len(to_host') = Len(to_host) - 1 /\ Len(to_host) \in Nat
    BY <1>1, <1>2, LenProperties, HeadTailProperties
  <2>2. \A i \in DOMAIN to_host : i = 1 \/ (i - 1 \in DOMAIN to_host' /\ (i - 1) + 1 = i)
    BY <2>1
  <2>3. QED
    BY <1>2, <2>2
<1>5. \A i, j \in DOMAIN to_host' : i < j => i + 1 < j + 1
  BY <1>2, LenProperties
<1>6. /\ life <= life' /\ (life' = life \/ (Head(to_host).buf = None /\ life' = Head(to_host).life))
      /\ life' \in Nat
  BY <1>1, <1>2, <1>3 DEF HostLives
<1>7. ASSUME NEW i \in DOMAIN to_host'
      PROVE  /\ life' <= to_host'[i].life /\ to_host'[i].life <= starts'
             /\ to_host'[i].buf = None => life' < to_host'[i].life
  <2>1. CASE life' = life
    BY <1>2, <1>7, <2>1 DEF HostLives
  <2>2. CASE life' = Head(to_host).life
    BY <1>2, <1>7, <2>2 DEF HostLives
  <2>3. QED
    BY <1>6, <2>1, <2>2
<1>8. ASSUME NEW i \in DOMAIN to_host', NEW j \in DOMAIN to_host', i < j
      PROVE  /\ to_host'[i].life <= to_host'[j].life
             /\ to_host'[j].buf = None => to_host'[i].life < to_host'[j].life
  BY <1>2, <1>5, <1>8 DEF HostLives
<1>9. ASSUME life' < starts'
      PROVE  \E i \in DOMAIN to_host' : to_host'[i].buf = None /\ to_host'[i].life = starts'
  <2>1. life < starts
    BY <1>1, <1>6, <1>9
  <2>2. PICK i \in DOMAIN to_host : to_host[i].buf = None /\ to_host[i].life = starts
    BY <2>1 DEF HostLives
  <2>3. i # 1
    BY <1>1, <1>2, <1>9, <2>2
  <2>4. QED
    BY <1>4, <2>2, <2>3
<1>10. QED
  BY <1>7, <1>8, <1>9 DEF HostLives

\* A message that is sent to the host: a picture of the current life, or a FREE of
\* the next.
LEMMA HostLivesAppend ==
  ASSUME Typed, HostLives, NEW m \in Message, to_host' = Append(to_host, m), life' = life,
         m.life = starts', IF m.buf = None THEN starts' = starts + 1 ELSE starts' = starts
  PROVE  HostLives'
<1> DEFINE n == Len(to_host) + 1
<1>1. /\ to_host \in Seq(Message) /\ starts \in Nat /\ life \in Nat /\ life <= starts
      /\ \A i \in DOMAIN to_host : to_host[i] \in Message
  BY Queues
<1>2. /\ n \in DOMAIN to_host' /\ to_host'[n] = m
      /\ \A i \in DOMAIN to_host : i \in DOMAIN to_host' /\ to_host'[i] = to_host[i] /\ i < n
      /\ \A i \in DOMAIN to_host' : i \in DOMAIN to_host \/ i = n
  BY <1>1, Appended
<1> HIDE DEF n
<1>3. \A i \in DOMAIN to_host : to_host[i].life \in Nat /\ to_host[i].life <= starts
  BY <1>1, Messages DEF HostLives
<1>4. starts <= starts' /\ starts' \in Nat /\ (m.buf = None => starts < starts')
  BY <1>1
<1>5. ASSUME NEW i \in DOMAIN to_host'
      PROVE  /\ life' <= to_host'[i].life /\ to_host'[i].life <= starts'
             /\ to_host'[i].buf = None => life' < to_host'[i].life
  <2>1. CASE i \in DOMAIN to_host
    BY <1>1, <1>2, <1>3, <1>4, <2>1 DEF HostLives
  <2>2. CASE i = n
    BY <1>1, <1>2, <1>4, <2>2
  <2>3. QED
    BY <1>2, <2>1, <2>2
<1>6. ASSUME NEW i \in DOMAIN to_host', NEW j \in DOMAIN to_host', i < j
      PROVE  /\ to_host'[i].life <= to_host'[j].life
             /\ to_host'[j].buf = None => to_host'[i].life < to_host'[j].life
  <2>1. i \in DOMAIN to_host
    <3>1. j \in Int /\ i \in Int /\ n \in Int /\ j <= n
      <4>1. to_host' \in Seq(Message) /\ Len(to_host') = n /\ Len(to_host) \in Nat
        BY <1>1, AppendProperties, LenProperties DEF n
      <4>2. DOMAIN to_host' = 1..n
        BY <4>1, LenProperties
      <4>3. QED
        BY <4>1, <4>2 DEF n
    <3>2. i # n
      BY <1>6, <3>1
    <3>3. QED
      BY <1>2, <3>2
  <2>2. CASE j \in DOMAIN to_host
    BY <1>2, <1>6, <2>1, <2>2 DEF HostLives
  <2>3. CASE j = n
    BY <1>2, <1>3, <1>4, <2>1, <2>3, <1>1
  <2>4. QED
    BY <1>2, <2>2, <2>3
<1>7. ASSUME life' < starts'
      PROVE  \E i \in DOMAIN to_host' : to_host'[i].buf = None /\ to_host'[i].life = starts'
  <2>1. CASE m.buf = None
    BY <1>2, <2>1
  <2>2. CASE m.buf # None
    <3>1. PICK i \in DOMAIN to_host : to_host[i].buf = None /\ to_host[i].life = starts
      BY <1>7, <2>2 DEF HostLives
    <3>2. QED
      BY <1>2, <2>2, <3>1
  <2>3. QED
    BY <2>1, <2>2
<1>8. QED
  BY <1>5, <1>6, <1>7 DEF HostLives

LEMMA HostLivesStep ==
  ASSUME Typed, Lives, SlaveStep \/ HostStep
  PROVE  HostLives'
<1>1. HostLives /\ SlaveLives /\ to_host \in Seq(Message)
  BY Queues DEF Lives
<1>2. CASE UNCHANGED <<to_host, life, starts>>
  BY <1>1, <1>2 DEF HostLives
<1>3. CASE PcivStart
  <2>1. starts' = starts + 1 /\ starts' \in 1..MaxStarts /\ life' = life
    BY <1>3, SlaveFrame, Queues, ParamsAssumption DEF PcivStart, SlaveStep
  <2> DEFINE m == [buf |-> None, num |-> 0, life |-> starts']
  <2>2. m \in Message /\ m.buf = None /\ m.life = starts'
    BY <2>1 DEF Message
  <2>3. to_host' = Append(to_host, m)
    BY <1>3 DEF PcivStart
  <2> HIDE DEF m
  <2>4. QED
    BY <1>1, <2>1, <2>2, <2>3, HostLivesAppend
<1>4. CASE SrcPicSendDone
  <2>1. starts' = starts /\ life' = life /\ dma # <<>>
    BY <1>4 DEF SrcPicSendDone, lives
  <2>2. CASE to_host' = to_host
    BY <1>2, <2>1, <2>2
  <2>3. CASE to_host' = Append(to_host, Head(dma))
    <3>1. waiting # <<>> /\ Head(waiting) = Head(dma) /\ waiting \in Seq(Picture)
      BY <2>1, WaitingQueue, Queues
    <3>2. Head(dma) \in Picture /\ Head(dma).life = starts
      BY <1>1, <3>1, TakeHead DEF SlaveLives
    <3>3. Head(dma) \in Message /\ Head(dma).buf # None
      BY <3>2, Messages
    <3>4. QED
      BY <1>1, <2>1, <2>3, <3>2, <3>3, HostLivesAppend
  <2>4. QED
    BY <1>4, <2>2, <2>3 DEF SrcPicSendDone
<1>5. CASE ReceivePic
  <2>1. to_host # <<>> /\ to_host' = Tail(to_host) /\ Head(to_host).buf # None /\ starts' = starts /\ life' = life
    BY <1>5 DEF ReceivePic, lives
  <2>2. QED
    BY <1>1, <2>1, HostLivesTail
<1>6. CASE FreeAllBuf
  <2>1. to_host # <<>> /\ to_host' = Tail(to_host) /\ Head(to_host).buf = None /\ starts' = starts
        /\ life' = Head(to_host).life
    BY <1>6 DEF FreeAllBuf
  <2>2. QED
    BY <1>1, <2>1, HostLivesTail
<1>7. CASE PcivStarted \/ SrcPicSend \/ PcivStop \/ PcivStopWait \/ FreeShareBuf
  BY <1>2, <1>7 DEF PcivStarted, SrcPicSend, PcivStop, PcivStopWait, FreeShareBuf, lives
<1>8. CASE Giving \/ HostKeeps
  BY <1>2, <1>8, GivenBack, KeepsFrame, HostFrame, HostSteps
<1>9. QED
  BY <1>3, <1>4, <1>5, <1>6, <1>7, <1>8, HostSteps DEF SlaveStep

LEMMA BackLivesStep ==
  ASSUME Typed, Lives, SlaveStep \/ HostStep
  PROVE  BackLives'
<1>1. /\ BackLives /\ HostLives /\ to_slave \in Seq(ReadDone) /\ to_host \in Seq(Message)
      /\ life \in Nat /\ life \in 0..MaxStarts
      /\ \A i \in DOMAIN to_slave : to_slave[i] \in ReadDone
  BY Queues DEF Lives
<1>2. CASE UNCHANGED <<to_slave, life>>
  BY <1>1, <1>2 DEF BackLives
<1>3. CASE FreeShareBuf
  <2>1. to_slave # <<>> /\ to_slave' = Tail(to_slave) /\ life' = life
    BY <1>3 DEF FreeShareBuf, lives
  <2>2. QED
    BY <1>1, <2>1, TakeHead DEF BackLives
<1>4. CASE PcivStart \/ PcivStarted \/ SrcPicSend \/ SrcPicSendDone \/ PcivStop \/ PcivStopWait
  BY <1>2, <1>4 DEF PcivStart, PcivStarted, SrcPicSend, SrcPicSendDone, PcivStop, PcivStopWait, lives
<1>5. CASE ReceivePic
  <2>1. CASE to_slave' = to_slave
    BY <1>2, <1>5, <2>1 DEF ReceivePic, lives
  <2>2. CASE to_slave' = Append(to_slave, [buf |-> Head(to_host).buf, life |-> life])
    <3> DEFINE m == [buf |-> Head(to_host).buf, life |-> life]
    <3>1. Head(to_host) \in Picture
      BY <1>1, <1>5, TakeHead, Messages DEF ReceivePic
    <3>2. m \in ReadDone /\ m.life = life /\ life' = life
      BY <1>1, <1>5, <3>1, Messages DEF ReadDone, ReceivePic, lives
    <3> HIDE DEF m
    <3>3. to_slave' = Append(to_slave, m)
      BY <2>2 DEF m
    <3>4. QED
      BY <1>1, <3>2, <3>3, Appended DEF BackLives
  <2>3. QED
    BY <1>5, <2>1, <2>2 DEF ReceivePic
<1>6. CASE FreeAllBuf
  <2>1. to_host # <<>> /\ life' = Head(to_host).life /\ to_slave' = to_slave
    BY <1>6 DEF FreeAllBuf
  <2>2. 1 \in DOMAIN to_host /\ to_host[1] = Head(to_host) /\ Head(to_host) \in Message
    BY <1>1, <2>1, TakeHead
  <2>3. life <= life' /\ life' \in Nat
    BY <1>1, <2>1, <2>2, Messages DEF HostLives
  <2>4. \A i \in DOMAIN to_slave : to_slave[i].life \in Int
    BY <1>1, ParamsAssumption DEF ReadDone
  <2>5. QED
    BY <1>1, <2>1, <2>3, <2>4 DEF BackLives
<1>7. CASE Giving
  <2>1. PICK bufs \in SUBSET busy : GiveBack(bufs)
    BY <1>7, GivenBack
  <2>2. bufs \in SUBSET Bufs /\ life' = life
    BY <1>7, GivenBack DEF Typed, HostTyped
  <2>3. \A i \in DOMAIN to_slave' :
          to_slave'[i].life = life \/ \E j \in DOMAIN to_slave : to_slave'[i] = to_slave[j]
    BY <1>1, <2>1, <2>2, Returned
  <2>4. QED
    BY <1>1, <2>2, <2>3 DEF BackLives
<1>8. CASE HostKeeps
  BY <1>2, <1>8, KeepsFrame
<1>9. QED
  BY <1>3, <1>4, <1>5, <1>6, <1>7, <1>8, HostSteps DEF SlaveStep

\* Each picture that arrives was in the queue or is the one that has just come.
LEMMA ArrivedFrom ==
  ASSUME Typed, isr # None
  PROVE  /\ arrived[Len(queue) + 1] = isr
         /\ \A i \in 1..Len(arrived) :
              (i \in DOMAIN queue /\ arrived[i] = queue[i]) \/ (i = Len(queue) + 1 /\ arrived[i] = isr)
<1>1. isr \in Picture /\ queue \in Seq(Picture)
  BY DEF Typed, HostTyped, FirmwareTyped
<1>2. /\ DOMAIN queue = 1..Len(queue) /\ Len(arrived) = Len(queue) + 1 /\ Len(queue) \in Nat
      /\ arrived[Len(queue) + 1] = isr /\ \A i \in 1..Len(queue) : arrived[i] = queue[i]
  BY <1>1, AppendProperties, LenProperties DEF arrived
<1>3. QED
  BY <1>2

\* What the host uses is not made by it.
LEMMA UsedStep ==
  ASSUME Typed, Lives, SlaveStep \/ HostStep
  PROVE  \A p \in Used' : p \in Used \/ (to_host # <<>> /\ p = Head(to_host))
<1>1. queue \in Seq(Picture) /\ isr \in Picture \cup {None} /\ cur \in Picture \cup {None}
  BY DEF Typed, HostTyped, FirmwareTyped
<1>2. \A p : p \in Used <=> \/ p \in display \/ \E i \in DOMAIN queue : p = queue[i]
                            \/ (p # None /\ (p = isr \/ p = cur))
  BY DEF Used, Range
<1>3. \A p : p \in Used' <=> \/ p \in display' \/ \E i \in DOMAIN queue' : p = queue'[i]
                             \/ (p # None /\ (p = isr' \/ p = cur'))
  BY DEF Used, Range
<1>4. CASE UNCHANGED <<display, queue, isr, cur>>
  BY <1>2, <1>3, <1>4
<1>5. CASE ReceivePic
  <2>1. display' = display /\ queue' = queue /\ cur' = cur
    BY <1>5, TakesFrame
  <2>2. to_host # <<>> /\ (isr' = isr \/ isr' = Head(to_host))
    BY <1>5 DEF ReceivePic
  <2>3. QED
    BY <1>2, <1>3, <2>1, <2>2
<1>6. CASE RecvLive
  BY <1>2, <1>3, <1>6 DEF RecvLive, firmware
<1>7. CASE RecvPlayback
  <2>1. isr # None /\ isr' = None /\ (cur' = cur \/ cur' = None)
    BY <1>7 DEF RecvPlayback
  <2>2. PICK k \in 0..Len(arrived) : Offer(arrived, k)
    BY <1>7 DEF RecvPlayback, arrived
  <2>3. /\ queue' = SubSeq(arrived, k + 1, Len(arrived))
        /\ display' = display \cup {arrived[i] : i \in 1..k}
    BY <2>2 DEF Offer
  <2>4. \A i \in 1..Len(arrived) : arrived[i] \in Used
    BY <1>2, <2>1, ArrivedFrom
  <2>5. \A i \in DOMAIN queue' : k + i \in 1..Len(arrived) /\ queue'[i] = arrived[k + i]
    BY <2>1, <2>3, Refused
  <2>6. \A i \in 1..k : i \in 1..Len(arrived)
    BY <2>1, Arrived
  <2>7. QED
    BY <1>2, <1>3, <2>1, <2>3, <2>4, <2>5, <2>6
<1>8. CASE RecvFail
  BY <1>2, <1>3, <1>8 DEF RecvFail
<1>9. CASE VdecTake
  <2>1. queue # <<>> /\ cur' = Head(queue) /\ queue' = Tail(queue) /\ UNCHANGED <<isr, display>>
    BY <1>9 DEF VdecTake
  <2>2. /\ 1 \in DOMAIN queue /\ queue[1] = Head(queue)
        /\ \A i \in DOMAIN Tail(queue) : i + 1 \in DOMAIN queue /\ Tail(queue)[i] = queue[i + 1]
    BY <1>1, <2>1, TakeHead
  <2>3. QED
    BY <1>2, <1>3, <2>1, <2>2
<1>10. CASE VdecSent
  BY <1>2, <1>3, <1>10 DEF VdecSent
<1>11. CASE VdecRefused
  <2>1. cur # None /\ cur' = None /\ queue' = <<cur>> \o queue /\ UNCHANGED <<isr, display>>
    BY <1>11 DEF VdecRefused, Again
  <2>2. queue' \in Seq(Picture) /\ Heads(queue', cur, queue)
    BY <1>1, <2>1, PutHead
  <2>3. \A i \in DOMAIN queue' : queue'[i] = cur \/ (i - 1 \in DOMAIN queue /\ queue'[i] = queue[i - 1])
    <3>1. /\ DOMAIN queue' = 1..Len(queue') /\ DOMAIN queue = 1..Len(queue) /\ Len(queue) \in Nat
          /\ Len(queue') = Len(queue) + 1 /\ queue'[1] = cur
          /\ \A i \in 1..Len(queue) : queue'[i + 1] = queue[i]
      BY <1>1, <2>2, LenProperties DEF Heads
    <3>2. QED
      BY ONLY <3>1
  <2>4. QED
    BY <1>2, <1>3, <2>1, <2>3
<1>12. CASE DisplayDone
  BY <1>2, <1>3, <1>12 DEF DisplayDone, firmware
<1>13. CASE \/ SlaveStep \/ FreeAllBuf \/ TimerFire \/ TimerLook \/ TimerRelease \/ VdecFrame
            \/ HostStart \/ HostStop
  <2>1. CASE SlaveStep
    BY <1>4, <2>1, SlaveFrame
  <2>2. CASE FreeAllBuf \/ TimerFire \/ TimerLook \/ TimerRelease \/ VdecFrame \/ HostStart \/ HostStop
    BY <1>4, <2>2 DEF FreeAllBuf, TimerFire, TimerLook, TimerRelease, VdecFrame, HostStart, HostStop,
                      firmware
  <2>3. QED
    BY <1>13, <2>1, <2>2
<1>14. QED
  BY <1>5, <1>6, <1>7, <1>8, <1>9, <1>10, <1>11, <1>12, <1>13, HostSteps DEF Giving, HostKeeps

LEMMA UsedLivesStep ==
  ASSUME Typed, Lives, SlaveStep \/ HostStep
  PROVE  UsedLives'
<1>1. /\ UsedLives /\ HostLives /\ to_host \in Seq(Message) /\ starts \in Nat
  BY Queues DEF Lives
<1>2. starts' \in Nat /\ starts <= starts'
  <2>1. CASE PcivStart
    BY <1>1, <2>1 DEF PcivStart
  <2>2. CASE ~PcivStart
    <3>1. starts' = starts
      BY <2>2, HostFrame DEF SlaveStep, PcivStarted, SrcPicSend, SrcPicSendDone, PcivStop, PcivStopWait,
                             FreeShareBuf, lives
    <3>2. QED
      BY <1>1, <3>1
  <2>3. QED
    BY <2>1, <2>2
<1>3. to_host # <<>> => Head(to_host).life <= starts /\ Head(to_host).life \in Nat
  BY <1>1, TakeHead, Messages DEF HostLives
<1>4. \A p \in Used : p.life \in Nat
  <2>1. Used \subseteq Picture
    BY Queues DEF Used, Range, Typed, HostTyped, FirmwareTyped
  <2>2. QED
    BY <2>1, Messages
<1>5. QED
  BY <1>1, <1>2, <1>3, <1>4, UsedStep DEF UsedLives

LEMMA IncomingLivesStep ==
  ASSUME Typed, Lives, SlaveStep \/ HostStep
  PROVE  IncomingLives'
<1>1. /\ IncomingLives /\ HostLives /\ to_host \in Seq(Message)
      /\ starts \in Nat /\ life \in Nat /\ life <= starts
  BY Queues DEF Lives
<1>2. CASE SlaveStep
  <2>1. isr' = isr /\ life' = life
    BY <1>2, SlaveFrame
  <2>2. CASE PcivStart
    BY <1>1, <2>1, <2>2 DEF PcivStart, IncomingLives
  <2>3. CASE ~PcivStart
    <3>1. starts' = starts
      BY <1>2, <2>3 DEF SlaveStep, PcivStarted, SrcPicSend, SrcPicSendDone, PcivStop, PcivStopWait,
                        FreeShareBuf, lives
    <3>2. QED
      BY <1>1, <2>1, <3>1 DEF IncomingLives
  <2>4. QED
    BY <2>2, <2>3
<1>3. CASE ReceivePic
  <2>1. to_host # <<>> /\ (isr' = Head(to_host) \/ isr' = isr) /\ life' = life /\ starts' = starts
    BY <1>3 DEF ReceivePic, lives
  <2>2. life <= Head(to_host).life /\ Head(to_host).life <= starts /\ Head(to_host).life \in Nat
    BY <1>1, <2>1, TakeHead, Messages DEF HostLives
  <2>3. life = starts => Head(to_host).life = starts
    BY <1>1, <2>2
  <2>4. QED
    BY <1>1, <2>1, <2>3 DEF IncomingLives
<1>4. CASE FreeAllBuf
  BY <1>4 DEF FreeAllBuf, IncomingLives
<1>5. CASE Giving
  <2>1. isr' = isr \/ isr' = None
    BY <1>5 DEF Giving, TimerRelease, RecvLive, RecvPlayback, RecvFail, VdecSent
  <2>2. QED
    BY <1>1, <1>5, <2>1, GivenBack, HostFrame, HostSteps DEF IncomingLives
<1>6. CASE HostKeeps
  BY <1>1, <1>6, KeepsFrame, HostFrame, HostSteps DEF IncomingLives
<1>7. QED
  BY <1>2, <1>3, <1>4, <1>5, <1>6, HostSteps

LEMMA LivesStep ==
  ASSUME Typed, Lives, SlaveStep \/ HostStep
  PROVE  Lives'
  BY SlaveLivesStep, HostLivesStep, BackLivesStep, UsedLivesStep, IncomingLivesStep DEF Lives

-----------------------------------------------------------------------------
(* Each buffer of the current life is at one place *)

LEMMA NoNone == None \notin ReadDone /\ None \notin Picture /\ None \notin Message
  BY NoneAssumption DEF Message

\* A buffer goes from one place to another.
LEMMA OnePlaceSlave ==
  ASSUME Typed, Lives, OnePlaceInv, ~stale', SlaveStep
  PROVE  OnePlaceInv'
<1>1. /\ waiting \in Seq(Picture) /\ to_host \in Seq(Message) /\ to_slave \in Seq(ReadDone)
      /\ starts \in Nat /\ life \in Nat /\ life <= starts
      /\ \A i \in DOMAIN waiting : waiting[i].life = starts
      /\ busy' = busy /\ life' = life
  BY Queues, SlaveFrame DEF Lives, SlaveLives
<1>2. CASE PcivStart
  <2> DEFINE m == [buf |-> None, num |-> 0, life |-> starts']
  <2>1. /\ tasks' = <<>> /\ dma' = <<>> /\ to_slave' = to_slave /\ free' = Bufs
        /\ to_host' = Append(to_host, m)
        /\ starts' = starts + 1 /\ starts' \in 1..MaxStarts
    BY <1>1, <1>2, ParamsAssumption DEF PcivStart, Lives, SlaveLives
  <2>2. m \in Message /\ m.buf = None
    BY <2>1 DEF Message
  <2> HIDE DEF m
  <2>3. waiting' = <<>>
    BY <2>1 DEF waiting
  <2>4. BufsOf(waiting', starts') = {} /\ OnceEach(waiting', starts')
    BY <2>3, Empty
  <2>5. \A i \in DOMAIN to_host : to_host[i].life # starts'
    BY <1>1, <2>1, Messages, Queues DEF Lives, HostLives
  <2>6. \A i \in DOMAIN to_slave : to_slave[i].life # starts'
    BY <1>1, <2>1, Queues DEF Lives, BackLives, ReadDone
  <2>7. BufsOf(to_host, starts') = {} /\ OnceEach(to_host, starts')
    BY <2>5, Nothing
  <2>8. BufsOf(to_slave', starts') = {} /\ OnceEach(to_slave', starts')
    BY <2>1, <2>6, Nothing
  <2>9. /\ BufsOf(to_host', starts') = BufsOf(to_host, starts') \cup BufOf(m, starts')
        /\ OnceEach(to_host', starts') <=> OnceEach(to_host, starts') /\ Apart(BufsOf(to_host, starts'), BufOf(m, starts'))
    BY <1>1, <2>1, <2>2, NoNone, AtEnd
  <2>10. BufsOf(to_host', starts') \subseteq {None} /\ OnceEach(to_host', starts')
    BY <2>2, <2>7, <2>9 DEF BufOf, Apart
  <2>11. host' = {} /\ None \notin free'
    BY <1>1, <2>1, Messages DEF host
  <2>12. QED
    BY <2>4, <2>8, <2>10, <2>11 DEF OnePlaceInv, Apart
<1>3. CASE PcivStarted \/ PcivStop
  <2>1. UNCHANGED <<free, tasks, dma, to_host, to_slave, starts>>
    BY <1>3 DEF PcivStarted, PcivStop, lives
  <2>2. QED
    BY <1>1, <2>1 DEF OnePlaceInv, host, waiting
<1>4. CASE SrcPicSend
  <2>1. PICK m \in Picture : /\ m.buf \in free /\ m.life = starts /\ free' = free \ {m.buf}
                             /\ waiting' = Append(waiting, m)
    BY <1>4, NewTask
  <2>2. to_host' = to_host /\ to_slave' = to_slave /\ starts' = starts
    BY <1>4 DEF SrcPicSend, lives
  <2>3. /\ BufsOf(waiting', starts) = BufsOf(waiting, starts) \cup BufOf(m, starts)
        /\ OnceEach(waiting', starts) <=> OnceEach(waiting, starts) /\ Apart(BufsOf(waiting, starts), BufOf(m, starts))
    BY <1>1, <2>1, NoNone, AtEnd
  <2>4. BufOf(m, starts) = {m.buf}
    BY <2>1, NoNone DEF BufOf
  <2>5. host' = host
    BY <1>1, <2>2 DEF host
  <2>6. OnceEach(waiting', starts)
    BY <2>1, <2>3, <2>4 DEF OnePlaceInv, Apart
  <2>7. QED
    BY <2>1, <2>2, <2>3, <2>4, <2>5, <2>6 DEF OnePlaceInv, Apart
<1>5. CASE SrcPicSendDone
  <2> DEFINE m == Head(dma)
  <2>1. /\ dma # <<>> /\ dma' = Tail(dma) /\ tasks' = tasks /\ to_slave' = to_slave /\ starts' = starts
        /\ \/ to_host' = Append(to_host, m) /\ free' = free
           \/ to_host' = to_host /\ free' = free \cup {m.buf}
    BY <1>5 DEF SrcPicSendDone, lives
  <2>2. /\ waiting # <<>> /\ Head(waiting) = m /\ waiting' = Tail(waiting)
    BY <2>1, WaitingQueue DEF waiting
  <2> HIDE DEF m
  <2>3. m \in Picture /\ m \in Message /\ m.life = starts /\ waiting' \in Seq(Picture) /\ Heads(waiting, m, waiting')
    BY <1>1, <2>2, TakeHead, Messages
  <2>4. /\ BufsOf(waiting, starts) = BufOf(m, starts) \cup BufsOf(waiting', starts)
        /\ OnceEach(waiting, starts) <=> OnceEach(waiting', starts) /\ Apart(BufOf(m, starts), BufsOf(waiting', starts))
    BY <1>1, <2>3, NoNone, InFront
  <2>5. BufOf(m, starts) = {m.buf}
    BY <2>3, NoNone DEF BufOf
  <2>6. host' = host
    BY <1>1, <2>1 DEF host
  <2>7. OnceEach(waiting', starts) /\ m.buf \notin BufsOf(waiting', starts)
    BY <2>4, <2>5 DEF OnePlaceInv, Apart
  <2>8. CASE to_host' = Append(to_host, m) /\ free' = free
    <3>1. /\ BufsOf(to_host', starts) = BufsOf(to_host, starts) \cup BufOf(m, starts)
          /\ OnceEach(to_host', starts) <=> OnceEach(to_host, starts) /\ Apart(BufsOf(to_host, starts), BufOf(m, starts))
      BY <1>1, <2>3, <2>8, NoNone, AtEnd
    <3>2. OnceEach(to_host', starts)
      BY <2>4, <2>5, <3>1 DEF OnePlaceInv, Apart
    <3>3. QED
      BY <2>1, <2>4, <2>5, <2>6, <2>7, <2>8, <3>1, <3>2 DEF OnePlaceInv, Apart
  <2>9. CASE to_host' = to_host /\ free' = free \cup {m.buf}
    BY <2>1, <2>4, <2>5, <2>6, <2>7, <2>9 DEF OnePlaceInv, Apart
  <2>10. QED
    BY <2>1, <2>8, <2>9
<1>6. CASE PcivStopWait
  <2>1. free' = free /\ to_host' = to_host /\ to_slave' = to_slave /\ starts' = starts
    BY <1>6 DEF PcivStopWait, lives
  <2>2. waiting' = waiting
    BY <1>6, StopWaits
  <2>3. QED
    BY <1>1, <2>1, <2>2 DEF OnePlaceInv, host
<1>7. CASE FreeShareBuf
  <2> DEFINE m == Head(to_slave)
  <2>1. /\ to_slave # <<>> /\ to_slave' = Tail(to_slave)
        /\ tasks' = tasks /\ dma' = dma /\ to_host' = to_host /\ starts' = starts
        /\ free' = free \/ (free' = free \cup {m.buf} /\ m.life = starts)
    BY <1>7 DEF FreeShareBuf, lives
  <2>2. m \in ReadDone /\ to_slave' \in Seq(ReadDone) /\ Heads(to_slave, m, to_slave')
    BY <1>1, <2>1, TakeHead
  <2> HIDE DEF m
  <2>3. /\ BufsOf(to_slave, starts) = BufOf(m, starts) \cup BufsOf(to_slave', starts)
        /\ OnceEach(to_slave, starts) <=> OnceEach(to_slave', starts) /\ Apart(BufOf(m, starts), BufsOf(to_slave', starts))
    BY <1>1, <2>2, NoNone, InFront
  <2>4. m.life = starts => BufOf(m, starts) = {m.buf}
    BY <2>2, NoNone DEF BufOf
  <2>5. host' = host /\ waiting' = waiting
    BY <1>1, <2>1 DEF host, waiting
  <2>6. CASE free' = free
    BY <2>1, <2>3, <2>5, <2>6 DEF OnePlaceInv, Apart
  <2>7. CASE free' = free \cup {m.buf} /\ m.life = starts
    BY <2>1, <2>3, <2>4, <2>5, <2>7 DEF OnePlaceInv, Apart
  <2>8. QED
    BY <2>1, <2>6, <2>7
<1>8. QED
  BY <1>2, <1>3, <1>4, <1>5, <1>6, <1>7 DEF SlaveStep

LEMMA OnePlaceHost ==
  ASSUME Typed, Lives, OnePlaceInv, HostStep
  PROVE  OnePlaceInv'
<1>1. /\ waiting \in Seq(Picture) /\ to_host \in Seq(Message) /\ to_slave \in Seq(ReadDone)
      /\ starts \in Nat /\ life \in Nat /\ life <= starts /\ life \in 0..MaxStarts
      /\ waiting' = waiting /\ free' = free /\ starts' = starts
  BY Queues, HostFrame DEF waiting
<1>2. CASE HostKeeps
  BY <1>1, <1>2, KeepsFrame DEF OnePlaceInv, host
<1>3. CASE ReceivePic \/ FreeAllBuf
  <2> DEFINE m == Head(to_host)
  <2>1. to_host # <<>> /\ to_host' = Tail(to_host)
    BY <1>3 DEF ReceivePic, FreeAllBuf
  <2>2. /\ m \in Message /\ to_host' \in Seq(Message) /\ Heads(to_host, m, to_host')
        /\ 1 \in DOMAIN to_host /\ to_host[1] = m
    BY <1>1, <2>1, TakeHead
  <2>3. life <= m.life /\ m.life <= starts /\ m.life \in Nat
    BY <2>2, Messages DEF Lives, HostLives
  <2>4. CASE FreeAllBuf
    <3>1. busy' = {} /\ to_slave' = to_slave
      BY <2>4 DEF FreeAllBuf
    <3> HIDE DEF m
    <3>2. /\ BufsOf(to_host, starts) = BufOf(m, starts) \cup BufsOf(to_host', starts)
          /\ OnceEach(to_host, starts) <=> OnceEach(to_host', starts) /\ Apart(BufOf(m, starts), BufsOf(to_host', starts))
      BY <1>1, <2>2, NoNone, InFront
    <3>3. host' = {}
      BY <3>1 DEF host
    <3>4. QED
      BY <1>1, <3>1, <3>2, <3>3 DEF OnePlaceInv, Apart
  <2>5. CASE ReceivePic
    <3> DEFINE r == [buf |-> m.buf, life |-> life]
    <3>1. /\ m.buf # None /\ life' = life
          /\ \/ busy' = busy \cup {m.buf} /\ to_slave' = to_slave
             \/ busy' = busy \ {m.buf} /\ to_slave' = Append(to_slave, r)
      BY <2>5 DEF ReceivePic, lives
    <3>2. m \in Picture /\ r \in ReadDone /\ r.buf = m.buf /\ r.life = life
      BY <1>1, <2>2, <3>1, Messages DEF ReadDone
    <3> HIDE DEF m, r
    <3>3. /\ BufsOf(to_host, starts) = BufOf(m, starts) \cup BufsOf(to_host', starts)
          /\ OnceEach(to_host, starts) <=> OnceEach(to_host', starts) /\ Apart(BufOf(m, starts), BufsOf(to_host', starts))
      BY <1>1, <2>2, NoNone, InFront
    <3>4. life = starts => m.life = starts
      BY <1>1, <2>3
    <3>5. BufOf(m, starts) = IF m.life = starts THEN {m.buf} ELSE {}
      BY <3>2, NoNone DEF BufOf
    <3>6. OnceEach(to_host', starts)
      BY <3>3 DEF OnePlaceInv
    <3>7. m.life = starts => m.buf \notin BufsOf(to_host', starts)
      BY <3>3, <3>5 DEF OnePlaceInv, Apart
    <3>8. CASE busy' = busy \cup {m.buf} /\ to_slave' = to_slave
      <4>1. host' \subseteq host \cup BufOf(m, starts)
        BY <1>1, <3>1, <3>4, <3>5, <3>8 DEF host
      <4>2. QED
        BY <1>1, <3>3, <3>5, <3>6, <3>7, <3>8, <4>1 DEF OnePlaceInv, Apart
    <3>9. CASE busy' = busy \ {m.buf} /\ to_slave' = Append(to_slave, r)
      <4>1. /\ BufsOf(to_slave', starts) = BufsOf(to_slave, starts) \cup BufOf(r, starts)
            /\ OnceEach(to_slave', starts) <=> OnceEach(to_slave, starts) /\ Apart(BufsOf(to_slave, starts), BufOf(r, starts))
        BY <1>1, <3>2, <3>9, NoNone, AtEnd
      <4>2. BufOf(r, starts) \subseteq BufOf(m, starts) /\ BufOf(r, starts) \subseteq {m.buf}
        BY <3>2, <3>4, <3>5 DEF BufOf
      <4>3. host' = host \ {m.buf}
        BY <1>1, <3>1, <3>9 DEF host
      <4>4. OnceEach(to_slave', starts)
        BY <3>3, <4>1, <4>2 DEF OnePlaceInv, Apart
      <4>5. QED
        BY <1>1, <3>3, <3>5, <3>6, <3>7, <4>1, <4>2, <4>3, <4>4 DEF OnePlaceInv, Apart
    <3>10. QED
      BY <3>1, <3>8, <3>9
  <2>6. QED
    BY <1>3, <2>4, <2>5
<1>4. CASE Giving
  <2>1. to_host' = to_host /\ life' = life
    BY <1>4, GivenBack
  <2>2. PICK bufs \in SUBSET busy : GiveBack(bufs)
    BY <1>4, GivenBack
  <2>3. bufs \in SUBSET Bufs
    BY DEF Typed, HostTyped
  <2>4. /\ busy' = busy \ bufs
        /\ BufsOf(to_slave', starts) \subseteq BufsOf(to_slave, starts) \cup (IF starts = life THEN bufs ELSE {})
        /\ OnceEach(to_slave, starts) /\ (starts = life => Apart(BufsOf(to_slave, starts), bufs))
             => OnceEach(to_slave', starts)
    BY <1>1, <2>2, <2>3, Returned
  <2>5. host' = host \ bufs
    BY <1>1, <2>1, <2>4 DEF host
  <2>6. (IF starts = life THEN bufs ELSE {}) \subseteq host /\ (IF starts = life THEN bufs ELSE {}) \subseteq bufs
    BY DEF host
  <2>7. OnceEach(to_slave', starts)
    BY <2>4, <2>6 DEF OnePlaceInv, Apart
  <2> DEFINE g == IF starts = life THEN bufs ELSE {}
  <2>8. BufsOf(to_slave', starts) \subseteq BufsOf(to_slave, starts) \cup g /\ g \subseteq host /\ g \subseteq bufs
    BY <2>4, <2>6
  <2> HIDE DEF g
  <2>9. QED
    BY <1>1, <2>1, <2>5, <2>7, <2>8 DEF OnePlaceInv, Apart
<1>5. QED
  BY <1>2, <1>3, <1>4, HostSteps

-----------------------------------------------------------------------------
(* The host does not give back what it uses *)

\* What the scan gives back is not held, not shown and not coming in.
LEMMA Scanned ==
  ASSUME Scan, ~raced', life' = life, starts' = starts
  PROVE  \E bufs : /\ host' = host \ bufs
                   /\ Apart(bufs, hold') /\ Apart(bufs, ShownBufs') /\ Apart(bufs, Incoming')
<1> DEFINE found == {b \in busy : started /\ CanRelease(b, display', hold')}
<1>1. GiveBack(found) /\ found \cap Incoming' = {}
  BY DEF Scan
<1>2. busy' = busy \ found
  BY <1>1 DEF GiveBack
<1>3. \A b \in found : b \notin hold' /\ \A p \in display' : p.buf # b
  BY DEF CanRelease
<1> HIDE DEF found
<1>4. host' = host \ found
  BY <1>2 DEF host
<1>5. Apart(found, ShownBufs')
  BY <1>3 DEF Apart, ShownBufs
<1>6. QED
  BY <1>1, <1>3, <1>4, <1>5 DEF Apart

\* In the first life all pictures are of that life.
LEMMA FirstLife ==
  ASSUME Typed, Lives, starts <= 1
  PROVE  \A p \in Used : p.life = starts /\ p.buf \in Bufs
<1>1. Used \subseteq Picture
  BY Queues DEF Used, Range, Typed, HostTyped, FirmwareTyped
<1>2. \A p \in Used : p.life \in Nat /\ p.life > 0 /\ p.life <= starts /\ p.buf \in Bufs
  BY <1>1, Messages DEF Lives, UsedLives
<1>3. starts \in Nat
  BY Queues
<1>4. QED
  BY <1>2, <1>3

LEMMA UsedSlave ==
  ASSUME Typed, Lives, UsedInv, SlaveStep
  PROVE  UsedInv'
<1>1. /\ UNCHANGED <<busy, isr, queue, hold, cur, display, life>>
      /\ starts \in Nat /\ life \in Nat /\ life <= starts
  BY Queues, SlaveFrame
<1>2. CASE PcivStart
  <2>1. starts' = starts + 1
    BY <1>2 DEF PcivStart
  <2>2. \A p \in Used : p.life # starts'
    <3>1. \A p \in Used : p.life <= starts
      BY DEF Lives, UsedLives
    <3>2. \A p \in Used : p.life \in Nat
      BY Queues, Messages DEF Used, Range, Typed, HostTyped, FirmwareTyped
    <3>3. QED
      BY <1>1, <2>1, <3>1, <3>2
  <2>3. ShownBufs' = {} /\ BufOf(cur', starts') = {} /\ BufOf(isr', starts') = {}
    BY <1>1, <2>2 DEF Used, ShownBufs, BufOf
  <2>4. \A i \in DOMAIN queue' : queue'[i].life # starts'
    BY <1>1, <2>2 DEF Used, Range
  <2>5. BufsOf(queue', starts') = {} /\ OnceEach(queue', starts')
    BY <2>4, Nothing
  <2>6. QED
    BY <2>3, <2>5 DEF UsedInv, Apart
<1>3. CASE ~PcivStart
  <2>1. starts' = starts
    BY <1>3 DEF SlaveStep, PcivStarted, SrcPicSend, SrcPicSendDone, PcivStop, PcivStopWait,
                FreeShareBuf, lives
  <2>2. ShownBufs' = ShownBufs /\ host' = host
    BY <1>1, <2>1 DEF ShownBufs, host
  <2>3. QED
    BY <1>1, <2>1, <2>2 DEF UsedInv
<1>4. QED
  BY <1>2, <1>3

\* A picture that comes in while buffers are at one place each comes into one that
\* the host does not use.
LEMMA UsedTakes ==
  ASSUME Typed, Lives, OnePlaceInv, UsedInv, ReceivePic \/ FreeAllBuf
  PROVE  UsedInv'
<1> DEFINE m == Head(to_host)
           S == ShownBufs
           q == BufsOf(queue, starts)
           c == BufOf(cur, starts)
<1>1. /\ to_host \in Seq(Message) /\ to_host # <<>> /\ isr = None /\ starts' = starts
      /\ starts \in Nat /\ life \in Nat /\ life <= starts
      /\ UNCHANGED <<queue, hold, cur, display>>
  BY Queues, TakesFrame DEF ReceivePic, FreeAllBuf, lives
<1>2. /\ m \in Message /\ 1 \in DOMAIN to_host /\ to_host[1] = m
      /\ life <= m.life /\ m.life <= starts /\ m.life \in Nat
  BY <1>1, TakeHead, Messages DEF Lives, HostLives
<1>3. S \subseteq host /\ q \subseteq host /\ c \subseteq host /\ q \cup c \subseteq hold /\ Apart(q, c)
      /\ OnceEach(queue, starts)
  BY DEF UsedInv
<1>4. ShownBufs' = S /\ BufsOf(queue', starts') = q /\ BufOf(cur', starts') = c
  BY <1>1 DEF ShownBufs
<1>5. CASE FreeAllBuf
  <2>1. life < m.life /\ isr' = isr
    BY <1>2, <1>5 DEF FreeAllBuf, Lives, HostLives
  <2>2. host = {}
    BY <1>1, <1>2, <2>1 DEF host
  <2>3. BufOf(isr', starts') = {}
    BY <1>1, <2>1 DEF BufOf
  <2> HIDE DEF S, q, c
  <2>4. S = {} /\ q = {} /\ c = {}
    BY <1>3, <2>2
  <2>5. QED
    BY <1>1, <1>3, <1>4, <2>3, <2>4 DEF UsedInv, Apart
<1>6. CASE ReceivePic
  <2>1. /\ m.buf # None /\ life' = life
        /\ (isr' = m /\ busy' = busy \cup {m.buf}) \/ (isr' = isr /\ busy' = busy \ {m.buf})
    BY <1>6 DEF ReceivePic, lives
  <2>2. m.life = starts => life = starts
    <3>1. ASSUME life < starts
          PROVE  m.life < starts
      <4>1. PICK i \in DOMAIN to_host : to_host[i].buf = None /\ to_host[i].life = starts
        BY <3>1 DEF Lives, HostLives
      <4>2. 1 < i
        <5>1. i \in Nat /\ i >= 1 /\ i # 1
          BY <1>1, <1>2, <2>1, <4>1, LenProperties
        <5>2. QED
          BY <5>1
      <4>3. QED
        BY <1>2, <4>1, <4>2 DEF Lives, HostLives
    <3>2. QED
      BY <1>1, <1>2, <3>1
  <2>3. BufOf(m, starts) = (IF m.life = starts THEN {m.buf} ELSE {})
    BY <1>2, NoNone DEF BufOf
  <2>4. m.life = starts => m.buf \notin host
    <3>1. m.life = starts => m.buf \in BufsOf(to_host, starts)
      BY <1>2 DEF BufsOf
    <3>2. QED
      BY <3>1 DEF OnePlaceInv, Apart
  <2>5. m.life # starts => host = {}
    BY <1>1, <1>2 DEF host
  <2> HIDE DEF S, q, c, m
  <2>6. CASE isr' = m /\ busy' = busy \cup {m.buf}
    <3>1. host \subseteq host' /\ BufOf(m, starts) \subseteq host'
      BY <1>1, <2>1, <2>2, <2>3, <2>6 DEF host
    <3>2. BufOf(isr', starts') = BufOf(m, starts) /\ Apart(BufOf(m, starts), host)
      BY <1>1, <2>3, <2>4, <2>6 DEF Apart
    <3>3. QED
      BY <1>1, <1>3, <1>4, <3>1, <3>2 DEF UsedInv, Apart
  <2>7. CASE isr' = isr /\ busy' = busy \ {m.buf}
    <3>1. host' = host
      BY <1>1, <2>1, <2>4, <2>5, <2>7 DEF host
    <3>2. BufOf(isr', starts') = {}
      BY <1>1, <2>7 DEF BufOf
    <3>3. QED
      BY <1>1, <1>3, <1>4, <3>1, <3>2 DEF UsedInv, Apart
  <2>8. QED
    BY <2>1, <2>6, <2>7
<1>7. QED
  BY <1>5, <1>6

LEMMA UsedKeeps ==
  ASSUME Typed, Lives, UsedInv, HostKeeps
  PROVE  UsedInv'
<1>1. /\ queue \in Seq(Picture) /\ cur \in Picture \cup {None} /\ isr' = isr /\ starts' = starts
      /\ host' = host
  BY KeepsFrame, HostFrame, HostSteps DEF Typed, FirmwareTyped, host
<1>2. CASE VdecTake
  <2>1. /\ queue # <<>> /\ cur' = Head(queue) /\ queue' = Tail(queue)
        /\ UNCHANGED <<hold, display>> /\ cur = None
    BY <1>2 DEF VdecTake, Typed, FirmwareTyped
  <2>2. cur' \in Picture /\ queue' \in Seq(Picture) /\ Heads(queue, cur', queue')
    BY <1>1, <2>1, TakeHead
  <2>3. /\ BufsOf(queue, starts) = BufOf(cur', starts) \cup BufsOf(queue', starts)
        /\ OnceEach(queue, starts) <=> OnceEach(queue', starts) /\ Apart(BufOf(cur', starts), BufsOf(queue', starts))
    BY <1>1, <2>2, NoNone, InFront
  <2>4. ShownBufs' = ShownBufs
    BY <1>1, <2>1 DEF ShownBufs
  <2>5. QED
    BY <1>1, <2>1, <2>3, <2>4 DEF UsedInv, Apart
<1>3. CASE VdecRefused
  <2>1. cur # None /\ cur' = None /\ queue' = <<cur>> \o queue /\ UNCHANGED <<hold, display>>
    BY <1>3 DEF VdecRefused, Again
  <2>2. cur \in Picture /\ queue' \in Seq(Picture) /\ Heads(queue', cur, queue)
    BY <1>1, <2>1, PutHead
  <2>3. /\ BufsOf(queue', starts) = BufOf(cur, starts) \cup BufsOf(queue, starts)
        /\ OnceEach(queue', starts) <=> OnceEach(queue, starts) /\ Apart(BufOf(cur, starts), BufsOf(queue, starts))
    BY <1>1, <2>2, NoNone, InFront
  <2>4. ShownBufs' = ShownBufs /\ BufOf(cur', starts) = {}
    BY <1>1, <2>1 DEF ShownBufs, BufOf
  <2>5. QED
    BY <1>1, <2>1, <2>3, <2>4 DEF UsedInv, Apart
<1>4. CASE DisplayDone
  <2>1. display' \subseteq display /\ UNCHANGED <<queue, hold, cur>>
    BY <1>4 DEF DisplayDone, firmware
  <2>2. ShownBufs' \subseteq ShownBufs
    BY <1>1, <2>1 DEF ShownBufs
  <2>3. QED
    BY <1>1, <2>1, <2>2 DEF UsedInv, Apart
<1>5. CASE TimerFire \/ TimerLook \/ VdecFrame \/ HostStart \/ HostStop
  <2>1. UNCHANGED <<queue, hold, cur, display>>
    BY <1>5 DEF TimerFire, TimerLook, VdecFrame, HostStart, HostStop, firmware
  <2>2. ShownBufs' = ShownBufs
    BY <1>1, <2>1 DEF ShownBufs
  <2>3. QED
    BY <1>1, <2>1, <2>2 DEF UsedInv
<1>6. QED
  BY <1>2, <1>3, <1>4, <1>5 DEF HostKeeps

\* What is shown of the pictures that arrived is shown, the rest waits.
LEMMA Split ==
  ASSUME Typed, isr # None, NEW k \in 0..Len(arrived), Offer(arrived, k),
         OnceEach(queue, starts), Apart(BufsOf(queue, starts), BufOf(isr, starts)), starts' = starts,
         \A p \in Used : p.life = starts
  PROVE  \E sent_bufs :
           /\ sent_bufs \cup BufsOf(queue', starts) \subseteq BufsOf(queue, starts) \cup BufOf(isr, starts)
           /\ Apart(sent_bufs, BufsOf(queue', starts)) /\ OnceEach(queue', starts)
           /\ hold' = (hold \cup {isr.buf}) \ sent_bufs
           /\ ShownBufs' = ShownBufs \cup sent_bufs
<1> DEFINE out == {arrived[i].buf : i \in 1..k}
<1>1. /\ isr \in Picture /\ queue \in Seq(Picture) /\ arrived \in Seq(Picture)
      /\ DOMAIN arrived = 1..Len(arrived) /\ Len(arrived) \in Nat
  <2>1. isr \in Picture /\ arrived \in Seq(Picture) /\ queue \in Seq(Picture)
    BY Arrived, Queues
  <2>2. QED
    BY <2>1, LenProperties
<1>2. /\ BufsOf(arrived, starts) = BufsOf(queue, starts) \cup BufOf(isr, starts)
      /\ OnceEach(arrived, starts)
  BY <1>1, NoNone, AtEnd DEF arrived
<1>3. /\ queue' = SubSeq(arrived, k + 1, Len(arrived)) /\ hold' = (hold \cup {isr.buf}) \ out
      /\ display' = display \cup {arrived[i] : i \in 1..k}
  BY DEF Offer
<1>4. /\ DOMAIN queue' = 1..Len(queue') /\ Len(queue') \in Nat
      /\ \A i \in DOMAIN queue' : k + i \in DOMAIN arrived /\ queue'[i] = arrived[k + i]
  BY <1>1, <1>3, Refused, LenProperties
<1>5. \A i \in 1..k : i \in DOMAIN arrived
  BY <1>1
<1>6. \A i \in DOMAIN arrived : arrived[i].life = starts
  BY <1>1, ArrivedFrom DEF Used, Range
<1>7. \A i \in DOMAIN queue' : \A j \in 1..k : k + i # j
  BY <1>4
<1>8. \A i, j \in DOMAIN queue' : k + i = k + j => i = j
  BY <1>4
<1>9. out \cup BufsOf(queue', starts) \subseteq BufsOf(arrived, starts)
  BY <1>4, <1>5, <1>6 DEF BufsOf
<1>10. Apart(out, BufsOf(queue', starts))
  BY <1>2, <1>4, <1>5, <1>6, <1>7 DEF Apart, BufsOf, OnceEach
<1>11. OnceEach(queue', starts)
  BY <1>2, <1>4, <1>8 DEF OnceEach
<1>12. ShownBufs' = ShownBufs \cup out
  BY <1>3, <1>5, <1>6 DEF ShownBufs
<1>13. QED
  BY <1>2, <1>3, <1>9, <1>10, <1>11, <1>12

LEMMA UsedGives ==
  ASSUME Typed, Lives, UsedInv, ~raced', kind = "live" \/ starts <= 1, Giving
  PROVE  UsedInv'
<1> DEFINE S == ShownBufs
           q == BufsOf(queue, starts)
           c == BufOf(cur, starts)
           n == BufOf(isr, starts)
<1>1. /\ queue \in Seq(Picture) /\ cur \in Picture \cup {None} /\ isr \in Picture \cup {None}
      /\ starts' = starts /\ life' = life /\ kind' = kind
  BY GivenBack, HostFrame, HostSteps DEF Typed, FirmwareTyped, HostTyped
<1>2. /\ S \subseteq host /\ q \subseteq host /\ c \subseteq host /\ n \subseteq host
      /\ q \cup c \subseteq hold /\ OnceEach(queue, starts)
      /\ Apart(q, c) /\ Apart(n, q) /\ Apart(n, c) /\ Apart(n, S)
  BY DEF UsedInv
<1>3. kind = "live" => queue = <<>> /\ cur = None
  BY DEF Typed, FirmwareTyped
<1>4. \A m \in Picture : BufOf(m, starts) = IF m.life = starts THEN {m.buf} ELSE {}
  BY NoNone DEF BufOf
<1>5. BufOf(None, starts) = {}
  BY DEF BufOf
<1>6. ASSUME GiveBack({isr.buf} \cap busy), isr # None
      PROVE  host' \subseteq host /\ \E bufs : host' = host \ bufs /\ (host = {} \/ bufs \subseteq n)
  <2>1. busy' = busy \ ({isr.buf} \cap busy)
    BY <1>6 DEF GiveBack
  <2>2. host' = host \ {isr.buf}
    BY <1>1, <2>1 DEF host
  <2>3. host = {} \/ {isr.buf} \subseteq n
    <3>1. life = starts => isr.life = starts
      BY <1>6 DEF Lives, IncomingLives
    <3>2. QED
      BY <1>1, <1>4, <1>6, <3>1 DEF host
  <2>4. QED
    BY <2>2, <2>3
<1>7. CASE TimerRelease
  <2>1. /\ UNCHANGED <<queue, hold, cur, display, isr>>
        /\ GiveBack({scan.at} \cap busy)
        /\ ~(scan.at \in busy /\ (scan.at \in Incoming \/ ~CanRelease(scan.at, display, hold)))
    BY <1>7 DEF TimerRelease, firmware
  <2> DEFINE bufs == {scan.at} \cap busy
  <2>2. host' = host \ bufs
    BY <1>1, <2>1 DEF host, GiveBack
  <2>3. Apart(bufs, hold) /\ Apart(bufs, S)
    BY <2>1 DEF CanRelease, Apart, ShownBufs
  <2>4. Apart(bufs, n)
    BY <2>1 DEF Apart, BufOf, Incoming
  <2>5. ShownBufs' = S
    BY <1>1, <2>1 DEF ShownBufs
  <2>6. BufsOf(queue', starts') = q /\ BufOf(cur', starts') = c /\ BufOf(isr', starts') = n
        /\ OnceEach(queue', starts')
    BY <1>1, <1>2, <2>1
  <2> HIDE DEF S, q, c, n, bufs
  <2>7. QED
    BY <1>2, <2>1, <2>2, <2>3, <2>4, <2>5, <2>6 DEF UsedInv, Apart
<1>8. CASE RecvLive
  <2>1. isr # None /\ isr' = None /\ UNCHANGED <<queue, hold, cur>> /\ queue = <<>> /\ cur = None
    BY <1>3, <1>8 DEF RecvLive, firmware
  <2>2. q = {} /\ c = {}
    BY <1>5, <2>1, Empty
  <2>3. BufsOf(queue', starts') = {} /\ BufOf(cur', starts') = {} /\ BufOf(isr', starts') = {}
        /\ OnceEach(queue', starts')
    BY <1>1, <1>2, <1>5, <2>1, <2>2
  <2>4. CASE display' = display \cup {isr} /\ Scan
    <3>1. PICK bufs : host' = host \ bufs /\ Apart(bufs, ShownBufs')
      BY <1>1, <2>4, Scanned
    <3>2. ShownBufs' = S \cup n
      BY <1>1, <1>4, <2>1, <2>4 DEF ShownBufs
    <3> HIDE DEF S, q, c, n
    <3>3. QED
      BY <1>2, <2>3, <3>1, <3>2 DEF UsedInv, Apart
  <2>5. CASE display' = display /\ GiveBack({isr.buf} \cap busy)
    <3>1. PICK bufs : host' = host \ bufs /\ (host = {} \/ bufs \subseteq n)
      BY <1>6, <2>1, <2>5
    <3>2. ShownBufs' = S
      BY <1>1, <2>5 DEF ShownBufs
    <3> HIDE DEF S, q, c, n
    <3>3. QED
      BY <1>2, <2>3, <3>1, <3>2 DEF UsedInv, Apart
  <2>6. QED
    BY <1>8, <2>4, <2>5 DEF RecvLive
<1>9. CASE RecvPlayback
  <2>1. /\ isr # None /\ isr' = None /\ kind = "playback" /\ Scan
        /\ cur' = (IF queue = <<>> THEN cur ELSE None)
    BY <1>9 DEF RecvPlayback
  <2>2. starts <= 1
    BY <2>1
  <2>3. PICK k \in 0..Len(arrived) : Offer(arrived, k)
    BY <1>9 DEF RecvPlayback, arrived
  <2>4. \A p \in Used : p.life = starts
    BY <2>2, FirstLife
  <2>5. PICK out :
           /\ out \cup BufsOf(queue', starts) \subseteq q \cup n
           /\ Apart(out, BufsOf(queue', starts)) /\ OnceEach(queue', starts)
           /\ hold' = (hold \cup {isr.buf}) \ out
           /\ ShownBufs' = S \cup out
    <3>1. Apart(q, n)
      BY <1>2 DEF Apart
    <3>2. QED
      BY <1>1, <1>2, <2>1, <2>3, <2>4, <3>1, Split
  <2>6. n = {isr.buf}
    <3>1. isr \in Used
      BY <2>1 DEF Used
    <3>2. QED
      BY <1>1, <1>4, <2>1, <2>4, <3>1
  <2>7. PICK bufs : host' = host \ bufs /\ Apart(bufs, hold') /\ Apart(bufs, ShownBufs')
    BY <1>1, <2>1, Scanned
  <2>8. BufOf(cur', starts') \subseteq c /\ BufOf(isr', starts') = {} /\ BufsOf(queue', starts') = BufsOf(queue', starts)
        /\ OnceEach(queue', starts')
    BY <1>1, <1>5, <2>1, <2>5
  <2> DEFINE r == BufsOf(queue', starts)
             d == BufOf(cur', starts')
  <2>9. /\ out \cup r \subseteq q \cup n /\ Apart(out, r) /\ hold' = (hold \cup n) \ out
        /\ ShownBufs' = S \cup out /\ d \subseteq c
    BY <2>5, <2>6, <2>8
  <2> HIDE DEF S, q, c, n, r, d
  <2>10. r \cup d \subseteq hold' /\ Apart(r, d)
    BY <1>2, <2>9 DEF Apart
  <2>11. ShownBufs' \cup r \cup d \subseteq host
    BY <1>2, <2>9
  <2>12. ShownBufs' \cup r \cup d \subseteq host'
    BY <2>7, <2>10, <2>11 DEF Apart
  <2>13. QED
    BY <2>8, <2>10, <2>12 DEF UsedInv, Apart, r, d
<1>10. CASE RecvFail
  <2>1. /\ isr # None /\ isr' = None /\ GiveBack({isr.buf} \cap busy) /\ hold \subseteq hold'
        /\ UNCHANGED <<queue, cur, display>>
    BY <1>10 DEF RecvFail
  <2>2. PICK bufs : host' = host \ bufs /\ (host = {} \/ bufs \subseteq n)
    BY <1>6, <2>1
  <2>3. ShownBufs' = S
    BY <1>1, <2>1 DEF ShownBufs
  <2>4. BufsOf(queue', starts') = q /\ BufOf(cur', starts') = c /\ BufOf(isr', starts') = {}
        /\ OnceEach(queue', starts')
    BY <1>1, <1>2, <1>5, <2>1
  <2> HIDE DEF S, q, c, n
  <2>5. QED
    BY <1>2, <2>1, <2>2, <2>3, <2>4 DEF UsedInv, Apart
<1>11. CASE VdecSent
  <2>1. /\ cur # None /\ cur' = None /\ hold' = hold \ {cur.buf} /\ display' = display \cup {cur}
        /\ UNCHANGED <<isr, queue>> /\ Scan
    BY <1>11 DEF VdecSent
  <2>2. starts <= 1
    BY <1>3, <2>1
  <2>3. cur \in Used /\ cur \in Picture
    BY <1>1, <2>1 DEF Used
  <2>4. cur.life = starts /\ c = {cur.buf}
    BY <1>4, <2>2, <2>3, FirstLife
  <2>5. PICK bufs : host' = host \ bufs /\ Apart(bufs, hold') /\ Apart(bufs, ShownBufs') /\ Apart(bufs, Incoming')
    BY <1>1, <2>1, Scanned
  <2>6. n \subseteq Incoming'
    BY <2>1 DEF BufOf, Incoming
  <2>7. ShownBufs' = S \cup c
    BY <1>1, <2>1, <2>4 DEF ShownBufs
  <2>8. BufsOf(queue', starts') = q /\ BufOf(cur', starts') = {} /\ BufOf(isr', starts') = n
        /\ OnceEach(queue', starts')
    BY <1>1, <1>2, <1>5, <2>1
  <2>9. hold' = hold \ c
    BY <2>1, <2>4
  <2> HIDE DEF S, q, c, n
  <2>10. QED
    BY <1>2, <2>5, <2>6, <2>7, <2>8, <2>9 DEF UsedInv, Apart
<1>12. QED
  BY <1>7, <1>8, <1>9, <1>10, <1>11 DEF Giving

-----------------------------------------------------------------------------
(* Pictures stay in order *)

\* None of the pictures is left out while they move.
LEMMA UnseenKept ==
  ASSUME Typed, OrderInv, dropped' = dropped, shown' = shown, sent' = sent, Unseen' = Unseen
  PROVE  ~dropped' => shown' + 1 .. sent' \subseteq Unseen'
  BY DEF OrderInv

LEMMA OrderSlave ==
  ASSUME Typed, Lives, OrderInv, SlaveStep
  PROVE  OrderInv'
<1> DEFINE c == NumOf(cur)
           q == NumsOf(queue)
           n == NumOf(isr)
           h == NumsOf(to_host)
           w == NumsOf(waiting)
<1>1. /\ waiting \in Seq(Picture) /\ to_host \in Seq(Message) /\ sent \in Nat /\ shown \in Nat
      /\ UNCHANGED <<cur, queue, isr, display, shown>>
  BY Queues, SlaveFrame
<1>2. Rising(queue) /\ Rising(to_host) /\ Rising(waiting)
  BY DEF OrderInv, Line
<1>3. c' = c /\ q' = q /\ n' = n
  BY <1>1
<1>4. ASSUME UNCHANGED <<to_host, waiting, sent, dropped>>
      PROVE  OrderInv'
  <2>1. h' = h /\ w' = w
    BY <1>4
  <2>2. Line' /\ Unseen' = Unseen
    BY <1>1, <1>3, <1>4, <2>1 DEF OrderInv, Line, Unseen
  <2>3. QED
    BY <1>1, <1>4, <2>2, UnseenKept DEF OrderInv
<1>5. CASE PcivStart
  <2> DEFINE m == [buf |-> None, num |-> 0, life |-> starts']
  <2>1. /\ tasks = <<>> /\ dma = <<>> /\ tasks' = tasks /\ dma' = dma /\ sent' = sent
        /\ dropped' = dropped /\ to_host' = Append(to_host, m) /\ starts' \in 1..MaxStarts
    BY <1>5, Queues, ParamsAssumption DEF PcivStart, Lives, SlaveLives, faults
  <2>2. m \in Message /\ m.buf = None
    BY <2>1 DEF Message
  <2> HIDE DEF m
  <2>3. /\ NumsOf(Append(to_host, m)) = NumsOf(to_host) \cup NumOf(m)
        /\ Rising(Append(to_host, m)) <=> Rising(to_host) /\ Before(NumsOf(to_host), NumOf(m))
    BY <1>1, <2>2, NoNone, AtEnd
  <2>4. NumOf(m) = {}
    BY <2>2 DEF NumOf
  <2>5. h' = h /\ Rising(to_host') /\ waiting' = waiting
    BY <1>2, <2>1, <2>3, <2>4 DEF Before, waiting
  <2>6. w' = w
    BY <2>5
  <2>7. Line'
    BY <1>1, <1>3, <2>1, <2>5, <2>6 DEF OrderInv, Line
  <2>8. Unseen' = Unseen
    BY <1>3, <2>5, <2>6 DEF Unseen
  <2>9. QED
    BY <1>1, <2>1, <2>7, <2>8, UnseenKept DEF OrderInv
<1>6. CASE PcivStarted \/ PcivStop \/ FreeShareBuf
  BY <1>4, <1>6 DEF PcivStarted, PcivStop, FreeShareBuf, faults, waiting
<1>7. CASE SrcPicSend
  <2>1. PICK m \in Picture : m.num = sent + 1 /\ waiting' = Append(waiting, m)
    BY <1>7, NewTask
  <2>2. to_host' = to_host /\ sent' = sent + 1 /\ dropped' = dropped
    BY <1>7 DEF SrcPicSend, faults
  <2>3. /\ NumsOf(waiting') = w \cup NumOf(m)
        /\ Rising(waiting') <=> Rising(waiting) /\ Before(w, NumOf(m))
    BY <1>1, <2>1, NoNone, AtEnd
  <2>4. NumOf(m) = {sent + 1}
    BY <2>1, Messages DEF NumOf
  <2>5. w' = w \cup {sent + 1} /\ h' = h
    BY <2>2, <2>3, <2>4
  <2>6. Before(c \cup q \cup n \cup h \cup w \cup {shown}, {sent + 1})
    BY DEF OrderInv, Line
  <2>7. Rising(waiting')
    BY <1>2, <2>3, <2>4, <2>6 DEF Before
  <2>8. \A x \in c \cup q \cup n \cup h \cup w \cup {shown} : x \in Int
    <3>1. /\ \A i \in DOMAIN queue : queue[i].num \in Int
          /\ \A i \in DOMAIN to_host : to_host[i].num \in Int
          /\ \A i \in DOMAIN waiting : waiting[i].num \in Int
          /\ isr # None => isr.num \in Int
          /\ cur # None => cur.num \in Int
      BY Queues, Messages DEF Typed, HostTyped, FirmwareTyped
    <3>2. QED
      BY <1>1, <3>1 DEF NumsOf, NumOf
  <2> HIDE DEF c, q, n, h, w
  <2>9. Before(c' \cup q' \cup n' \cup h' \cup w' \cup {shown'}, {sent' + 1})
    BY <1>1, <1>3, <2>2, <2>5, <2>6, <2>8 DEF Before
  <2>10. Line'
    BY <1>1, <1>3, <2>2, <2>5, <2>6, <2>7, <2>9 DEF OrderInv, Line, Before, c, q, n, h, w
  <2>11. \A i \in shown' + 1 .. sent' : i \in shown + 1 .. sent \/ i = sent + 1
    BY <1>1, <2>2
  <2>12. Unseen' = Unseen \cup {sent + 1}
    BY <1>3, <2>5 DEF Unseen, c, q, n, h, w
  <2>13. ~dropped' => shown' + 1 .. sent' \subseteq Unseen'
    BY <2>2, <2>11, <2>12 DEF OrderInv
  <2>14. QED
    BY <2>10, <2>13 DEF OrderInv
<1>8. CASE SrcPicSendDone
  <2> DEFINE m == Head(dma)
  <2>1. /\ dma # <<>> /\ dma' = Tail(dma) /\ tasks' = tasks /\ sent' = sent
        /\ \/ to_host' = Append(to_host, m) /\ dropped' = dropped
           \/ to_host' = to_host /\ dropped' = TRUE
    BY <1>8 DEF SrcPicSendDone
  <2>2. waiting # <<>> /\ Head(waiting) = m /\ waiting' = Tail(waiting)
    BY <2>1, WaitingQueue DEF waiting
  <2> HIDE DEF m
  <2>3. m \in Picture /\ m \in Message /\ waiting' \in Seq(Picture) /\ Heads(waiting, m, waiting')
    BY <1>1, <2>2, TakeHead, Messages
  <2>4. /\ NumsOf(waiting) = NumOf(m) \cup NumsOf(waiting')
        /\ Rising(waiting) <=> Rising(waiting') /\ Before(NumOf(m), NumsOf(waiting'))
    BY <1>1, <2>3, NoNone, InFront
  <2>5. w = NumOf(m) \cup w' /\ Rising(waiting') /\ Before(NumOf(m), w')
    BY <1>2, <2>4
  <2>6. CASE to_host' = Append(to_host, m) /\ dropped' = dropped
    <3>1. /\ NumsOf(Append(to_host, m)) = NumsOf(to_host) \cup NumOf(m)
          /\ Rising(Append(to_host, m)) <=> Rising(to_host) /\ Before(NumsOf(to_host), NumOf(m))
      BY <1>1, <2>3, NoNone, AtEnd
    <3>2. Before(h, w)
      BY DEF OrderInv, Line
    <3>3. h' = h \cup NumOf(m) /\ Rising(to_host')
      BY <1>2, <2>5, <2>6, <3>1, <3>2 DEF Before
    <3>4. Line'
      BY <1>1, <1>3, <2>1, <2>5, <3>3 DEF OrderInv, Line, Before
    <3>5. Unseen' = Unseen
      BY <1>3, <2>5, <3>3 DEF Unseen
    <3>6. QED
      BY <1>1, <2>1, <2>6, <3>4, <3>5, UnseenKept DEF OrderInv
  <2>7. CASE to_host' = to_host /\ dropped' = TRUE
    <3>1. h' = h
      BY <2>7
    <3>2. Line'
      BY <1>1, <1>2, <1>3, <2>1, <2>5, <2>7, <3>1 DEF OrderInv, Line, Before
    <3>3. QED
      BY <2>7, <3>2 DEF OrderInv
  <2>8. QED
    BY <2>1, <2>6, <2>7
<1>9. CASE PcivStopWait
  <2>1. UNCHANGED <<to_host, sent, dropped>>
    BY <1>9 DEF PcivStopWait, faults
  <2>2. waiting' = waiting
    BY <1>9, StopWaits
  <2>3. QED
    BY <1>4, <2>1, <2>2
<1>10. QED
  BY <1>5, <1>6, <1>7, <1>8, <1>9 DEF SlaveStep

\* The numbers of what is shown of the pictures that arrived come before the rest.
LEMMA SplitOrder ==
  ASSUME Typed, isr # None, NEW k \in 0..Len(arrived), Offer(arrived, k),
         Rising(queue), Before(NumsOf(queue), NumOf(isr)),
         Before({shown}, NumsOf(queue) \cup NumOf(isr)), \A p \in display : p.num <= shown
  PROVE  /\ Rising(queue') /\ NumsOf(queue') \subseteq NumsOf(queue) \cup NumOf(isr)
         /\ Before({shown'}, NumsOf(queue')) /\ \A p \in display' : p.num <= shown'
         /\ shown' = shown \/ shown' \in NumsOf(queue) \cup NumOf(isr)
         /\ \A x \in NumsOf(queue) \cup NumOf(isr) : x <= shown' \/ x \in NumsOf(queue')
         /\ \A x \in NumsOf(queue) \cup NumOf(isr) : x <= shown' => \E p \in display' : p.num = x
         /\ \A p \in display' \ display : shown < p.num
         /\ \A p, r \in display' \ display : p.num = r.num => p = r
<1>1. /\ isr \in Picture /\ queue \in Seq(Picture) /\ arrived \in Seq(Picture)
      /\ DOMAIN arrived = 1..Len(arrived) /\ Len(arrived) \in Nat /\ shown \in Nat
      /\ \A i \in DOMAIN arrived : arrived[i] \in Picture
  <2>1. isr \in Picture /\ arrived \in Seq(Picture) /\ queue \in Seq(Picture) /\ shown \in Nat
    BY Arrived, Queues
  <2>2. QED
    BY <2>1, Arrived, LenProperties
<1>2. /\ NumsOf(arrived) = NumsOf(queue) \cup NumOf(isr)
      /\ Rising(arrived)
  BY <1>1, NoNone, AtEnd DEF arrived
<1>3. /\ queue' = SubSeq(arrived, k + 1, Len(arrived))
      /\ display' = display \cup {arrived[i] : i \in 1..k}
      /\ shown' = IF k = 0 THEN shown ELSE arrived[k].num
  BY DEF Offer
<1>4. /\ DOMAIN queue' = 1..Len(queue') /\ Len(queue') = Len(arrived) - k
      /\ \A i \in DOMAIN queue' : k + i \in DOMAIN arrived /\ queue'[i] = arrived[k + i]
  <2>1. Len(queue') = Len(queue) + 1 - k /\ Len(arrived) = Len(queue) + 1
    BY <1>3, Refused, Arrived
  <2>2. QED
    BY <1>1, <1>3, <2>1, Refused
<1>5. \A i \in DOMAIN arrived : arrived[i].num \in Nat /\ arrived[i].buf # None
  BY <1>1, Messages
<1>6. \A i, j \in DOMAIN arrived : i < j => arrived[i].num < arrived[j].num
  BY <1>2, <1>5 DEF Rising
<1>7. \A i \in DOMAIN arrived : shown < arrived[i].num
  <2>1. \A i \in DOMAIN arrived : arrived[i].num \in NumsOf(arrived)
    BY <1>5 DEF NumsOf
  <2>2. QED
    BY <1>2, <2>1 DEF Before
<1>8. \A i \in DOMAIN arrived : i <= k => arrived[i].num <= shown'
  <2>1. \A i \in DOMAIN arrived : i <= k => (k \in DOMAIN arrived /\ k # 0 /\ (i < k \/ i = k))
    BY <1>1
  <2>2. QED
    BY <1>3, <1>5, <1>6, <2>1
<1>9. \A i \in DOMAIN arrived : i > k => shown' < arrived[i].num
  <2>1. CASE k = 0
    BY <1>3, <1>7, <2>1
  <2>2. CASE k # 0
    <3>1. k \in DOMAIN arrived
      BY <1>1, <2>2
    <3>2. QED
      BY <1>1, <1>3, <1>6, <2>2, <3>1
  <2>3. QED
    BY <2>1, <2>2
<1>10. shown <= shown' /\ shown' \in Nat
  <2>1. CASE k = 0
    BY <1>1, <1>3, <2>1
  <2>2. CASE k # 0
    <3>1. k \in DOMAIN arrived
      BY <1>1, <2>2
    <3>2. QED
      BY <1>1, <1>3, <1>5, <1>7, <2>2, <3>1
  <2>3. QED
    BY <2>1, <2>2
<1>11. Rising(queue')
  <2>1. \A i, j \in DOMAIN queue' : i < j => k + i < k + j
    BY <1>4
  <2>2. QED
    BY <1>4, <1>6, <2>1 DEF Rising
<1>12. NumsOf(queue') \subseteq NumsOf(arrived)
  BY <1>4, <1>5 DEF NumsOf
<1>13. Before({shown'}, NumsOf(queue'))
  <2>1. \A i \in DOMAIN queue' : k + i > k
    BY <1>4
  <2>2. QED
    BY <1>4, <1>9, <2>1 DEF Before, NumsOf
<1>14. \A p \in display' : p.num <= shown'
  <2>1. \A p \in display : p.num \in Nat
    BY Messages DEF Typed, FirmwareTyped
  <2>2. \A p \in display : p.num <= shown'
    BY <1>1, <1>10, <2>1
  <2>3. \A i \in 1..k : i \in DOMAIN arrived /\ i <= k
    BY <1>1
  <2>4. QED
    BY <1>3, <1>8, <2>2, <2>3
<1>15. shown' = shown \/ shown' \in NumsOf(arrived)
  <2>1. CASE k = 0
    BY <1>3, <2>1
  <2>2. CASE k # 0
    <3>1. k \in DOMAIN arrived
      BY <1>1, <2>2
    <3>2. QED
      BY <1>3, <1>5, <2>2, <3>1 DEF NumsOf
  <2>3. QED
    BY <2>1, <2>2
<1>16. \A x \in NumsOf(arrived) : x <= shown' \/ x \in NumsOf(queue')
  <2> SUFFICES ASSUME NEW i \in DOMAIN arrived
               PROVE  arrived[i].num <= shown' \/ arrived[i].num \in NumsOf(queue')
    BY DEF NumsOf
  <2>1. CASE i <= k
    BY <1>8, <2>1
  <2>2. CASE i > k
    <3>1. i - k \in DOMAIN queue' /\ k + (i - k) = i
      BY <1>1, <1>4, <2>2
    <3>2. queue'[i - k] = arrived[i]
      BY <1>4, <3>1
    <3>3. QED
      BY <1>5, <3>1, <3>2 DEF NumsOf
  <2>3. QED
    BY <1>1, <2>1, <2>2
<1>17. \A x \in NumsOf(arrived) : x <= shown' => \E p \in display' : p.num = x
  <2> SUFFICES ASSUME NEW i \in DOMAIN arrived, arrived[i].num <= shown'
               PROVE  arrived[i] \in display'
    BY DEF NumsOf
  <2>1. ~(i > k)
    BY <1>5, <1>9, <1>10
  <2>2. i \in 1..k
    BY <1>1, <2>1
  <2>3. QED
    BY <1>3, <2>2
<1>18. \A p \in display' \ display : \E i \in DOMAIN arrived : p = arrived[i]
  <2>1. \A i \in 1..k : i \in DOMAIN arrived
    BY <1>1
  <2>2. QED
    BY <1>3, <2>1
<1>19. \A p \in display' \ display : shown < p.num
  BY <1>7, <1>18
<1>20. \A p, r \in display' \ display : p.num = r.num => p = r
  <2>1. \A i, j \in DOMAIN arrived : arrived[i].num = arrived[j].num => i = j
    <3>1. \A i, j \in DOMAIN arrived : i < j \/ j < i \/ i = j
      BY <1>1
    <3>2. QED
      BY <1>5, <1>6, <3>1
  <2>2. QED
    BY <1>18, <2>1
<1>21. QED
  BY <1>2, <1>11, <1>12, <1>13, <1>14, <1>15, <1>16, <1>17, <1>19, <1>20

\* Some of the pictures are shown, and what is left are those that come later.
LEMMA UnseenShown ==
  ASSUME Typed, OrderInv, dropped' = dropped, sent' = sent, shown' \in Nat, shown <= shown',
         \A x \in Unseen : x <= shown' \/ x \in Unseen'
  PROVE  ~dropped' => shown' + 1 .. sent' \subseteq Unseen'
<1>1. \A a, b, e \in Nat : a <= b => \A i \in b + 1 .. e : i \in a + 1 .. e /\ ~(i <= b)
  OBVIOUS
<1>2. shown \in Nat /\ sent \in Nat
  BY Queues
<1>3. \A i \in shown' + 1 .. sent : i \in shown + 1 .. sent /\ ~(i <= shown')
  BY <1>1, <1>2
<1>4. QED
  BY <1>3 DEF OrderInv

LEMMA OrderHost ==
  ASSUME Typed, Lives, OrderInv, HostStep, ~met'
  PROVE  OrderInv'
<1> DEFINE c == NumOf(cur)
           q == NumsOf(queue)
           n == NumOf(isr)
           h == NumsOf(to_host)
           w == NumsOf(waiting)
<1>1. /\ queue \in Seq(Picture) /\ cur \in Picture \cup {None} /\ isr \in Picture \cup {None}
      /\ to_host \in Seq(Message) /\ sent \in Nat /\ shown \in Nat
      /\ sent' = sent /\ waiting' = waiting
  BY Queues, HostFrame DEF Typed, FirmwareTyped, HostTyped, waiting
<1>2. Rising(queue) /\ Rising(to_host) /\ Rising(waiting)
  BY DEF OrderInv, Line
<1>3. w' = w
  BY <1>1
<1>4. NumOf(None) = {} /\ \A m \in Picture : NumOf(m) = {m.num} /\ m.num \in Nat
  BY Messages DEF NumOf
<1>5. ASSUME UNCHANGED <<queue, cur, isr, to_host, shown, dropped>>, display' \subseteq display
      PROVE  OrderInv'
  <2>1. c' = c /\ q' = q /\ n' = n /\ h' = h
    BY <1>5
  <2>2. Line' /\ Unseen' = Unseen
    BY <1>1, <1>3, <1>5, <2>1 DEF OrderInv, Line, Unseen
  <2>3. QED
    BY <1>1, <1>5, <2>2, UnseenKept DEF OrderInv
<1>6. CASE VdecTake
  <2>1. /\ queue # <<>> /\ cur' = Head(queue) /\ queue' = Tail(queue) /\ display' = display
        /\ cur = None
    BY <1>6 DEF VdecTake, Typed, FirmwareTyped
  <2>2. UNCHANGED <<isr, to_host, shown, dropped>>
    BY <1>6 DEF VdecTake, faults
  <2>3. cur' \in Picture /\ queue' \in Seq(Picture) /\ Heads(queue, cur', queue')
    BY <1>1, <2>1, TakeHead
  <2>4. /\ NumsOf(queue) = NumOf(cur') \cup NumsOf(queue')
        /\ Rising(queue) <=> Rising(queue') /\ Before(NumOf(cur'), NumsOf(queue'))
    BY <1>1, <2>3, NoNone, InFront
  <2>5. c = {} /\ q = c' \cup q' /\ n' = n /\ h' = h /\ Rising(queue') /\ Before(c', q')
    BY <1>2, <1>4, <2>1, <2>2, <2>4
  <2>6. Line'
    BY <1>1, <1>2, <1>3, <2>1, <2>2, <2>5 DEF OrderInv, Line, Before
  <2>7. Unseen' = Unseen
    BY <1>3, <2>5 DEF Unseen
  <2>8. QED
    BY <1>1, <2>2, <2>6, <2>7, UnseenKept DEF OrderInv
<1>7. CASE VdecRefused
  <2>1. /\ cur # None /\ cur' = None /\ queue' = <<cur>> \o queue /\ display' = display
        /\ UNCHANGED <<isr, to_host, shown, dropped>>
    BY <1>7 DEF VdecRefused, Again, faults
  <2>2. cur \in Picture /\ queue' \in Seq(Picture) /\ Heads(queue', cur, queue)
    BY <1>1, <2>1, PutHead
  <2>3. /\ NumsOf(queue') = NumOf(cur) \cup NumsOf(queue)
        /\ Rising(queue') <=> Rising(queue) /\ Before(NumOf(cur), NumsOf(queue))
    BY <1>1, <2>2, NoNone, InFront
  <2>4. c' = {} /\ q' = c \cup q /\ n' = n /\ h' = h /\ Before(c, q)
    BY <1>4, <2>1, <2>3 DEF OrderInv, Line, Before
  <2>5. Rising(queue')
    BY <1>2, <2>3, <2>4
  <2>6. Line'
    BY <1>1, <1>2, <1>3, <2>1, <2>4, <2>5 DEF OrderInv, Line, Before
  <2>7. Unseen' = Unseen
    BY <1>3, <2>4 DEF Unseen
  <2>8. QED
    BY <1>1, <2>1, <2>6, <2>7, UnseenKept DEF OrderInv
<1>8. CASE DisplayDone \/ TimerFire \/ TimerLook \/ VdecFrame \/ HostStart \/ HostStop
  <2>1. display' \subseteq display
    BY <1>8 DEF DisplayDone, TimerFire, TimerLook, VdecFrame, HostStart, HostStop
  <2>2. UNCHANGED <<queue, cur, isr, to_host, shown, dropped>>
    BY <1>8 DEF DisplayDone, TimerFire, TimerLook, VdecFrame, HostStart, HostStop, faults, firmware
  <2>3. QED
    BY <1>5, <2>1, <2>2
<1>9. CASE ReceivePic \/ FreeAllBuf
  <2> DEFINE m == Head(to_host)
  <2>1. /\ to_host # <<>> /\ to_host' = Tail(to_host) /\ isr = None
        /\ UNCHANGED <<queue, cur, display, shown>>
    BY <1>9, TakesFrame DEF ReceivePic, FreeAllBuf
  <2>2. m \in Message /\ to_host' \in Seq(Message) /\ Heads(to_host, m, to_host')
    BY <1>1, <2>1, TakeHead
  <2>3. \/ isr' = m /\ m.buf # None /\ dropped' = dropped
        \/ isr' = None /\ m.buf # None /\ dropped' = TRUE
        \/ isr' = None /\ m.buf = None /\ dropped' = dropped
    BY <1>9, <2>1 DEF ReceivePic, FreeAllBuf, faults
  <2> HIDE DEF m
  <2>4. /\ NumsOf(to_host) = NumOf(m) \cup NumsOf(to_host')
        /\ Rising(to_host) <=> Rising(to_host') /\ Before(NumOf(m), NumsOf(to_host'))
    BY <1>1, <2>2, NoNone, InFront
  <2>5. /\ n = {} /\ h = NumOf(m) \cup h' /\ Rising(to_host') /\ Before(NumOf(m), h')
        /\ c' = c /\ q' = q
    BY <1>2, <1>4, <2>1, <2>4
  <2>6. n' \subseteq NumOf(m)
    BY <1>4, <2>3
  <2>7. Line'
    BY <1>1, <1>2, <1>3, <2>1, <2>5, <2>6 DEF OrderInv, Line, Before
  <2>8. CASE dropped' = TRUE
    BY <2>7, <2>8 DEF OrderInv
  <2>9. CASE dropped' = dropped /\ (isr' = m \/ m.buf = None)
    <3>1. n' = NumOf(m)
      BY <1>4, <2>3, <2>9 DEF NumOf
    <3>2. Unseen' = Unseen
      BY <1>3, <2>5, <3>1 DEF Unseen
    <3>3. QED
      BY <1>1, <2>1, <2>7, <2>9, <3>2, UnseenKept DEF OrderInv
  <2>10. QED
    BY <2>3, <2>8, <2>9
<1>10. CASE TimerRelease
  <2>1. UNCHANGED <<queue, cur, isr, to_host, shown, dropped>> /\ display' = display
    BY <1>10 DEF TimerRelease, firmware
  <2>2. QED
    BY <1>5, <2>1
<1>11. ASSUME isr # None, isr' = None, UNCHANGED <<queue, cur, to_host, display, shown>>, dropped' = TRUE
       PROVE  OrderInv'
  <2>1. c' = c /\ q' = q /\ n' = {} /\ h' = h
    BY <1>4, <1>11
  <2>2. Line'
    BY <1>1, <1>2, <1>3, <1>11, <2>1 DEF OrderInv, Line, Before
  <2>3. QED
    BY <1>11, <2>2 DEF OrderInv
<1>12. CASE RecvLive
  <2>1. /\ isr # None /\ isr' = None /\ UNCHANGED <<queue, cur, to_host>>
        /\ \/ display' = display \cup {isr} /\ shown' = isr.num /\ dropped' = dropped
           \/ UNCHANGED <<display, shown>> /\ dropped' = TRUE
    BY <1>12 DEF RecvLive, firmware
  <2>2. queue = <<>> /\ cur = None
    BY <1>12 DEF RecvLive, Typed, FirmwareTyped
  <2>3. CASE display' = display \cup {isr} /\ shown' = isr.num /\ dropped' = dropped
    <3>1. q = {} /\ c = {} /\ q' = {} /\ c' = {} /\ n' = {} /\ h' = h /\ n = {shown'} /\ shown' \in Nat
      BY <1>1, <1>4, <2>1, <2>2, <2>3, Empty
    <3>2. shown < shown'
      BY <3>1 DEF OrderInv, Line, Before
    <3>3. \A p \in display' : p.num <= shown'
      <4>1. \A p \in display : p.num \in Nat /\ p.num <= shown
        BY Messages DEF OrderInv, Line, Typed, FirmwareTyped
      <4>2. QED
        BY <1>1, <2>3, <3>1, <3>2, <4>1
    <3>4. Line'
      BY <1>1, <1>2, <1>3, <2>1, <3>1, <3>3 DEF OrderInv, Line, Before
    <3>5. \A x \in Unseen : x <= shown' \/ x \in Unseen'
      BY <1>3, <3>1 DEF Unseen
    <3>6. QED
      BY <1>1, <2>3, <3>1, <3>2, <3>4, <3>5, UnseenShown DEF OrderInv
  <2>4. CASE UNCHANGED <<display, shown>> /\ dropped' = TRUE
    BY <1>11, <2>1, <2>4
  <2>5. QED
    BY <2>1, <2>3, <2>4
<1>13. CASE RecvPlayback
  <2>1. /\ isr # None /\ isr' = None /\ to_host' = to_host /\ dropped' = dropped
        /\ (cur' = cur \/ cur' = None) /\ vdec = "idle"
    BY <1>13 DEF RecvPlayback
  <2>2. cur = None /\ isr \in Picture
    BY <1>1, <2>1 DEF Typed, FirmwareTyped
  <2>3. PICK k \in 0..Len(arrived) : Offer(arrived, k)
    BY <1>13 DEF RecvPlayback, arrived
  <2>4. Before(q, n) /\ Before({shown}, q \cup n) /\ \A p \in display : p.num <= shown
    BY DEF OrderInv, Line, Before
  <2>5. /\ Rising(queue') /\ q' \subseteq q \cup n
        /\ Before({shown'}, q') /\ \A p \in display' : p.num <= shown'
        /\ shown' = shown \/ shown' \in q \cup n
        /\ \A x \in q \cup n : x <= shown' \/ x \in q'
    BY <1>2, <2>1, <2>3, <2>4, SplitOrder
  <2>6. c = {} /\ c' = {} /\ n' = {} /\ h' = h
    BY <1>4, <2>1, <2>2
  <2>7. shown' \in Nat /\ shown <= shown'
    <3>1. \A x \in q \cup n : x \in Nat
      BY <1>4, <2>2, Queues, Messages DEF NumsOf
    <3>2. QED
      BY <1>1, <2>4, <2>5, <3>1 DEF Before
  <2>8. Line'
    BY <1>1, <1>2, <1>3, <2>5, <2>6, <2>1 DEF OrderInv, Line, Before
  <2>9. \A x \in Unseen : x <= shown' \/ x \in Unseen'
    BY <1>3, <2>5, <2>6 DEF Unseen
  <2>10. QED
    BY <1>1, <2>1, <2>7, <2>8, <2>9, UnseenShown DEF OrderInv
<1>14. CASE RecvFail
  BY <1>11, <1>14 DEF RecvFail
<1>15. CASE VdecSent
  <2>1. /\ cur # None /\ cur' = None /\ display' = display \cup {cur} /\ shown' = cur.num
        /\ UNCHANGED <<isr, queue, to_host, dropped>>
    BY <1>15 DEF VdecSent
  <2>2. cur \in Picture /\ c = {shown'} /\ c' = {} /\ q' = q /\ n' = n /\ h' = h /\ shown' \in Nat
    BY <1>1, <1>4, <2>1
  <2>3. shown < shown'
    BY <2>2 DEF OrderInv, Line, Before
  <2>4. \A p \in display' : p.num <= shown'
    <3>1. \A p \in display : p.num \in Nat /\ p.num <= shown
      BY Messages DEF OrderInv, Line, Typed, FirmwareTyped
    <3>2. QED
      BY <1>1, <2>1, <2>2, <2>3, <3>1
  <2>5. Line'
    BY <1>1, <1>2, <1>3, <2>1, <2>2, <2>4 DEF OrderInv, Line, Before
  <2>6. \A x \in Unseen : x <= shown' \/ x \in Unseen'
    BY <1>3, <2>2 DEF Unseen
  <2>7. QED
    BY <1>1, <2>1, <2>2, <2>3, <2>5, <2>6, UnseenShown DEF OrderInv
<1>16. QED
  BY <1>6, <1>7, <1>8, <1>9, <1>10, <1>12, <1>13, <1>14, <1>15, HostSteps DEF Giving, HostKeeps

-----------------------------------------------------------------------------
(* The invariant *)

LEMMA InitIInv == Init => IInv
<1> SUFFICES ASSUME Init PROVE IInv
  OBVIOUS
<1> USE DEF Init
<1>1. Typed
  <2>0. /\ <<>> \in Seq(Picture) /\ <<>> \in Seq(Message) /\ <<>> \in Seq(ReadDone)
        /\ Len(<<>>) = 0
    BY EmptySeq
  <2>1. SlaveTyped
    <3>1. Len(dma) <= DmaDepth /\ sent \in 0..MaxPics
      BY <2>0, ParamsAssumption
    <3>2. QED
      BY <2>0, <3>1 DEF SlaveTyped
  <2>2. LinkTyped
    BY <2>0 DEF LinkTyped
  <2>3. HostTyped
    BY DEF HostTyped
  <2>4. FirmwareTyped
    <3>1. nodes \in Nat /\ nodes + Len(queue) + 0 <= NumBufs /\ shown \in 0..MaxPics
      BY <2>0, ParamsAssumption
    <3>2. QED
      BY <2>0, <3>1 DEF FirmwareTyped
  <2>5. HistoryTyped
    <3>1. starts \in 0..MaxStarts /\ life \in 0..starts /\ host_starts \in 0..MaxHostStarts
      BY ParamsAssumption
    <3>2. stale \in BOOLEAN /\ raced \in BOOLEAN /\ met \in BOOLEAN /\ dropped \in BOOLEAN
      OBVIOUS
    <3>3. kind \in Kinds
      OBVIOUS
    <3>4. QED
      BY <3>1, <3>2, <3>3 DEF HistoryTyped
  <2>6. QED
    BY <2>1, <2>2, <2>3, <2>4, <2>5 DEF Typed
<1>2. waiting = <<>>
  BY DEF waiting
<1>3. /\ DOMAIN waiting = {} /\ DOMAIN to_host = {} /\ DOMAIN to_slave = {} /\ DOMAIN queue = {}
      /\ NumsOf(waiting) = {} /\ NumsOf(to_host) = {} /\ NumsOf(queue) = {}
      /\ Rising(waiting) /\ Rising(to_host) /\ Rising(queue)
  BY <1>2, Empty
<1>4. /\ \A l : /\ BufsOf(waiting, l) = {} /\ BufsOf(to_host, l) = {} /\ BufsOf(to_slave, l) = {}
                /\ BufsOf(queue, l) = {}
                /\ OnceEach(waiting, l) /\ OnceEach(to_host, l) /\ OnceEach(to_slave, l)
                /\ OnceEach(queue, l)
                /\ BufOf(None, l) = {}
      /\ NumOf(None) = {}
  BY <1>2, Empty DEF BufOf, NumOf
<1>5. Lives
  <2>1. SlaveLives /\ HostLives /\ BackLives /\ IncomingLives
    BY <1>3 DEF SlaveLives, HostLives, BackLives, IncomingLives
  <2>2. UsedLives
    BY <1>3 DEF UsedLives, Used, Range
  <2>3. QED
    BY <2>1, <2>2 DEF Lives
<1>6. host = {} /\ ShownBufs = {}
  BY DEF host, ShownBufs
<1>7. OnePlaceInv
  BY <1>4, <1>6 DEF OnePlaceInv, Apart
<1>8. UsedInv
  BY <1>4, <1>6 DEF UsedInv, Apart
<1>9. OrderInv
  <2>1. Line
    BY <1>3, <1>4 DEF Line, Before
  <2>2. shown + 1 .. sent = {}
    OBVIOUS
  <2>3. QED
    BY <2>1, <2>2 DEF OrderInv
<1>10. QED
  BY <1>1, <1>5, <1>7, <1>8, <1>9 DEF IInv

LEMMA StepIInv == IInv /\ [Next]_vars => IInv'
<1> SUFFICES ASSUME IInv, [Next]_vars PROVE IInv'
  OBVIOUS
<1>1. CASE SlaveStep \/ HostStep
  <2>1. Typed /\ Lives
    BY DEF IInv
  <2>2. Typed' /\ Lives'
    BY <1>1, <2>1, TypedStep, LivesStep
  <2>3. stale => stale'
    BY <1>1, HostFrame DEF SlaveStep, PcivStart, PcivStarted, SrcPicSend, SrcPicSendDone, PcivStop,
                           PcivStopWait, FreeShareBuf, faults
  <2>4. ~stale' => OnePlaceInv'
    BY <1>1, <2>1, <2>3, OnePlaceSlave, OnePlaceHost DEF IInv
  <2>5. raced => raced'
    BY <1>1, SlaveFrame, TakesFrame, KeepsFrame, HostSteps
       DEF Giving, TimerRelease, RecvLive, RecvPlayback, RecvFail, VdecSent, Scan
  <2>6. kind' = kind /\ (starts' <= 1 => starts <= 1)
    <3>1. kind' = kind
      BY <1>1, SlaveFrame, HostFrame
    <3>2. starts \in Nat /\ (starts' = starts \/ starts' = starts + 1)
      BY <1>1, <2>1, Queues, HostFrame
         DEF SlaveStep, PcivStart, PcivStarted, SrcPicSend, SrcPicSendDone, PcivStop, PcivStopWait,
             FreeShareBuf, lives
    <3>3. QED
      BY <3>1, <3>2
  <2>7. ASSUME ~raced', ~stale', kind' = "live" \/ starts' <= 1
        PROVE  UsedInv'
    <3>1. ~raced /\ ~stale /\ (kind = "live" \/ starts <= 1)
      BY <2>3, <2>5, <2>6, <2>7
    <3>2. UsedInv /\ OnePlaceInv
      BY <3>1 DEF IInv
    <3>3. QED
      BY <1>1, <2>1, <2>7, <3>1, <3>2, UsedSlave, UsedTakes, UsedGives, UsedKeeps, HostSteps
  <2>8. met => met'
    BY <1>1, SlaveFrame, TakesFrame, KeepsFrame, HostSteps
       DEF Giving, TimerRelease, RecvLive, RecvPlayback, RecvFail, VdecSent
  <2>9. ~met' => OrderInv'
    BY <1>1, <2>1, <2>8, OrderSlave, OrderHost DEF IInv
  <2>10. QED
    BY <2>2, <2>4, <2>7, <2>9 DEF IInv
<1>2. CASE UNCHANGED vars
  BY <1>2 DEF vars, slave, firmware, timer, lives, faults, IInv, Typed, SlaveTyped, LinkTyped,
              HostTyped, FirmwareTyped, HistoryTyped, Lives, SlaveLives, HostLives, BackLives,
              UsedLives, IncomingLives, Used, Range, OnePlaceInv, UsedInv, ShownBufs, host,
              OrderInv, Line, Unseen, waiting
<1>3. Next <=> SlaveStep \/ HostStep
  BY DEF Next, SlaveStep, HostStep
<1>4. QED
  BY <1>1, <1>2, <1>3

LEMMA Invariance == Spec => []IInv
  BY InitIInv, StepIInv, PTL DEF Spec

-----------------------------------------------------------------------------
(* What follows from the invariant *)

LEMMA TypesFollow == IInv => TypeOK
<1> SUFFICES ASSUME Typed PROVE TypeOK
  BY DEF IInv
<1>1. nodes \in 0..NumBufs
  <2>1. nodes \in Nat /\ nodes + Len(queue) + (IF cur = None THEN 0 ELSE 1) <= NumBufs /\ Len(queue) \in Nat
    BY LenProperties DEF Typed, FirmwareTyped
  <2>2. QED
    BY <2>1, ParamsAssumption
<1>2. QED
  BY <1>1 DEF Typed, SlaveTyped, LinkTyped, HostTyped, FirmwareTyped, HistoryTyped, TypeOK

LEMMA AtMostOne ==
  ASSUME NEW S, \A x, y \in S : x = y
  PROVE  Cardinality(S) <= 1
<1>1. CASE S = {}
  BY <1>1, FS_EmptySet
<1>2. CASE S # {}
  <2>1. PICK x \in S : TRUE
    BY <1>2
  <2>2. S = {x}
    BY <2>1
  <2>3. QED
    BY <2>2, FS_Singleton
<1>3. QED
  BY <1>1, <1>2

LEMMA OnePlaceFollows == IInv => OnePlace
<1> DEFINE flow == to_host \o dma \o tasks
<1> SUFFICES ASSUME IInv, \A i \in DOMAIN to_host : to_host[i].buf # None, ~stale, NEW b \in Bufs
             PROVE  Cardinality({<<"free", f>> : f \in free \cap {b}}
                                \cup {<<"flow", i>> : i \in {j \in DOMAIN flow : flow[j].buf = b}}
                                \cup {<<"busy", u>> : u \in busy \cap {b}}
                                \cup {<<"back", i>> : i \in {j \in DOMAIN to_slave :
                                        to_slave[j] = [buf |-> b, life |-> starts]}}) <= 1
  BY DEF OnePlace
<1>1. Typed /\ Lives /\ OnePlaceInv
  BY DEF IInv
<1>2. /\ to_host \in Seq(Message) /\ dma \in Seq(Message) /\ tasks \in Seq(Message) /\ waiting \in Seq(Message)
      /\ starts \in Nat /\ life \in Nat /\ life <= starts
  <2>1. /\ to_host \in Seq(Message) /\ dma \in Seq(Picture) /\ tasks \in Seq(Picture)
        /\ waiting \in Seq(Message) /\ starts \in Nat /\ life \in Nat /\ life <= starts
    BY <1>1, Queues
  <2>2. Picture \subseteq Message
    BY Messages
  <2>3. QED
    BY <2>1, <2>2, SeqMonotonic
<1>3. flow = to_host \o waiting
  <2>1. to_host \in Seq(Message) /\ dma \in Seq(Message) /\ tasks \in Seq(Message)
    BY <1>2
  <2>2. QED
    BY ONLY <2>1, ConcatAssociative DEF waiting
<1> HIDE DEF flow
<1>4. life = starts /\ host = busy
  BY <1>1, <1>2 DEF Lives, HostLives, host
<1>5. \A i \in DOMAIN to_host : to_host[i].life = starts
  <2>1. \A i \in DOMAIN to_host :
          life <= to_host[i].life /\ to_host[i].life <= starts /\ to_host[i].life \in Nat
    BY <1>1, Queues, Messages DEF Lives, HostLives
  <2>2. QED
    BY <1>2, <1>4, <2>1
<1>6. \A i \in DOMAIN waiting : waiting[i].life = starts
  BY <1>1 DEF Lives, SlaveLives
<1> DEFINE k == Len(to_host)
<1>7. /\ DOMAIN flow = 1 .. k + Len(waiting) /\ k \in Nat /\ Len(waiting) \in Nat
      /\ DOMAIN to_host = 1..k /\ DOMAIN waiting = 1..Len(waiting)
      /\ \A i \in 1 .. k + Len(waiting) : flow[i] = IF i <= k THEN to_host[i] ELSE waiting[i - k]
  BY <1>2, <1>3, ConcatProperties, LenProperties
<1> HIDE DEF k
<1>8. \A i \in DOMAIN flow : \/ i \in DOMAIN to_host /\ flow[i] = to_host[i]
                             \/ i - k \in DOMAIN waiting /\ flow[i] = waiting[i - k]
  BY <1>7
<1>9. \A i \in DOMAIN flow : flow[i].buf \in BufsOf(to_host, starts) \cup BufsOf(waiting, starts)
  BY <1>5, <1>6, <1>8 DEF BufsOf
<1>10. ASSUME NEW i \in DOMAIN flow, NEW j \in DOMAIN flow, flow[i].buf = b, flow[j].buf = b
       PROVE  i = j
  <2>1. CASE i \in DOMAIN to_host /\ flow[i] = to_host[i] /\ j \in DOMAIN to_host /\ flow[j] = to_host[j]
    BY <1>1, <1>5, <1>10, <2>1 DEF OnePlaceInv, OnceEach
  <2>2. CASE /\ i - k \in DOMAIN waiting /\ flow[i] = waiting[i - k]
             /\ j - k \in DOMAIN waiting /\ flow[j] = waiting[j - k]
    <3>1. i - k = j - k
      BY <1>1, <1>6, <1>10, <2>2 DEF OnePlaceInv, OnceEach
    <3>2. QED
      BY <1>7, <3>1
  <2>3. ~(b \in BufsOf(to_host, starts) /\ b \in BufsOf(waiting, starts))
    BY <1>1 DEF OnePlaceInv, Apart
  <2>4. /\ \A x \in DOMAIN to_host : to_host[x].buf \in BufsOf(to_host, starts)
        /\ \A x \in DOMAIN waiting : waiting[x].buf \in BufsOf(waiting, starts)
    BY <1>5, <1>6 DEF BufsOf
  <2>5. QED
    BY <1>8, <1>10, <2>1, <2>2, <2>3, <2>4
<1>11. ASSUME NEW i \in DOMAIN to_slave, to_slave[i] = [buf |-> b, life |-> starts]
       PROVE  /\ b \in BufsOf(to_slave, starts)
              /\ \A j \in DOMAIN to_slave : to_slave[j] = [buf |-> b, life |-> starts] => i = j
  <2>1. to_slave[i].life = starts /\ to_slave[i].buf = b
    BY <1>11
  <2>2. \A j \in DOMAIN to_slave :
          to_slave[j] = [buf |-> b, life |-> starts] => to_slave[j].life = starts /\ to_slave[j].buf = b
    OBVIOUS
  <2>3. QED
    BY <1>1, <2>1, <2>2 DEF OnePlaceInv, OnceEach, BufsOf
<1> DEFINE A == {<<"free", f>> : f \in free \cap {b}}
           F == {<<"flow", i>> : i \in {j \in DOMAIN flow : flow[j].buf = b}}
           U == {<<"busy", u>> : u \in busy \cap {b}}
           B == {<<"back", i>> : i \in {j \in DOMAIN to_slave :
                   to_slave[j] = [buf |-> b, life |-> starts]}}
<1>12. /\ A # {} => b \in free
       /\ F # {} => b \in BufsOf(to_host, starts) \cup BufsOf(waiting, starts)
       /\ U # {} => b \in host
       /\ B # {} => b \in BufsOf(to_slave, starts)
  BY <1>4, <1>9, <1>11
<1>13. /\ \A x, y \in A : x = y
       /\ \A x, y \in F : x = y
       /\ \A x, y \in U : x = y
       /\ \A x, y \in B : x = y
  BY <1>10, <1>11
<1> HIDE DEF A, F, U, B
<1>14. /\ A = {} \/ F = {}
       /\ A = {} \/ U = {}
       /\ A = {} \/ B = {}
       /\ F = {} \/ U = {}
       /\ F = {} \/ B = {}
       /\ U = {} \/ B = {}
  BY <1>1, <1>12 DEF OnePlaceInv, Apart
<1>15. \A x, y \in A \cup F \cup U \cup B : x = y
  BY <1>13, <1>14
<1>16. Cardinality(A \cup F \cup U \cup B) <= 1
  BY <1>15, AtMostOne
<1>17. QED
  BY <1>16 DEF A, F, U, B

LEMMA NotOverwrittenFollows == IInv => NotOverwritten
<1> SUFFICES ASSUME IInv, ~raced, ~stale, kind = "live" \/ starts <= 1,
                    NEW i \in DOMAIN dma, NEW p \in Used, p.buf = dma[i].buf, p.life >= dma[i].life
             PROVE  FALSE
  BY DEF NotOverwritten, Overwritten
<1>1. Typed /\ Lives /\ OnePlaceInv /\ UsedInv
  BY DEF IInv
<1>2. i \in DOMAIN waiting /\ waiting[i] = dma[i]
  <2>1. dma \in Seq(Picture) /\ tasks \in Seq(Picture)
    BY <1>1, Queues
  <2>2. QED
    BY <2>1, ConcatProperties, LenProperties DEF waiting
<1>3. dma[i].life = starts /\ dma[i].buf \in BufsOf(waiting, starts)
  BY <1>1, <1>2 DEF Lives, SlaveLives, BufsOf
<1>4. p.life = starts /\ p # None
  <2>1. p \in Picture /\ p.life \in Nat /\ p.life <= starts /\ starts \in Nat
    BY <1>1, Queues, Messages DEF Used, Range, Lives, UsedLives, Typed, HostTyped, FirmwareTyped
  <2>2. QED
    BY <1>3, <2>1, NoNone
<1>5. p.buf \in host
  BY <1>1, <1>4 DEF Used, Range, UsedInv, ShownBufs, BufsOf, BufOf
<1>6. QED
  BY <1>1, <1>3, <1>5 DEF OnePlaceInv, Apart

\* Pictures whose numbers are those of an interval are as many.
LEMMA Counted ==
  ASSUME NEW D, NEW a \in Nat, NEW b \in Nat, a <= b,
         \A p \in D : p.num \in a + 1 .. b,
         \A p, r \in D : p.num = r.num => p = r,
         \A x \in a + 1 .. b : \E p \in D : p.num = x
  PROVE  b - a = Cardinality(D)
<1> DEFINE f == [p \in D |-> p.num]
           I == a + 1 .. b
<1>1. f \in [D -> I] /\ (\A p, r \in D : f[p] = f[r] => p = r) /\ (\A x \in I : \E p \in D : f[p] = x)
  OBVIOUS
<1>2. f \in Bijection(D, I)
  BY <1>1, Fun_IsBij
<1>3. ExistsBijection(I, D)
  BY <1>2, Fun_ExistsBij, Fun_ExistsBijSymmetric
<1>4. IsFiniteSet(I) /\ Cardinality(I) = IF a + 1 > b THEN 0 ELSE b - (a + 1) + 1
  <2>1. a + 1 \in Int /\ b \in Int
    OBVIOUS
  <2>2. QED
    BY <2>1, FS_Interval
<1>5. Cardinality(D) = Cardinality(I)
  BY <1>3, <1>4, FS_Bijection
<1>6. QED
  BY <1>4, <1>5

\* Pictures that are shown are the next in line.
LEMMA ShownNext ==
  ASSUME Typed, Lives, OrderInv, HostStep, ~met', shown' # shown
  PROVE  /\ shown < shown' /\ shown' <= sent /\ shown' \in Nat
         /\ \A p \in display' \ display : p.num \in Nat /\ shown < p.num /\ p.num <= shown'
         /\ \A p, r \in display' \ display : p.num = r.num => p = r
         /\ \A x \in Unseen : x <= shown' => \E p \in display' : p.num = x
<1> DEFINE c == NumOf(cur)
           q == NumsOf(queue)
           n == NumOf(isr)
           h == NumsOf(to_host)
           w == NumsOf(waiting)
<1>1. /\ queue \in Seq(Picture) /\ cur \in Picture \cup {None} /\ isr \in Picture \cup {None}
      /\ sent \in Nat /\ shown \in Nat /\ display \subseteq Picture
  BY Queues DEF Typed, FirmwareTyped, HostTyped
<1>2. NumOf(None) = {} /\ \A m \in Picture : NumOf(m) = {m.num} /\ m.num \in Nat
  BY Messages DEF NumOf
<1>3. /\ \A p \in display : p.num <= shown
      /\ Before({shown}, c \cup q \cup n \cup h \cup w)
      /\ Before(c, q \cup n \cup h \cup w) /\ Before(q, n \cup h \cup w) /\ Before(n, h \cup w)
      /\ Before(c \cup q \cup n \cup h \cup w \cup {shown}, {sent + 1})
      /\ Rising(queue)
  BY DEF OrderInv, Line
<1>4. \A x \in Unseen : x \in Nat
  <2>1. /\ \A i \in DOMAIN queue : queue[i].num \in Nat
        /\ \A i \in DOMAIN to_host : to_host[i].num \in Nat
        /\ \A i \in DOMAIN waiting : waiting[i].num \in Nat
        /\ isr # None => isr.num \in Nat
        /\ cur # None => cur.num \in Nat
    BY Queues, Messages DEF Typed, HostTyped, FirmwareTyped
  <2>2. QED
    BY <1>1, <2>1 DEF Unseen, NumsOf, NumOf
<1>5. Unseen = c \cup q \cup n \cup h \cup w
  BY DEF Unseen
<1>6. \A x \in Unseen : shown < x /\ x <= sent
  <2>1. \A x \in Unseen : shown < x /\ x < sent + 1
    BY <1>3, <1>5 DEF Before
  <2>2. QED
    BY <1>1, <1>4, <2>1
\* One picture, m, is shown.
<1>7. ASSUME NEW m \in Picture, display' = display \cup {m}, shown' = m.num, m.num \in Unseen,
             \A x \in Unseen : x = m.num \/ m.num < x
      PROVE  /\ shown < shown' /\ shown' <= sent /\ shown' \in Nat
             /\ \A p \in display' \ display : p.num \in Nat /\ shown < p.num /\ p.num <= shown'
             /\ \A p, r \in display' \ display : p.num = r.num => p = r
             /\ \A x \in Unseen : x <= shown' => \E p \in display' : p.num = x
  <2>1. shown < shown' /\ shown' <= sent /\ shown' \in Nat
    BY <1>2, <1>6, <1>7
  <2>2. \A p \in display' \ display : p = m
    BY <1>7
  <2>3. \A x \in Unseen : x <= shown' => x = m.num
    BY <1>4, <1>7, <2>1
  <2>4. shown' <= shown'
    BY <2>1
  <2>5. QED
    BY <1>7, <2>1, <2>2, <2>3, <2>4
<1>8. CASE RecvLive
  <2>1. /\ isr # None /\ display' = display \cup {isr} /\ shown' = isr.num
    BY <1>8 DEF RecvLive
  <2>2. queue = <<>> /\ cur = None
    BY <1>8 DEF RecvLive, Typed, FirmwareTyped
  <2>3. q = {} /\ c = {} /\ n = {isr.num} /\ isr \in Picture
    BY <1>1, <1>2, <2>1, <2>2, Empty
  <2>4. isr.num \in Unseen /\ \A x \in Unseen : x = isr.num \/ isr.num < x
    BY <1>3, <1>5, <2>3 DEF Before
  <2>5. QED
    BY <1>7, <2>1, <2>3, <2>4
<1>9. CASE VdecSent
  <2>1. cur # None /\ display' = display \cup {cur} /\ shown' = cur.num
    BY <1>9 DEF VdecSent
  <2>2. c = {cur.num} /\ cur \in Picture
    BY <1>1, <1>2, <2>1
  <2>3. cur.num \in Unseen /\ \A x \in Unseen : x = cur.num \/ cur.num < x
    BY <1>3, <1>5, <2>2 DEF Before
  <2>4. QED
    BY <1>7, <2>1, <2>2, <2>3
<1>10. CASE RecvPlayback
  <2>1. isr # None /\ vdec = "idle"
    BY <1>10 DEF RecvPlayback
  <2>2. cur = None
    BY <2>1 DEF Typed, FirmwareTyped
  <2>3. PICK k \in 0..Len(arrived) : Offer(arrived, k)
    BY <1>10 DEF RecvPlayback, arrived
  <2>4. Before(q, n) /\ Before({shown}, q \cup n)
    BY <1>3 DEF Before
  <2>5. /\ shown' \in q \cup n
        /\ \A p \in display' : p.num <= shown'
        /\ \A x \in q \cup n : x <= shown' => \E p \in display' : p.num = x
        /\ \A p \in display' \ display : shown < p.num
        /\ \A p, r \in display' \ display : p.num = r.num => p = r
    BY <1>3, <2>1, <2>3, <2>4, SplitOrder
  <2>6. c = {}
    BY <1>2, <2>2
  <2>7. shown' \in Unseen
    BY <1>5, <2>5
  <2>8. shown < shown' /\ shown' <= sent /\ shown' \in Nat
    BY <1>4, <1>6, <2>7
  <2>9. \A x \in h \cup w : shown' < x
    BY <1>3, <2>5 DEF Before
  <2>10. \A x \in Unseen : x <= shown' => x \in q \cup n
    <3>1. \A x \in h \cup w : x \in Nat
      BY <1>4, <1>5
    <3>2. \A x \in h \cup w : ~(x <= shown')
      BY <2>8, <2>9, <3>1
    <3>3. QED
      BY <1>5, <2>6, <3>2
  <2>11. display' \subseteq Picture
    BY <1>10, TypedStep DEF Typed, FirmwareTyped
  <2>12. \A p \in display' \ display : p.num \in Nat
    BY <1>2, <2>11
  <2>13. QED
    BY <2>5, <2>8, <2>10, <2>12
<1>11. QED
  <2>1. CASE RecvLive \/ VdecSent \/ RecvPlayback
    BY <1>8, <1>9, <1>10, <2>1
  <2>2. CASE ~(RecvLive \/ VdecSent \/ RecvPlayback)
    BY <2>2, KeepsFrame, TakesFrame, HostSteps DEF Giving, TimerRelease, RecvFail
  <2>3. QED
    BY <2>1, <2>2

LEMMA InOrderStep ==
  ASSUME IInv, [Next]_vars, shown' # shown, ~met'
  PROVE  /\ shown' > shown
         /\ ~dropped => shown' - shown = Cardinality(display' \ display)
<1>1. HostStep
  <2>1. Next => SlaveStep \/ HostStep
    BY DEF Next, SlaveStep, HostStep
  <2>2. vars' = vars => shown' = shown
    BY DEF vars
  <2>3. QED
    BY <2>1, <2>2, SlaveFrame
<1>2. ~met
  BY <1>1, TakesFrame, KeepsFrame, HostSteps
     DEF Giving, TimerRelease, RecvLive, RecvPlayback, RecvFail, VdecSent
<1>3. Typed /\ Lives /\ OrderInv
  BY <1>2 DEF IInv
<1>4. shown \in Nat /\ sent \in Nat
  BY <1>3, Queues
<1> DEFINE D == display' \ display
<1>5. /\ shown < shown' /\ shown' <= sent /\ shown' \in Nat
      /\ \A p \in D : p.num \in Nat /\ shown < p.num /\ p.num <= shown'
      /\ \A p, r \in D : p.num = r.num => p = r
      /\ \A x \in Unseen : x <= shown' => \E p \in display' : p.num = x
  BY <1>1, <1>3, ShownNext
<1>6. shown' > shown
  BY <1>4, <1>5
<1>7. ASSUME ~dropped
      PROVE  shown' - shown = Cardinality(D)
  <2>1. shown + 1 .. sent \subseteq Unseen
    BY <1>3, <1>7 DEF OrderInv
  <2>2. \A a, b, e \in Nat : b <= e => \A x \in a + 1 .. b : x \in a + 1 .. e /\ x <= b /\ ~(x <= a)
    OBVIOUS
  <2>3. \A p \in display : p.num <= shown
    BY <1>3 DEF OrderInv, Line
  <2>4. \A x \in shown + 1 .. shown' : \E p \in D : p.num = x
    <3>1. \A x \in shown + 1 .. shown' : x \in shown + 1 .. sent /\ x <= shown' /\ ~(x <= shown)
      BY <1>4, <1>5, <2>2
    <3>2. QED
      BY <1>5, <2>1, <2>3, <3>1
  <2>5. \A p \in D : p.num \in shown + 1 .. shown'
    BY <1>4, <1>5
  <2>6. shown <= shown'
    BY <1>4, <1>5
  <2> HIDE DEF D
  <2>7. QED
    BY <1>4, <1>5, <2>4, <2>5, <2>6, Counted
<1>8. QED
  BY <1>6, <1>7

-----------------------------------------------------------------------------
(* Theorems *)

\* All variables keep their types; the queue of refused pictures takes no node that
\* is not there. (pciv_firmware_comm.c:322-483)
THEOREM TypeCorrect == Spec => []TypeOK
  BY Invariance, TypesFollow, PTL

\* While both chips mean the same life of the channel, each buffer is at one place at
\* most: free at the slave, in a DMA, announced, used by the host or on its way back,
\* unless a READDONE from before a start came after it.
\* (pciv.c:352-409, 720-776, 847-1105)
THEOREM EachAtOnePlace == Spec => []OnePlace
  BY Invariance, OnePlaceFollows, PTL

\* A picture is not overwritten before the display is done with it, except by one of
\* a later life of the channel, unless its buffer was given back when it had just
\* come in, or freed by a stale message.
\* (pciv.c:936-991, pciv_firmware.c:574-619, pciv_firmware_comm.c:578-597)
THEOREM UsedNotOverwritten == Spec => []NotOverwritten
  BY Invariance, NotOverwrittenFollows, PTL

\* Pictures are shown in the order they were sent in, and none is left out that was
\* played back and not given back unseen, unless one came while the timer was about
\* to offer another again. (pciv_firmware_comm.c:322-483)
THEOREM ShownInOrder == Spec => InOrder
<1>1. IInv /\ [Next]_vars =>
        [shown' # shown /\ ~met' =>
           /\ shown' > shown
           /\ ~dropped => shown' - shown = Cardinality(display' \ display)]_vars
  BY InOrderStep
<1>2. QED
  BY <1>1, Invariance, PTL DEF Spec, InOrder

=============================================================================
