---------------------------- MODULE IspBeBufProofs ----------------------------
(***************************************************************************)
(* Proofs about IspBeBuf, for any number of buffers, configurations,       *)
(* deaths and buffers the consumer may have: the inductive invariant, the  *)
(* properties that follow from it, and that the published buffers          *)
(* implement ConfigRegister.                                               *)
(***************************************************************************)
EXTENDS IspBeBuf, FiniteSetTheorems, SequenceTheorems, TLAPS

-----------------------------------------------------------------------------
(* The inductive invariant *)

Free == Range(free_list)
Published == Range(busy_list)

\* The nodes a configuration can come from: on a list or set aside.
InUse == Free \cup Published \cup ({use_node} \cap Nodes)

\* There is a queue; and its nodes have been given their blocks.
Standing == init /\ pc # "malloc"
Ready == init /\ pc \notin {"malloc", "queue"}

\* How often something occurs in a sequence, and how often the consumer has a block.
Occurrences(s, e) == Cardinality({i \in DOMAIN s : s[i] = e})
Count(b) == Occurrences(holds, b)

\* The published nodes that become free when a part of the memory comes back.
Done(b) == {n \in Busy(b) : hold_cnt[n] <= 1 /\ Len(busy_list) > 1}

Places ==
  {"down", "mem", "malloc", "queue", "made", "first", "written", "up", "once", "got",
   "ctl", "end", "last", "switched", "exit", "exit wait", "undo", "undo wait", "reset"}

\* TypeOK without the bounds of the counters, which follow from HoldCounted and UseCounted.
Typed ==
  /\ init \in BOOLEAN
  /\ block \in [Nodes -> Blocks \cup {TD_NULL}]
  /\ free_list \in Seq(Nodes) /\ busy_list \in Seq(Nodes)
  /\ use_node \in Nodes \cup {TD_NULL, Freed}
  /\ hold_cnt \in [Nodes -> Nat] /\ use_cnt \in Nat
  /\ exit_state \in {"EXIT", "READY", "WAITING"}
  /\ run_once_flag \in BOOLEAN /\ mem_init \in BOOLEAN /\ int_enable \in BOOLEAN
  /\ content \in [Blocks -> Configs \cup {Zero}]
  /\ irq \in {"none", "take"}
  /\ pc \in Places
  /\ buf \in Blocks \cup {TD_NULL}
  /\ run_thread_status \in {"EXIT", "RUN", "ONCE"}
  /\ holds \in Seq(Blocks) /\ Len(holds) <= MaxHold
  /\ recalled \in BOOLEAN /\ uncounted \in BOOLEAN
  /\ lost \subseteq Nodes /\ switched \in BOOLEAN /\ crashes \in 0..MaxCrash

\* Which of the firmware's places go with which state of the queue.
Stage ==
  /\ pc \in {"malloc", "queue", "made", "first", "written", "up", "once", "got", "ctl", "end",
             "last", "switched", "undo", "undo wait", "exit wait"} => init
  /\ Ready <=> exit_state # "EXIT"
  /\ ~Standing => free_list = <<>> /\ busy_list = <<>> /\ use_node \notin Nodes
  /\ ~Ready => busy_list = <<>> /\ use_cnt = 0 /\ hold_cnt = [n \in Nodes |-> 0]
  /\ Ready => use_node # Freed
  /\ pc \in {"made", "first", "written", "last", "switched"} => busy_list = <<>>

\* Before the nodes have blocks, no node is away from the free list but the
\* one an interrupt took that was left over from a dead process.
Queued ==
  pc = "queue" =>
    /\ lost = {}
    /\ \A n \in Nodes : block[n] = TD_NULL
    /\ Len(free_list) = (IF use_node \in Nodes THEN NumBufs - 1 ELSE NumBufs)
    /\ irq = "take" => use_node \notin Nodes

\* Each node is on one list, set aside, or lost, and there once.
InOnePlace ==
  \A n \in Nodes :
    /\ n \in Free => n \notin Published /\ n \notin lost /\ n # use_node
    /\ n \in Published => n \notin lost /\ n # use_node
    /\ n \in lost => n # use_node
    /\ n \in Free \/ n \in Published \/ n \in lost \/ n = use_node

Placed == Standing => IsInjective(free_list) /\ IsInjective(busy_list) /\ InOnePlace

\* The nodes in use have blocks, and no two nodes the same one.
Blocked ==
  Ready =>
    /\ \A n \in Free \cup Published \cup ({use_node} \cap Nodes) : block[n] # TD_NULL
    /\ \A m, n \in Nodes : block[m] # TD_NULL /\ block[m] = block[n] => m = n

\* The firmware writes to the block of a node that is on no list.
Owned ==
  pc \in {"first", "got", "last"} =>
    \E n \in Nodes : n \notin Free \cup Published /\ block[n] = buf /\ buf # TD_NULL

\* What the kernel counts is what the consumer has, unless something was taken away.
UseCounted ==
  /\ use_cnt <= Len(holds)
  /\ init /\ ~uncounted => use_cnt = Len(holds)
  /\ ~init /\ ~uncounted => holds = <<>>
  /\ uncounted => recalled
  /\ recalled => holds # <<>>

\* What is counted for a node is what the consumer has of it, and no more if
\* something was taken away from the consumer.
HoldCounted ==
  /\ \A n \in Nodes : n \notin Published => hold_cnt[n] = 0
  /\ Ready => \A n \in Published : hold_cnt[n] <= Count(block[n])
  /\ Ready /\ ~recalled =>
       /\ \A n \in Published : hold_cnt[n] = Count(block[n])
       /\ \A b \in Range(holds) : \E n \in Published : block[n] = b

\* All published nodes but the newest are with the consumer.
Ordered ==
  \A n \in Published : hold_cnt[n] = 0 => n = Last(busy_list)

\* Where the firmware can be between two frames and in them, and where it is
\* after its first configuration has been copied to all buffers.
Running == {"up", "got", "ctl", "last", "switched"}
Configured == {"up", "once", "got", "ctl", "end"}

\* While no process has died, the interrupt is on between ot_mpi_isp_run and
\* ot_mpi_isp_exit only, so that no other step sets a buffer aside meanwhile.
Scheduled ==
  /\ int_enable => pc \in Running /\ run_thread_status = "RUN"
  /\ irq = "take" => \/ pc \in Running /\ run_thread_status = "RUN"
                     \/ pc \in {"exit", "exit wait", "reset", "down"}
  /\ pc \in {"once", "end"} => run_thread_status = "ONCE"
  /\ pc \in {"queue", "made"} => use_node \notin Nodes
  /\ pc \in {"last", "switched"} => switched

\* And as long as the image mode has not been changed, every buffer set aside
\* is published, and every buffer has a configuration in it.
Kept ==
  /\ lost = {}
  /\ irq = "take" => use_node \notin Nodes
  /\ pc \in {"first", "written"} => use_node \in Nodes /\ buf = block[use_node]
  /\ pc = "written" => content[buf] # Zero
  /\ \A n \in Published : content[block[n]] # Zero
  /\ pc \in Configured => \A n \in Free \cup ({use_node} \cap Nodes) : content[block[n]] # Zero

NoLoss == crashes = 0 => Scheduled /\ (~switched => Kept)

IInv ==
  /\ Typed /\ Stage /\ Queued /\ Placed /\ Blocked /\ Owned /\ UseCounted /\ HoldCounted /\ Ordered /\ NoLoss

-----------------------------------------------------------------------------
(* Sequences and lists *)

\* The elements of a concatenation, and when they are distinct.
LEMMA ConcatRange ==
  ASSUME NEW S, NEW s \in Seq(S), NEW t \in Seq(S)
  PROVE  /\ Range(s \o t) = Range(s) \cup Range(t)
         /\ IsInjective(s \o t) <=> /\ IsInjective(s) /\ IsInjective(t)
                                 /\ Range(s) \cap Range(t) = {}
<1> DEFINE st == s \o t
<1>1. /\ st \in Seq(S) /\ Len(st) = Len(s) + Len(t)
      /\ \A i \in 1..Len(s) + Len(t) : st[i] = IF i <= Len(s) THEN s[i] ELSE t[i - Len(s)]
  BY ConcatProperties
<1>2. /\ Len(s) \in Nat /\ Len(t) \in Nat
      /\ DOMAIN s = 1..Len(s) /\ DOMAIN t = 1..Len(t) /\ DOMAIN st = 1..Len(s) + Len(t)
  BY <1>1, LenProperties
<1> HIDE DEF st
<1>3. \A i \in 1..Len(s) : i \in DOMAIN st /\ st[i] = s[i]
  BY <1>1, <1>2
<1>4. \A i \in 1..Len(t) : i + Len(s) \in DOMAIN st /\ st[i + Len(s)] = t[i]
  BY <1>1, <1>2
<1>5. \A i \in DOMAIN st : \/ i \in 1..Len(s)
                           \/ i - Len(s) \in 1..Len(t) /\ i = (i - Len(s)) + Len(s)
  BY <1>2
<1>6. Range(st) = Range(s) \cup Range(t)
  BY <1>2, <1>3, <1>4, <1>5 DEF Range
<1>7. ASSUME IsInjective(st)
      PROVE  IsInjective(s) /\ IsInjective(t) /\ Range(s) \cap Range(t) = {}
  <2>1. IsInjective(s)
    BY <1>2, <1>3, <1>7 DEF IsInjective
  <2>2. IsInjective(t)
    <3>1. \A i, j \in 1..Len(t) : i # j => i + Len(s) # j + Len(s)
      BY <1>2
    <3>2. QED
      BY <3>1, <1>2, <1>4, <1>7 DEF IsInjective
  <2>3. \A i \in 1..Len(s), j \in 1..Len(t) : s[i] # t[j]
    <3>1. \A i \in 1..Len(s), j \in 1..Len(t) : i # j + Len(s)
      BY <1>2
    <3>2. QED
      BY <3>1, <1>3, <1>4, <1>7 DEF IsInjective
  <2>4. QED
    BY <2>1, <2>2, <2>3, <1>2 DEF Range
<1>8. ASSUME IsInjective(s), IsInjective(t), Range(s) \cap Range(t) = {}
      PROVE  IsInjective(st)
  <2>1. \A i \in 1..Len(s), j \in 1..Len(t) : s[i] # t[j]
    BY <1>2, <1>8 DEF Range
  <2>2. SUFFICES ASSUME NEW i \in DOMAIN st, NEW j \in DOMAIN st, i # j
                 PROVE  st[i] # st[j]
    BY DEF IsInjective
  <2>3. CASE i \in 1..Len(s) /\ j \in 1..Len(s)
    BY <2>2, <2>3, <1>2, <1>3, <1>8 DEF IsInjective
  <2>4. CASE i \in 1..Len(s) /\ j - Len(s) \in 1..Len(t)
    BY <2>1, <2>4, <1>3, <1>4, <1>5, <1>2
  <2>5. CASE j \in 1..Len(s) /\ i - Len(s) \in 1..Len(t)
    BY <2>1, <2>5, <1>3, <1>4, <1>5, <1>2
  <2>6. CASE i - Len(s) \in 1..Len(t) /\ j - Len(s) \in 1..Len(t)
    <3>1. i - Len(s) # j - Len(s)
      BY <2>2, <1>2
    <3>2. t[i - Len(s)] # t[j - Len(s)]
      BY <3>1, <2>6, <1>2, <1>8 DEF IsInjective
    <3>3. st[i] = t[i - Len(s)] /\ st[j] = t[j - Len(s)]
      BY <2>2, <2>6, <1>1, <1>2
    <3>4. QED
      BY <3>2, <3>3
  <2>7. QED
    BY <2>3, <2>4, <2>5, <2>6, <1>5, <2>2
<1>9. QED
  BY <1>6, <1>7, <1>8 DEF st

\* A sequence of one element, and the empty one.
LEMMA OneElement ==
  ASSUME NEW S, NEW e \in S
  PROVE  /\ <<e>> \in Seq(S) /\ Len(<<e>>) = 1
         /\ Range(<<e>>) = {e} /\ IsInjective(<<e>>)
         /\ <<>> \in Seq(S) /\ Len(<<>>) = 0
         /\ Range(<<>>) = {} /\ IsInjective(<<>>)
BY DEF Range, IsInjective

\* A sequence is its head before its tail, and appending is concatenation.
LEMMA HeadThenTail ==
  ASSUME NEW S, NEW s \in Seq(S), NEW e \in S
  PROVE  /\ s # <<>> => /\ Head(s) \in S /\ Tail(s) \in Seq(S)
                        /\ Len(s) \in Nat \ {0} /\ Len(Tail(s)) = Len(s) - 1
                        /\ s = <<Head(s)>> \o Tail(s)
         /\ Append(s, e) = s \o <<e>>
<1>1. ASSUME s # <<>>
      PROVE  s = <<Head(s)>> \o Tail(s)
  <2>1. /\ Head(s) \in S /\ Tail(s) \in Seq(S) /\ Len(Tail(s)) = Len(s) - 1
        /\ \A i \in 1..Len(Tail(s)) : Tail(s)[i] = s[i + 1]
    BY <1>1, HeadTailProperties
  <2>2. /\ <<Head(s)>> \in Seq(S) /\ Len(<<Head(s)>>) = 1 /\ <<Head(s)>>[1] = Head(s)
    BY <2>1, OneElement
  <2> DEFINE u == <<Head(s)>> \o Tail(s)
  <2>3. /\ u \in Seq(S) /\ Len(u) = 1 + Len(Tail(s))
        /\ \A i \in 1..1 + Len(Tail(s)) :
             u[i] = IF i <= 1 THEN <<Head(s)>>[i] ELSE Tail(s)[i - 1]
    BY <2>1, <2>2, ConcatProperties
  <2>4. Len(s) \in Nat \ {0}
    BY <1>1, EmptySeq
  <2>5. ASSUME NEW i \in 1..Len(s)
        PROVE  u[i] = s[i]
    <3>1. CASE i = 1
      <4>1. Head(s) = s[1]
        OBVIOUS
      <4>2. QED
        BY <4>1, <3>1, <2>1, <2>2, <2>3, <2>4
    <3>2. CASE i # 1
      <4>1. i - 1 \in 1..Len(Tail(s)) /\ (i - 1) + 1 = i /\ ~(i <= 1)
        BY <3>2, <2>1, <2>4
      <4>2. u[i] = Tail(s)[i - 1]
        BY <4>1, <2>1, <2>3, <2>4
      <4>3. QED
        BY <4>1, <4>2, <2>1
    <3>3. QED
      BY <3>1, <3>2
  <2> HIDE DEF u
  <2>6. u = s
    BY <2>1, <2>3, <2>4, <2>5, SeqEqual
  <2>7. QED
    BY <2>6 DEF u
<1>2. QED
  BY <1>1, HeadTailProperties, EmptySeq, AppendIsConcat

\* The elements of a sequence of nodes are nodes.
LEMMA RangeInSet ==
  ASSUME NEW S, NEW s \in Seq(S)
  PROVE  Range(s) \subseteq S
BY LenProperties, ElementOfSeq DEF Range

\* What Append does to the elements.
LEMMA AppendRange ==
  ASSUME NEW S, NEW s \in Seq(S), NEW e \in S
  PROVE  /\ Append(s, e) \in Seq(S) /\ Append(s, e) # <<>>
         /\ Range(Append(s, e)) = Range(s) \cup {e}
         /\ IsInjective(s) /\ e \notin Range(s) => IsInjective(Append(s, e))
         /\ Last(Append(s, e)) = e
<1>1. Append(s, e) = s \o <<e>>
  BY HeadThenTail
<1>2. /\ Range(Append(s, e)) = Range(s) \cup {e}
      /\ IsInjective(s) /\ e \notin Range(s) => IsInjective(Append(s, e))
  <2>1. <<e>> \in Seq(S) /\ Range(<<e>>) = {e} /\ IsInjective(<<e>>)
    BY OneElement
  <2>2. /\ Range(s \o <<e>>) = Range(s) \cup Range(<<e>>)
        /\ IsInjective(s \o <<e>>) <=> /\ IsInjective(s) /\ IsInjective(<<e>>)
                                       /\ Range(s) \cap Range(<<e>>) = {}
    BY <2>1, ConcatRange
  <2>3. QED
    BY <1>1, <2>1, <2>2, Zenon
<1>3. QED
  BY <1>2, AppendProperties DEF Last

\* What taking the head does to the elements.
LEMMA TailRange ==
  ASSUME NEW S, NEW s \in Seq(S), s # <<>>
  PROVE  /\ Head(s) \in S /\ Tail(s) \in Seq(S)
         /\ Range(s) = {Head(s)} \cup Range(Tail(s))
         /\ IsInjective(s) => IsInjective(Tail(s)) /\ Head(s) \notin Range(Tail(s))
         /\ Len(Tail(s)) = Len(s) - 1
<1>1. /\ Head(s) \in S /\ Tail(s) \in Seq(S) /\ s = <<Head(s)>> \o Tail(s)
      /\ Len(Tail(s)) = Len(s) - 1
  BY HeadThenTail
<1>2. <<Head(s)>> \in Seq(S) /\ Range(<<Head(s)>>) = {Head(s)}
  BY <1>1, OneElement
<1>3. /\ Range(<<Head(s)>> \o Tail(s)) = Range(<<Head(s)>>) \cup Range(Tail(s))
      /\ IsInjective(<<Head(s)>> \o Tail(s)) =>
           IsInjective(Tail(s)) /\ Range(<<Head(s)>>) \cap Range(Tail(s)) = {}
  BY <1>1, <1>2, ConcatRange
<1>4. QED
  BY <1>1, <1>2, <1>3

\* The last element, and what taking it does to the elements.
LEMMA FrontRange ==
  ASSUME NEW S, NEW s \in Seq(S), s # <<>>
  PROVE  /\ Last(s) \in S /\ Front(s) \in Seq(S) /\ Last(s) \in Range(s)
         /\ Range(s) = Range(Front(s)) \cup {Last(s)}
         /\ IsInjective(s) => IsInjective(Front(s)) /\ Last(s) \notin Range(Front(s))
<1>1. Len(s) \in Nat \ {0} /\ DOMAIN s = 1..Len(s)
  BY EmptySeq, LenProperties
<1>2. Len(s) \in DOMAIN s /\ Last(s) = s[Len(s)] /\ Last(s) \in S
  BY <1>1, ElementOfSeq DEF Last
<1>3. Front(s) = SubSeq(s, 1, Len(s) - 1) /\ \A i \in 1..Len(s) - 1 : s[i] \in S
  BY <1>1, ElementOfSeq DEF Front
<1>4. /\ Front(s) \in Seq(S) /\ Len(Front(s)) = Len(s) - 1
      /\ \A i \in 1..Len(s) - 1 : Front(s)[i] = s[i]
  <2>1. 1 \in Int /\ Len(s) - 1 \in Int
    BY <1>1
  <2>2. /\ SubSeq(s, 1, Len(s) - 1) \in Seq(S)
        /\ Len(SubSeq(s, 1, Len(s) - 1)) = IF 1 <= Len(s) - 1 THEN (Len(s) - 1) - 1 + 1 ELSE 0
        /\ \A i \in 1..(Len(s) - 1) - 1 + 1 : SubSeq(s, 1, Len(s) - 1)[i] = s[1 + i - 1]
    BY <1>3, <2>1, SubSeqProperties
  <2>3. QED
    BY <1>1, <1>3, <2>2
<1>5. DOMAIN Front(s) = 1..Len(s) - 1
  BY <1>4, LenProperties
<1>6. Range(s) = Range(Front(s)) \cup {Last(s)}
  BY <1>1, <1>2, <1>4, <1>5 DEF Range
<1>7. IsInjective(s) => IsInjective(Front(s)) /\ Last(s) \notin Range(Front(s))
  BY <1>1, <1>2, <1>4, <1>5 DEF Range, IsInjective
<1>8. QED
  BY <1>2, <1>4, <1>6, <1>7

\* An empty sequence has no elements, and no other.
LEMMA NoElements ==
  ASSUME NEW S, NEW s \in Seq(S)
  PROVE  s = <<>> <=> Range(s) = {}
<1>1. ASSUME s # <<>> PROVE Range(s) # {}
  BY <1>1, FrontRange
<1>2. Range(<<>>) = {}
  BY DEF Range
<1>3. QED
  BY <1>1, <1>2

\* The places of a finite set of numbers, in order.
LEMMA RankBijection ==
  ASSUME NEW A \in SUBSET Nat, IsFiniteSet(A)
  PROVE  LET Rank(i) == Cardinality({j \in A : j <= i})
         IN  /\ Cardinality(A) \in Nat
             /\ \A i \in A : Rank(i) \in 1..Cardinality(A)
             /\ \A i, k \in A : Rank(i) = Rank(k) => i = k
             /\ \A m \in 1..Cardinality(A) : \E i \in A : Rank(i) = m
             /\ \A i \in A : (\A j \in A : j <= i) => Rank(i) = Cardinality(A)
<1> DEFINE Rank(i) == Cardinality({j \in A : j <= i})
<1>1. Cardinality(A) \in Nat
  BY FS_CardinalityType
<1>2. ASSUME NEW i \in A
      PROVE  Rank(i) \in 1..Cardinality(A)
  <2> DEFINE B == {j \in A : j <= i}
  <2>1. B \in SUBSET A /\ i \in B
    OBVIOUS
  <2> HIDE DEF B
  <2>2. IsFiniteSet(B) /\ Cardinality(B) <= Cardinality(A)
    BY <2>1, FS_Subset
  <2>3. Cardinality(B) \in Nat /\ Cardinality(B) # 0
    BY <2>1, <2>2, FS_CardinalityType, FS_EmptySet
  <2>4. QED
    BY <1>1, <2>2, <2>3 DEF B
<1>3. ASSUME NEW i \in A, NEW k \in A, i < k
      PROVE  Rank(i) # Rank(k)
  <2> DEFINE B == {j \in A : j <= i}
             C == {j \in A : j <= k}
  <2>1. B \in SUBSET C /\ k \in C /\ k \notin B /\ C \in SUBSET A
    <3>1. i \in Nat /\ k \in Nat /\ \A j \in A : j \in Nat
      OBVIOUS
    <3>2. (\A j \in A : j <= i => j <= k) /\ k <= k /\ ~(k <= i)
      BY <1>3, <3>1, SMT
    <3>3. QED
      BY <3>2, Zenon
  <2> HIDE DEF B, C
  <2>2. IsFiniteSet(C)
    BY <2>1, FS_Subset
  <2>3. Cardinality(B) # Cardinality(C)
    BY <2>1, <2>2, FS_Subset
  <2>4. QED
    BY <2>3 DEF B, C
<1>4. \A i, k \in A : Rank(i) = Rank(k) => i = k
  <2>1. \A i, k \in A : i < k \/ k < i \/ i = k
    OBVIOUS
  <2> HIDE DEF Rank
  <2>2. QED
    BY <1>3, <2>1
<1>5. \A m \in 1..Cardinality(A) : \E i \in A : Rank(i) = m
  <2> HIDE DEF Rank
  <2> DEFINE rank == [i \in A |-> Rank(i)]
             K == 1..Cardinality(A)
  <2>1. rank \in Injection(A, K)
    BY <1>2, <1>4 DEF Injection, IsInjective
  <2>2. IsFiniteSet(K) /\ Cardinality(K) = Cardinality(A)
    BY <1>1, FS_Interval
  <2>3. rank \in Surjection(A, K)
    BY <2>1, <2>2, FS_Injection
  <2>4. QED
    BY <2>3 DEF Surjection
<1>6. ASSUME NEW i \in A, \A j \in A : j <= i
      PROVE  Rank(i) = Cardinality(A)
  <2>1. {j \in A : j <= i} = A
    BY <1>6
  <2>2. QED
    BY <2>1
<1>7. QED
  BY <1>1, <1>2, <1>4, <1>5, <1>6

\* Only keeps the elements that are in the set, their order and, if it is one of
\* them, the last one.
LEMMA OnlyRange ==
  ASSUME NEW T, NEW list \in Seq(T), NEW S
  PROVE  /\ Only(list, S) \in Seq(T)
         /\ Range(Only(list, S)) = Range(list) \cap S
         /\ IsInjective(list) => IsInjective(Only(list, S))
         /\ list # <<>> /\ Last(list) \in S =>
              Only(list, S) # <<>> /\ Last(Only(list, S)) = Last(list)
<1> DEFINE at == {i \in DOMAIN list : list[i] \in S}
           Rank(i) == Cardinality({j \in at : j <= i})
           K == Cardinality(at)
           Place(k) == CHOOSE i \in at : Rank(i) = k
           only == [k \in 1..K |-> list[Place(k)]]
<1>1. Len(list) \in Nat /\ DOMAIN list = 1..Len(list)
  BY LenProperties
<1>2. at \in SUBSET Nat /\ at \in SUBSET (1..Len(list)) /\ IsFiniteSet(at)
  <2>1. at \in SUBSET Nat /\ at \in SUBSET (1..Len(list))
    BY <1>1
  <2>2. IsFiniteSet(1..Len(list))
    BY <1>1, FS_Interval
  <2> HIDE DEF at
  <2>3. QED
    BY <2>1, <2>2, FS_Subset
<1>3. Only(list, S) = only
  BY DEF Only
<1>4. /\ K \in Nat
      /\ \A i \in at : Rank(i) \in 1..K
      /\ \A i, k \in at : Rank(i) = Rank(k) => i = k
      /\ \A m \in 1..K : \E i \in at : Rank(i) = m
      /\ \A i \in at : (\A j \in at : j <= i) => Rank(i) = K
  <2> HIDE DEF at
  <2>1. QED
    BY <1>2, RankBijection
<1>5. \A i \in at : i \in 1..Len(list) /\ list[i] \in S /\ list[i] \in T
  BY <1>1, ElementOfSeq
<1>6. \A i \in 1..Len(list) : list[i] \in S => i \in at
  BY <1>1
<1> HIDE DEF at, Rank, K
<1>7. \A k \in 1..K : Place(k) \in at /\ Rank(Place(k)) = k
  BY <1>4
<1> HIDE DEF Place
<1>8. \A i \in at : Rank(i) \in 1..K /\ Place(Rank(i)) = i
  BY <1>4, <1>7
<1>9. /\ only \in Seq(T) /\ Len(only) = K /\ DOMAIN only = 1..K
      /\ \A k \in 1..K : only[k] = list[Place(k)]
  <2>1. \A k \in 1..K : list[Place(k)] \in T
    BY <1>5, <1>7
  <2>2. only \in Seq(T)
    BY <1>4, <2>1, IsASeq
  <2>3. DOMAIN only = 1..K /\ Len(only) \in Nat /\ DOMAIN only = 1..Len(only)
    BY <2>2, LenProperties
  <2>4. Len(only) = K
    BY <1>4, <2>3
  <2>5. QED
    BY <2>2, <2>3, <2>4
<1> HIDE DEF only
<1>10. Range(only) = Range(list) \cap S
  <2>1. ASSUME NEW x \in Range(only)
        PROVE  x \in Range(list) \cap S
    <3>1. PICK k \in 1..K : x = list[Place(k)]
      BY <1>9 DEF Range
    <3>2. QED
      BY <3>1, <1>1, <1>5, <1>7 DEF Range
  <2>2. ASSUME NEW x \in Range(list) \cap S
        PROVE  x \in Range(only)
    <3>1. PICK i \in 1..Len(list) : x = list[i]
      BY <1>1 DEF Range
    <3>2. i \in at
      BY <3>1, <1>6
    <3>3. Rank(i) \in 1..K /\ only[Rank(i)] = x
      BY <3>1, <3>2, <1>8, <1>9
    <3>4. QED
      BY <3>3, <1>9 DEF Range
  <2>3. QED
    BY <2>1, <2>2
<1>11. ASSUME IsInjective(list)
       PROVE  IsInjective(only)
  <2>1. SUFFICES ASSUME NEW j \in 1..K, NEW k \in 1..K, only[j] = only[k]
                 PROVE  j = k
    BY <1>9 DEF IsInjective
  <2>2. Place(j) = Place(k)
    BY <2>1, <1>1, <1>5, <1>7, <1>9, <1>11 DEF IsInjective
  <2>3. QED
    BY <2>2, <1>7
<1>12. ASSUME list # <<>>, Last(list) \in S
       PROVE  only # <<>> /\ Last(only) = Last(list)
  <2>1. Len(list) \in 1..Len(list) /\ Last(list) = list[Len(list)]
    BY <1>12, <1>1, EmptySeq DEF Last
  <2>2. Len(list) \in at
    BY <2>1, <1>6, <1>12
  <2>3. Rank(Len(list)) = K
    <3>1. \A j \in at : j <= Len(list)
      BY <1>1, <1>5
    <3>2. QED
      BY <2>2, <3>1, <1>4
  <2>4. K \in 1..K /\ Place(K) = Len(list)
    BY <2>2, <2>3, <1>8
  <2>5. only[Len(only)] = Last(list) /\ Len(only) # 0
    BY <2>1, <2>4, <1>9
  <2>6. QED
    BY <2>5, EmptySeq DEF Last
<1>13. QED
  BY <1>3, <1>9, <1>10, <1>11, <1>12

\* The nodes of a set, in some order.
LEMMA SetToSeqRange ==
  ASSUME NEW T, NEW A \in SUBSET T, IsFiniteSet(A)
  PROVE  /\ SetToSeq(A) \in Seq(T)
         /\ Range(SetToSeq(A)) = A /\ IsInjective(SetToSeq(A))
<1> DEFINE K == Cardinality(A)
           s == SetToSeq(A)
<1>1. K \in Nat /\ \E f \in Bijection(1..K, A) : TRUE
  BY FS_CardinalityType DEF ExistsBijection
<1>2. \E f \in [1..K -> A] : IsInjective(f)
  BY <1>1 DEF Bijection, Injection
<1>3. s \in [1..K -> A] /\ IsInjective(s)
  BY <1>2 DEF SetToSeq
<1>4. \A i \in 1..K : s[i] \in T
  BY <1>3
<1> HIDE DEF s
<1>5. s \in Seq(T)
  <2> HIDE DEF K
  <2>1. s \in [1..K -> T]
    BY <1>3, <1>4
  <2>2. QED
    BY <1>1, <2>1, SeqDef
<1>6. s \in Injection(1..K, A) /\ IsFiniteSet(1..K) /\ Cardinality(1..K) = K
  BY <1>1, <1>3, FS_Interval DEF Injection
<1>7. s \in Surjection(1..K, A)
  BY <1>6, FS_Injection
<1>8. Range(s) = A
  BY <1>3, <1>7 DEF Surjection, Range
<1>9. QED
  BY <1>3, <1>5, <1>8 DEF s

\* Occurrences are no more than places, and what does not occur has none.
LEMMA OccurrencesBounds ==
  ASSUME NEW S, NEW s \in Seq(S), NEW e
  PROVE  /\ Occurrences(s, e) \in 0..Len(s)
         /\ Occurrences(s, e) = 0 <=> e \notin Range(s)
         /\ IsFiniteSet({i \in DOMAIN s : s[i] = e})
<1> DEFINE at == {i \in DOMAIN s : s[i] = e}
<1>1. Len(s) \in Nat /\ DOMAIN s = 1..Len(s)
  BY LenProperties
<1>2. IsFiniteSet(1..Len(s)) /\ Cardinality(1..Len(s)) = Len(s)
  BY <1>1, FS_Interval
<1>3. at \in SUBSET (1..Len(s))
  BY <1>1
<1>4. at = {} <=> e \notin Range(s)
  BY DEF Range
<1> HIDE DEF at
<1>5. IsFiniteSet(at) /\ Cardinality(at) <= Len(s) /\ Cardinality(at) \in Nat
  BY <1>2, <1>3, FS_Subset, FS_CardinalityType
<1>6. Cardinality(at) = 0 <=> at = {}
  BY <1>5, FS_EmptySet
<1>7. QED
  BY <1>1, <1>4, <1>5, <1>6 DEF at, Occurrences

\* Appending adds one occurrence.
LEMMA AppendOccurrences ==
  ASSUME NEW S, NEW s \in Seq(S), NEW x \in S, NEW e
  PROVE  Occurrences(Append(s, x), e) = IF x = e THEN Occurrences(s, e) + 1 ELSE Occurrences(s, e)
<1> DEFINE a == Append(s, x)
           before == {i \in DOMAIN s : s[i] = e}
           after == {i \in DOMAIN a : a[i] = e}
<1>1. Len(s) \in Nat /\ DOMAIN s = 1..Len(s)
  BY LenProperties
<1>2. /\ Len(a) = Len(s) + 1 /\ DOMAIN a = 1..Len(s) + 1
      /\ \A i \in 1..Len(s) : a[i] = s[i]
      /\ a[Len(s) + 1] = x
  BY AppendProperties, LenProperties
<1> HIDE DEF a
<1>3. after = before \cup (IF x = e THEN {Len(s) + 1} ELSE {}) /\ Len(s) + 1 \notin before
  BY <1>1, <1>2
<1>4. IsFiniteSet(before)
  BY OccurrencesBounds
<1> HIDE DEF before, after
<1>5. Cardinality(after) = IF x = e THEN Cardinality(before) + 1 ELSE Cardinality(before)
  <2>1. CASE x = e
    BY <2>1, <1>3, <1>4, FS_AddElement
  <2>2. CASE x # e
    BY <2>2, <1>3
  <2>3. QED
    BY <2>1, <2>2
<1>6. QED
  BY <1>5 DEF a, before, after, Occurrences

\* Removing a place removes one occurrence of what was there.
LEMMA RemoveOccurrences ==
  ASSUME NEW S, NEW s \in Seq(S), NEW p \in DOMAIN s, NEW e
  PROVE  /\ RemoveAt(s, p) \in Seq(S) /\ Len(RemoveAt(s, p)) = Len(s) - 1
         /\ Range(RemoveAt(s, p)) \subseteq Range(s)
         /\ Occurrences(RemoveAt(s, p), e) =
              IF s[p] = e THEN Occurrences(s, e) - 1 ELSE Occurrences(s, e)
<1> DEFINE r == RemoveAt(s, p)
           front == SubSeq(s, 1, p - 1)
           back == SubSeq(s, p + 1, Len(s))
           before == {i \in DOMAIN s : s[i] = e}
           after == {i \in DOMAIN r : r[i] = e}
<1>1. Len(s) \in Nat /\ DOMAIN s = 1..Len(s) /\ p \in 1..Len(s)
  BY LenProperties
<1>2. \A i \in 1..Len(s) : s[i] \in S
  BY ElementOfSeq
<1>3. /\ front \in Seq(S) /\ Len(front) = p - 1
      /\ \A i \in 1..p - 1 : front[i] = s[i]
  <2>1. 1 \in Int /\ p - 1 \in Int /\ \A i \in 1..p - 1 : s[i] \in S
    BY <1>1, <1>2
  <2>2. /\ front \in Seq(S) /\ Len(front) = IF 1 <= p - 1 THEN (p - 1) - 1 + 1 ELSE 0
        /\ \A i \in 1..(p - 1) - 1 + 1 : front[i] = s[1 + i - 1]
    BY <2>1, SubSeqProperties
  <2> HIDE DEF front
  <2>3. QED
    BY <2>2, <1>1
<1>4. /\ back \in Seq(S) /\ Len(back) = Len(s) - p
      /\ \A i \in 1..Len(s) - p : back[i] = s[p + i]
  <2>1. p + 1 \in Int /\ Len(s) \in Int /\ \A i \in p + 1..Len(s) : s[i] \in S
    BY <1>1, <1>2
  <2>2. /\ back \in Seq(S) /\ Len(back) = IF p + 1 <= Len(s) THEN Len(s) - (p + 1) + 1 ELSE 0
        /\ \A i \in 1..Len(s) - (p + 1) + 1 : back[i] = s[(p + 1) + i - 1]
    BY <2>1, SubSeqProperties
  <2> HIDE DEF back
  <2>3. Len(s) - (p + 1) + 1 = Len(s) - p /\ (~(p + 1 <= Len(s)) => Len(s) - p = 0)
    BY <1>1
  <2>4. Len(back) = Len(s) - p
    BY <2>2, <2>3
  <2>5. ASSUME NEW i \in 1..Len(s) - p
        PROVE  back[i] = s[p + i]
    <3>1. (p + 1) + i - 1 = p + i
      BY <1>1
    <3>2. QED
      BY <2>2, <2>3, <3>1
  <2>6. QED
    BY <2>2, <2>4, <2>5
<1>5. r = front \o back
  BY DEF RemoveAt
<1> HIDE DEF front, back
<1>6. /\ r \in Seq(S) /\ Len(r) = Len(s) - 1 /\ DOMAIN r = 1..Len(s) - 1
      /\ \A i \in 1..Len(s) - 1 : r[i] = IF i < p THEN s[i] ELSE s[i + 1]
  <2>1. /\ front \o back \in Seq(S) /\ Len(front \o back) = Len(front) + Len(back)
        /\ \A i \in 1..Len(front) + Len(back) :
             (front \o back)[i] = IF i <= Len(front) THEN front[i] ELSE back[i - Len(front)]
    BY <1>3, <1>4, ConcatProperties
  <2>2. Len(r) = Len(s) - 1 /\ r \in Seq(S)
    <3>1. Len(front) + Len(back) = Len(s) - 1
      BY <1>1, <1>3, <1>4
    <3>2. QED
      BY <2>1, <3>1, <1>5, Zenon
  <2>3. DOMAIN r = 1..Len(s) - 1
    BY <2>2, LenProperties
  <2>4. ASSUME NEW i \in 1..Len(s) - 1
        PROVE  r[i] = IF i < p THEN s[i] ELSE s[i + 1]
    <3>1. r[i] = IF i <= p - 1 THEN front[i] ELSE back[i - (p - 1)]
      <4>1. i \in 1..Len(front) + Len(back) /\ Len(front) = p - 1
        BY <1>1, <1>3, <1>4
      <4>2. r[i] = IF i <= Len(front) THEN front[i] ELSE back[i - Len(front)]
        BY <2>1, <4>1, <1>5
      <4>3. QED
        BY <4>1, <4>2
    <3>2. CASE i < p
      BY <3>1, <3>2, <1>1, <1>3
    <3>3. CASE ~(i < p)
      <4>1. i - (p - 1) \in 1..Len(s) - p /\ p + (i - (p - 1)) = i + 1 /\ ~(i <= p - 1)
        BY <3>3, <1>1
      <4>2. r[i] = back[i - (p - 1)] /\ back[i - (p - 1)] = s[p + (i - (p - 1))]
        BY <3>1, <4>1, <1>4
      <4>3. QED
        BY <4>1, <4>2, <3>3
    <3>4. QED
      BY <3>2, <3>3
  <2>5. QED
    BY <2>2, <2>3, <2>4
<1> HIDE DEF r
<1>7. Range(r) \subseteq Range(s)
  BY <1>1, <1>6 DEF Range
<1> DEFINE others == before \ {p}
           Old(i) == IF i < p THEN i ELSE i + 1
           old == [i \in after |-> Old(i)]
<1>8. /\ \A i \in after : Old(i) \in others
      /\ \A i, k \in after : Old(i) = Old(k) => i = k
      /\ \A m \in others : \E i \in after : Old(i) = m
  <2>1. \A i \in after : Old(i) \in others
    BY <1>1, <1>6
  <2>2. \A i, k \in after : Old(i) = Old(k) => i = k
    BY <1>1, <1>6
  <2>3. ASSUME NEW m \in others
        PROVE  \E i \in after : Old(i) = m
    <3>1. m \in 1..Len(s) /\ s[m] = e /\ m # p
      BY <1>1
    <3>2. CASE m < p
      <4>1. m \in 1..Len(s) - 1 /\ r[m] = e
        BY <3>1, <3>2, <1>1, <1>6
      <4>2. m \in after /\ Old(m) = m
        BY <4>1, <3>2, <1>6
      <4>3. QED
        BY <4>2
    <3>3. CASE p < m
      <4>1. m - 1 \in 1..Len(s) - 1 /\ ~(m - 1 < p) /\ (m - 1) + 1 = m
        BY <3>1, <3>3, <1>1
      <4>2. m - 1 \in after /\ Old(m - 1) = m
        BY <4>1, <3>1, <1>6
      <4>3. QED
        BY <4>2
    <3>4. QED
      BY <3>1, <3>2, <3>3, <1>1
  <2>4. QED
    BY <2>1, <2>2, <2>3
<1>9. Cardinality(others) = IF s[p] = e THEN Cardinality(before) - 1 ELSE Cardinality(before)
  <2>1. IsFiniteSet(before) /\ (p \in before <=> s[p] = e)
    BY OccurrencesBounds, <1>1
  <2> HIDE DEF before
  <2>2. QED
    BY <2>1, FS_RemoveElement
<1>10. Cardinality(after) = Cardinality(others)
  <2>1. IsFiniteSet(others)
    <3>1. IsFiniteSet(before)
      BY OccurrencesBounds
    <3> HIDE DEF before
    <3>2. QED
      BY <3>1, FS_RemoveElement
  <2> HIDE DEF after, others, Old
  <2>2. old \in Injection(after, others) /\ old \in Surjection(after, others)
    BY <1>8 DEF Injection, Surjection, IsInjective
  <2>3. QED
    BY <2>1, <2>2, FS_Injection
<1>11. QED
  BY <1>6, <1>7, <1>9, <1>10 DEF r, before, after, Occurrences

-----------------------------------------------------------------------------
(* Remainders *)

\* Remainders of numbers below twice the divisor.
LEMMA Remainders ==
  ASSUME NEW l \in Nat \ {0}, NEW x \in 0..(l - 1)
  PROVE  x % l = x /\ (x + l) % l = x
<1>1. ASSUME NEW y \in Nat
      PROVE  y % l \in 0..(l - 1) /\ y \div l \in Nat /\ y = l * (y \div l) + (y % l)
  OBVIOUS
<1>2. ASSUME NEW y \in Nat, NEW q \in Nat, NEW r \in 0..(l - 1), y = l * q + r
      PROVE  y % l = r
  <2> DEFINE a == y \div l
             m == y % l
  <2>1. m \in 0..(l - 1) /\ a \in Nat /\ y = l * a + m
    BY <1>1
  <2> HIDE DEF a, m
  <2>2. ASSUME NEW u \in Nat, NEW v \in Nat, NEW s \in 0..(l - 1), NEW t \in 0..(l - 1),
               l * u + s = l * v + t
        PROVE  ~(u < v)
    <3>1. SUFFICES ASSUME u < v PROVE FALSE
      OBVIOUS
    <3>2. PICK d \in Nat : v = u + 1 + d
      <4>1. v - u - 1 \in Nat /\ v = u + 1 + (v - u - 1)
        BY <3>1
      <4>2. QED
        BY <4>1
    <3>3. l * v = l * u + l + l * d /\ l * d \in Nat /\ l * u \in Nat
      BY <3>2
    <3> DEFINE lu == l * u
               ld == l * d
               lv == l * v
    <3>4. lv = lu + l + ld /\ lu \in Nat /\ ld \in Nat /\ lu + s = lv + t
      BY <3>3, <2>2
    <3> HIDE DEF lu, ld, lv
    <3>5. QED
      BY <3>4
  <2>3. a = q
    <3>1. ~(a < q) /\ ~(q < a)
      BY <2>1, <2>2, <1>2
    <3>2. QED
      BY <3>1, <2>1
  <2>4. m = r
    <3> DEFINE lq == l * q
    <3>1. lq \in Nat /\ lq + r = lq + m
      BY <2>1, <2>3, <1>2
    <3> HIDE DEF lq
    <3>2. QED
      BY <3>1, <2>1
  <2>5. QED
    BY <2>4 DEF m
<1>3. x = l * 0 + x /\ x + l = l * 1 + x /\ x \in Nat /\ x + l \in Nat
  OBVIOUS
<1>4. QED
  BY <1>2, <1>3

\* Going round a list of NumBufs nodes, or one less, NumBufs times.
LEMMA Rounds ==
  ASSUME NEW n \in Nat, NEW l \in Nat \ {0}, l = n \/ l = n - 1
  PROVE  LET To(i) == ((i - 1 + n) % l) + 1
             Gets(b) == ((b - 1) % l) + 1
         IN  /\ \A i \in 1..l : To(i) \in 1..l
             /\ \A i, k \in 1..l : To(i) = To(k) => i = k
             /\ \A k \in 1..l : \E i \in 1..l : To(i) = k
             /\ \A k \in 1..l : \E b \in 1..n : Gets(b) = k /\ b + l > n
<1> DEFINE To(i) == ((i - 1 + n) % l) + 1
           Gets(b) == ((b - 1) % l) + 1
<1>1. \A i \in 1..l : i - 1 \in 0..(l - 1) /\ (i # l => i \in 0..(l - 1)) /\ 0 \in 0..(l - 1)
  OBVIOUS
<1>2. CASE l = n
  <2>1. \A i \in 1..l : To(i) = i
    <3>1. \A i \in 1..l : (i - 1 + l) % l = i - 1
      BY <1>1, Remainders
    <3>2. QED
      BY <3>1, <1>2
  <2>2. \A i \in 1..l : Gets(i) = i
    <3>1. \A i \in 1..l : (i - 1) % l = i - 1
      BY <1>1, Remainders
    <3>2. QED
      BY <3>1, <1>2
  <2> HIDE DEF To, Gets
  <2>3. \A k \in 1..l : k \in 1..n /\ k + l > n
    BY <1>2
  <2>4. QED
    BY <2>1, <2>2, <2>3 DEF To, Gets
<1>3. CASE l = n - 1
  <2>1. ASSUME NEW i \in 1..l
        PROVE  To(i) = IF i = l THEN 1 ELSE i + 1
    <3>1. i - 1 + n = i + l
      BY <1>3
    <3>2. CASE i = l
      <4>1. l % l = 0
        BY <1>1, Remainders
      <4>2. i + l = (0 + l) + l
        BY <3>2
      <4>3. (l + l) % l = 0
        OBVIOUS
      <4>4. QED
        BY <3>1, <3>2, <4>3
    <3>3. CASE i # l
      <4>1. (i + l) % l = i
        BY <1>1, <3>3, Remainders
      <4>2. QED
        BY <3>1, <3>3, <4>1
    <3>4. QED
      BY <3>2, <3>3
  <2>2. ASSUME NEW b \in 2..n
        PROVE  Gets(b) = IF b = n THEN 1 ELSE b
    <3>1. CASE b = n
      <4>1. (b - 1) % l = 0
        <5>1. b - 1 = 0 + l /\ 0 \in 0..(l - 1)
          BY <3>1, <1>3
        <5>2. (0 + l) % l = 0
          BY <5>1, Remainders
        <5>3. QED
          BY <5>1, <5>2
      <4>2. QED
        BY <4>1, <3>1
    <3>2. CASE b # n
      <4>1. b - 1 \in 0..(l - 1)
        BY <3>2, <1>3
      <4>2. (b - 1) % l = b - 1
        BY <4>1, Remainders
      <4>3. QED
        BY <4>2, <3>2
    <3>3. QED
      BY <3>1, <3>2
  <2> HIDE DEF To, Gets
  <2>3. \A k \in 1..l : To(k) \in 1..l
    BY <2>1
  <2>4. \A i, k \in 1..l : To(i) = To(k) => i = k
    BY <2>1
  <2>5. ASSUME NEW k \in 1..l
        PROVE  \E i \in 1..l : To(i) = k
    <3>1. CASE k = 1
      BY <3>1, <2>1
    <3>2. CASE k # 1
      <4>1. k - 1 \in 1..l /\ k - 1 # l
        BY <3>2
      <4>2. To(k - 1) = k
        BY <4>1, <2>1
      <4>3. QED
        BY <4>1, <4>2
    <3>3. QED
      BY <3>1, <3>2
  <2>6. ASSUME NEW k \in 1..l
        PROVE  \E b \in 1..n : Gets(b) = k /\ b + l > n
    <3>1. CASE k = 1
      <4>1. n \in 2..n /\ n \in 1..n /\ n + l > n
        BY <1>3
      <4>2. QED
        BY <3>1, <4>1, <2>2
    <3>2. CASE k # 1
      <4>1. k \in 2..n /\ k \in 1..n /\ k # n /\ k + l > n
        BY <3>2, <1>3
      <4>2. QED
        BY <4>1, <2>2
    <3>3. QED
      BY <3>1, <3>2
  <2>7. QED
    BY <2>3, <2>4, <2>5, <2>6 DEF To, Gets
<1>4. QED
  BY <1>2, <1>3

-----------------------------------------------------------------------------
(* What the operations do to the lists *)

\* The nodes are numbers other than the two pointers that are no nodes.
LEMMA NodeFacts ==
  /\ NumBufs \in Nat /\ NumBufs >= 2
  /\ IsFiniteSet(Nodes) /\ Cardinality(Nodes) = NumBufs
  /\ TD_NULL \notin Nodes /\ Freed \notin Nodes /\ TD_NULL \notin Blocks /\ Freed # TD_NULL
  /\ Nodes = Blocks
<1>1. NumBufs \in Nat /\ NumBufs >= 2
  BY BufsAssumption
<1>2. IsFiniteSet(1..NumBufs) /\ Cardinality(1..NumBufs) = NumBufs
  BY <1>1, FS_Interval
<1>3. QED
  BY <1>1, <1>2 DEF Nodes, Blocks, TD_NULL, Freed

\* What the types say of the elements of the lists and of the counters.
LEMMA ListTypes ==
  ASSUME Typed
  PROVE  /\ free_list \in Seq(Nodes) /\ busy_list \in Seq(Nodes) /\ holds \in Seq(Blocks)
         /\ Free \subseteq Nodes /\ Published \subseteq Nodes /\ Range(holds) \subseteq Blocks
         /\ hold_cnt \in [Nodes -> Nat]
         /\ \A n \in Nodes : hold_cnt[n] \in Nat /\ (Held(n) <=> hold_cnt[n] # 0)
<1>1. free_list \in Seq(Nodes) /\ busy_list \in Seq(Nodes) /\ holds \in Seq(Blocks)
  BY DEF Typed
<1>2. Free \subseteq Nodes /\ Published \subseteq Nodes /\ Range(holds) \subseteq Blocks
  BY <1>1, RangeInSet DEF Free, Published
<1>3. hold_cnt \in [Nodes -> Nat]
  BY DEF Typed
<1>4. \A n \in Nodes : hold_cnt[n] \in Nat /\ (Held(n) <=> hold_cnt[n] # 0)
  BY <1>3 DEF Held
<1>5. QED
  BY <1>1, <1>2, <1>3, <1>4

\* There is always a configuration that is not in memory.
LEMMA FreshConfig ==
  ASSUME Typed
  PROVE  \E c \in Configs : c \notin Range(content)
<1>1. SUFFICES ASSUME Configs \subseteq Range(content) PROVE FALSE
  OBVIOUS
<1>2. content \in Surjection(Blocks, Range(content))
  BY DEF Typed, Surjection, Range
<1>3. IsFiniteSet(Blocks) /\ Cardinality(Blocks) = NumBufs /\ NumBufs \in Nat
  BY NodeFacts
<1>4. IsFiniteSet(Range(content)) /\ Cardinality(Range(content)) <= NumBufs
  BY <1>2, <1>3, FS_Surjection
<1>5. IsFiniteSet(Configs) /\ Cardinality(Configs) <= Cardinality(Range(content))
  BY <1>1, <1>4, FS_Subset
<1>6. Cardinality(Configs) \in Nat /\ Cardinality(Range(content)) \in Nat
  BY <1>4, <1>5, FS_CardinalityType
<1>7. QED
  BY <1>3, <1>4, <1>5, <1>6, ConfigsAssumption

\* Publishing the buffer set aside.
LEMMA PutBusyEffect ==
  ASSUME Typed, Placed, Standing, use_node \in Nodes, PutBusy
  PROVE  /\ free_list' \in Seq(Nodes) /\ busy_list' \in Seq(Nodes)
         /\ IsInjective(free_list') /\ IsInjective(busy_list')
         /\ Free' = Free \cup {n \in Published : hold_cnt[n] = 0}
         /\ Published' = {n \in Published : hold_cnt[n] # 0} \cup {use_node}
         /\ busy_list' # <<>> /\ Last(busy_list') = use_node
         /\ use_node' = TD_NULL
<1> DEFINE idle == Only(busy_list, {n \in Nodes : ~Held(n)})
           kept == Only(busy_list, {n \in Nodes : Held(n)})
<1>1. \A n \in Nodes : Held(n) <=> hold_cnt[n] # 0
  BY ListTypes
<1>2. /\ free_list \in Seq(Nodes) /\ busy_list \in Seq(Nodes) /\ Published \subseteq Nodes
      /\ IsInjective(free_list) /\ IsInjective(busy_list)
      /\ Free \cap Published = {} /\ use_node \notin Published
  BY ListTypes DEF Placed, InOnePlace
<1>3. /\ idle \in Seq(Nodes) /\ IsInjective(idle)
      /\ Range(idle) = {n \in Published : hold_cnt[n] = 0}
  <2>1. /\ idle \in Seq(Nodes) /\ IsInjective(idle)
        /\ Range(idle) = Range(busy_list) \cap {n \in Nodes : ~Held(n)}
    BY <1>2, OnlyRange
  <2>2. QED
    BY <2>1, <1>1, <1>2 DEF Published
<1>4. /\ kept \in Seq(Nodes) /\ IsInjective(kept)
      /\ Range(kept) = {n \in Published : hold_cnt[n] # 0}
  <2>1. /\ kept \in Seq(Nodes) /\ IsInjective(kept)
        /\ Range(kept) = Range(busy_list) \cap {n \in Nodes : Held(n)}
    BY <1>2, OnlyRange
  <2>2. QED
    BY <2>1, <1>1, <1>2 DEF Published
<1>5. free_list' = free_list \o idle /\ busy_list' = Append(kept, use_node) /\ use_node' = TD_NULL
  BY DEF PutBusy
<1> HIDE DEF idle, kept
<1>6. /\ free_list' \in Seq(Nodes) /\ IsInjective(free_list')
      /\ Free' = Free \cup {n \in Published : hold_cnt[n] = 0}
  <2>1. Range(free_list) \cap Range(idle) = {}
    BY <1>2, <1>3 DEF Free
  <2>2. /\ Range(free_list \o idle) = Range(free_list) \cup Range(idle)
        /\ IsInjective(free_list \o idle)
    BY <2>1, <1>2, <1>3, ConcatRange
  <2>3. free_list \o idle \in Seq(Nodes)
    BY <1>2, <1>3, ConcatProperties
  <2>4. QED
    BY <2>2, <2>3, <1>3, <1>5 DEF Free
<1>7. /\ busy_list' \in Seq(Nodes) /\ IsInjective(busy_list')
      /\ Published' = {n \in Published : hold_cnt[n] # 0} \cup {use_node}
      /\ busy_list' # <<>> /\ Last(busy_list') = use_node
  <2>1. use_node \notin Range(kept)
    BY <1>2, <1>4
  <2>2. /\ Append(kept, use_node) \in Seq(Nodes) /\ Append(kept, use_node) # <<>>
        /\ Range(Append(kept, use_node)) = Range(kept) \cup {use_node}
        /\ IsInjective(Append(kept, use_node))
        /\ Last(Append(kept, use_node)) = use_node
    BY <2>1, <1>4, AppendRange
  <2>3. QED
    BY <2>2, <1>4, <1>5 DEF Published
<1>8. QED
  BY <1>5, <1>6, <1>7

\* A buffer that comes back.
LEMMA PutBusyToFreeEffect ==
  ASSUME Typed, Placed, Blocked, Ready, NEW b \in Blocks, PutBusyToFree(b)
  PROVE  LET done == Done(b)
         IN  /\ free_list' \in Seq(Nodes) /\ busy_list' \in Seq(Nodes)
             /\ IsInjective(free_list') /\ IsInjective(busy_list')
             /\ Free' = Free \cup done
             /\ Published' = Published \ done
             /\ hold_cnt' \in [Nodes -> Nat]
             /\ \A n \in Nodes : hold_cnt'[n] = IF n \in Busy(b) /\ hold_cnt[n] # 0
                                                THEN hold_cnt[n] - 1 ELSE hold_cnt[n]
             /\ busy_list = <<>> => busy_list' = <<>>
             /\ busy_list # <<>> /\ Last(busy_list) \notin done =>
                  busy_list' # <<>> /\ Last(busy_list') = Last(busy_list)
<1> DEFINE done == Done(b)
           kept == Only(busy_list, Nodes \ done)
<1>1. /\ free_list \in Seq(Nodes) /\ busy_list \in Seq(Nodes) /\ Published \subseteq Nodes
      /\ IsInjective(free_list) /\ IsInjective(busy_list)
      /\ Free \cap Published = {}
  BY ListTypes DEF Placed, InOnePlace, Standing, Ready
<1>2. done \subseteq Published /\ done \in SUBSET Nodes
  BY <1>1 DEF Done, Busy, Published
<1>3. /\ free_list' = free_list \o SetToSeq(done) /\ busy_list' = kept
      /\ hold_cnt' = [n \in Nodes |-> IF n \in Busy(b) /\ Held(n) THEN hold_cnt[n] - 1 ELSE hold_cnt[n]]
  BY DEF PutBusyToFree, Done
<1>4. /\ hold_cnt' \in [Nodes -> Nat]
      /\ \A n \in Nodes : hold_cnt'[n] = IF n \in Busy(b) /\ hold_cnt[n] # 0
                                         THEN hold_cnt[n] - 1 ELSE hold_cnt[n]
  BY <1>3, ListTypes
<1> HIDE DEF done
<1>5. IsFiniteSet(done)
  BY <1>2, NodeFacts, FS_Subset
<1>6. SetToSeq(done) \in Seq(Nodes) /\ Range(SetToSeq(done)) = done /\ IsInjective(SetToSeq(done))
  BY <1>2, <1>5, SetToSeqRange
<1>7. /\ kept \in Seq(Nodes) /\ IsInjective(kept)
      /\ Range(kept) = Range(busy_list) \cap (Nodes \ done)
      /\ busy_list # <<>> /\ Last(busy_list) \in Nodes \ done =>
           kept # <<>> /\ Last(kept) = Last(busy_list)
  BY <1>1, OnlyRange
<1> HIDE DEF kept
<1>8. /\ free_list' \in Seq(Nodes) /\ IsInjective(free_list')
      /\ Free' = Free \cup done
  <2> DEFINE back == SetToSeq(done)
  <2>1. back \in Seq(Nodes) /\ Range(back) = done /\ IsInjective(back) /\ free_list' = free_list \o back
    BY <1>3, <1>6
  <2> HIDE DEF back
  <2>2. Range(free_list) \cap Range(back) = {}
    BY <1>1, <1>2, <2>1 DEF Free
  <2>3. /\ Range(free_list \o back) = Range(free_list) \cup Range(back)
        /\ IsInjective(free_list \o back)
    BY <2>1, <2>2, <1>1, ConcatRange
  <2>4. free_list \o back \in Seq(Nodes)
    BY <2>1, <1>1, ConcatProperties
  <2>5. QED
    BY <2>1, <2>3, <2>4 DEF Free
<1>9. busy_list' \in Seq(Nodes) /\ IsInjective(busy_list') /\ Published' = Published \ done
  BY <1>1, <1>3, <1>7 DEF Published
<1>10. busy_list # <<>> => Last(busy_list) \in Nodes
  BY <1>1, FrontRange
<1>11. busy_list = <<>> => busy_list' = <<>>
  <2>1. SUFFICES ASSUME busy_list = <<>> PROVE busy_list' = <<>>
    OBVIOUS
  <2>2. Range(busy_list) = {}
    BY <2>1, <1>1, NoElements
  <2>3. Range(kept) = {}
    BY <2>2, <1>7
  <2>4. QED
    BY <2>3, <1>3, <1>7, NoElements
<1>12. QED
  BY <1>3, <1>4, <1>7, <1>8, <1>9, <1>10, <1>11 DEF done

\* What a return of the buffer in place i of those the consumer has does.
GivesBack(i) ==
  /\ holds' = RemoveAt(holds, i)
  /\ recalled' = (recalled /\ Len(holds) > 1)
  /\ uncounted' = (uncounted /\ Len(holds) > 1)
  /\ UNCHANGED <<init, block, use_node, exit_state, run_once_flag, mem_init, int_enable>>
  /\ UNCHANGED <<content, irq, pc, buf, run_thread_status, lost, switched, crashes>>
  /\ \/ exit_state = "EXIT" /\ UNCHANGED <<free_list, busy_list, hold_cnt, use_cnt>>
     \/ /\ exit_state # "EXIT" /\ Ready /\ use_cnt' = UseCntDown
        /\ holds[i] \in Blocks
        /\ free_list' \in Seq(Nodes) /\ busy_list' \in Seq(Nodes)
        /\ IsInjective(free_list') /\ IsInjective(busy_list')
        /\ Free' = Free \cup Done(holds[i])
        /\ Published' = Published \ Done(holds[i])
        /\ Done(holds[i]) \subseteq Published
        /\ hold_cnt' \in [Nodes -> Nat]
        /\ \A n \in Nodes : hold_cnt'[n] = IF n \in Busy(holds[i]) /\ hold_cnt[n] # 0
                                           THEN hold_cnt[n] - 1 ELSE hold_cnt[n]
        /\ busy_list = <<>> => busy_list' = <<>>
        /\ busy_list # <<>> /\ Last(busy_list) \notin Done(holds[i]) =>
             busy_list' # <<>> /\ Last(busy_list') = Last(busy_list)

LEMMA PutFreeEffect ==
  ASSUME Typed, Stage, Placed, Blocked, PutFreeBeBuf
  PROVE  \E i \in DOMAIN holds : GivesBack(i)
<1>1. PICK i \in DOMAIN holds :
        /\ holds' = RemoveAt(holds, i)
        /\ IF PutRefused
           THEN UNCHANGED <<free_list, busy_list, hold_cnt, use_cnt>>
           ELSE /\ PutBusyToFree(holds[i])
                /\ use_cnt' = UseCntDown
        /\ recalled' = (recalled /\ Len(holds) > 1)
        /\ uncounted' = (uncounted /\ Len(holds) > 1)
        /\ UNCHANGED <<init, block, use_node, exit_state, run_once_flag, mem_init, int_enable>>
        /\ UNCHANGED <<content, irq, user, history>>
  BY DEF PutFreeBeBuf
<1>2. holds[i] \in Blocks
  BY ListTypes, LenProperties, ElementOfSeq
<1>3. UNCHANGED <<content, irq, pc, buf, run_thread_status, lost, switched, crashes>>
  BY <1>1 DEF user, history
<1>4. CASE PutRefused
  BY <1>1, <1>3, <1>4 DEF GivesBack, PutRefused
<1>5. CASE ~PutRefused
  <2>1. Ready /\ exit_state # "EXIT"
    BY <1>5 DEF PutRefused, Stage
  <2>2. PutBusyToFree(holds[i]) /\ use_cnt' = UseCntDown
    BY <1>1, <1>5
  <2> DEFINE b == holds[i]
             done == Done(b)
  <2>3. b \in Blocks /\ PutBusyToFree(b)
    BY <1>2, <2>2
  <2> HIDE DEF b
  <2>4. /\ free_list' \in Seq(Nodes) /\ busy_list' \in Seq(Nodes)
        /\ IsInjective(free_list') /\ IsInjective(busy_list')
        /\ Free' = Free \cup done
        /\ Published' = Published \ done
        /\ hold_cnt' \in [Nodes -> Nat]
        /\ \A n \in Nodes : hold_cnt'[n] = IF n \in Busy(b) /\ hold_cnt[n] # 0
                                           THEN hold_cnt[n] - 1 ELSE hold_cnt[n]
        /\ busy_list = <<>> => busy_list' = <<>>
        /\ busy_list # <<>> /\ Last(busy_list) \notin done =>
             busy_list' # <<>> /\ Last(busy_list') = Last(busy_list)
    BY <2>1, <2>3, PutBusyToFreeEffect
  <2>5. done \subseteq Published
    BY DEF Done, Busy, Published
  <2>6. QED
    BY <1>1, <1>2, <1>3, <2>1, <2>2, <2>4, <2>5 DEF GivesBack, b
<1>6. QED
  BY <1>4, <1>5

\* Taking the first free buffer.
LEMMA TakeEffect ==
  ASSUME Typed, free_list # <<>>, free_list' = Tail(free_list)
  PROVE  /\ Head(free_list) \in Nodes /\ Free = {Head(free_list)} \cup Free'
         /\ Head(free_list) \in Free
         /\ Len(free_list') = Len(free_list) - 1
         /\ IsInjective(free_list) => IsInjective(free_list') /\ Head(free_list) \notin Free'
BY ListTypes, TailRange DEF Free

\* A change of the image mode: everything published becomes free, and the newest
\* of all is set aside if none is.
LEMMA GetBeLastBufEffect ==
  ASSUME Typed, Stage, Placed, GetBeLastBuf
  PROVE  /\ Ready /\ busy_list' = <<>> /\ free_list' \in Seq(Nodes)
         /\ hold_cnt' = [n \in Nodes |-> IF n \in Published THEN 0 ELSE hold_cnt[n]]
         /\ IsInjective(free_list')
         /\ \/ use_node # TD_NULL /\ use_node' = use_node /\ Free' = Free \cup Published
               /\ use_node \in Nodes /\ pc' = "last" /\ buf' = block[use_node]
            \/ use_node = TD_NULL /\ use_node' = use_node /\ Free' = Free \cup Published
               /\ pc' = pc /\ buf' = buf
            \/ /\ use_node = TD_NULL /\ use_node' \in Nodes
               /\ Free \cup Published = Free' \cup {use_node'} /\ use_node' \notin Free'
               /\ pc' = "last" /\ buf' = block[use_node']
<1> DEFINE all == free_list \o busy_list
<1>1. Ready /\ Standing
  BY DEF GetBeLastBuf, Stage, Ready, Standing
<1>2. /\ all \in Seq(Nodes) /\ Range(all) = Free \cup Published /\ IsInjective(all)
  <2>1. /\ free_list \in Seq(Nodes) /\ busy_list \in Seq(Nodes)
        /\ IsInjective(free_list) /\ IsInjective(busy_list)
        /\ Range(free_list) \cap Range(busy_list) = {}
    BY <1>1, ListTypes DEF Placed, InOnePlace, Free, Published
  <2>2. QED
    BY <2>1, ConcatRange, ConcatProperties DEF Free, Published
<1>3. /\ busy_list' = <<>>
      /\ hold_cnt' = [n \in Nodes |-> IF n \in Published THEN 0 ELSE hold_cnt[n]]
      /\ IF use_node # TD_NULL
         THEN free_list' = all /\ UNCHANGED use_node /\ buf' = block[use_node] /\ pc' = "last"
         ELSE IF all = <<>>
         THEN free_list' = all /\ UNCHANGED <<use_node, buf, pc>>
         ELSE /\ use_node' = Last(all) /\ free_list' = Front(all)
              /\ buf' = block[Last(all)] /\ pc' = "last"
  BY DEF GetBeLastBuf, Published
<1> HIDE DEF all
<1>4. CASE use_node # TD_NULL
  <2>1. use_node \in Nodes
    BY <1>1, <1>4 DEF Typed, Stage
  <2>2. QED
    BY <1>1, <1>2, <1>3, <1>4, <2>1 DEF Free
<1>5. CASE use_node = TD_NULL /\ all = <<>>
  BY <1>1, <1>2, <1>3, <1>5 DEF Free
<1>6. CASE use_node = TD_NULL /\ all # <<>>
  <2>1. /\ Last(all) \in Nodes /\ Front(all) \in Seq(Nodes)
        /\ Range(all) = Range(Front(all)) \cup {Last(all)}
        /\ IsInjective(Front(all)) /\ Last(all) \notin Range(Front(all))
    BY <1>2, <1>6, FrontRange
  <2>2. QED
    BY <1>1, <1>2, <1>3, <1>6, <2>1 DEF Free
<1>7. QED
  BY <1>4, <1>5, <1>6

-----------------------------------------------------------------------------
(* Every step preserves the invariant, one part of it after the other *)

\* The firmware's calls, the interrupt's and the consumer's.
LEMMA TypedStep ==
  ASSUME Typed, Stage, Placed, Blocked, Next
  PROVE  Typed'
<1> USE DEF kernel, queue, user, consumer, history, Goes
<1>n. NumBufs \in Nat /\ TD_NULL \notin Nodes /\ Freed \notin Nodes /\ Freed # TD_NULL /\ Nodes = Blocks
  BY NodeFacts
<1>t. /\ free_list \in Seq(Nodes) /\ busy_list \in Seq(Nodes) /\ holds \in Seq(Blocks)
      /\ Free \subseteq Nodes /\ Published \subseteq Nodes /\ Range(holds) \subseteq Blocks
      /\ hold_cnt \in [Nodes -> Nat] /\ <<>> \in Seq(Nodes)
      /\ \A n \in Nodes : hold_cnt[n] \in Nat
  BY ListTypes, EmptySeq
<1>c. use_cnt \in Nat /\ crashes \in Int /\ 0 <= crashes /\ Len(holds) <= MaxHold
  BY BoundsAssumption DEF Typed
<1>h. \A n \in Nodes : n \in Free \cup Published \cup {use_node} /\ Ready => block[n] \in Blocks
  BY <1>n DEF Typed, Blocked
<1>f. free_list # <<>> => Head(free_list) \in Nodes /\ Tail(free_list) \in Seq(Nodes) /\ Head(free_list) \in Free
  BY <1>t, TailRange DEF Free
<1>pc. pc' \in Places
  <2>1. SUFFICES ASSUME Firmware PROVE pc' \in Places
    BY DEF Next, IrqTest, IrqTake, Consumer, GetReadyBeBuf, HoldBusyBeBuf, PutFreeBeBuf, Crash,
           Typed, Places
  <2>2. QED
    BY <2>1 DEF Firmware, MemInit, BeBufMalloc, CreatBeBufQueue, BeBufInit, GetBeBufFirst,
         IspInitFail, Write, AllBeBufInit, EnableInterrupt, OptRunOnceInfo, GetBeFreeBuf,
         IspRunReturn, BeBufCtl, RunOnceProcess, GetBeLastBuf, SwitchFail, IspExit, BeBufExitWait,
         BeBufExit, ResetCtx, AfterRun, Places, Typed
<1>1. CASE MemInit
  <2>1. mem_init' \in BOOLEAN
    BY <1>1 DEF Typed, MemInit
  <2>2. QED
    BY <1>1, <2>1, <1>pc DEF Typed, MemInit
<1>2. CASE BeBufMalloc
  <2>1. init' \in BOOLEAN /\ content' \in [Blocks -> Configs \cup {Zero}]
    BY <1>2 DEF Typed, BeBufMalloc
  <2>2. QED
    BY <1>2, <2>1, <1>pc DEF Typed, BeBufMalloc
<1>3. CASE CreatBeBufQueue
  <2>1. [i \in Nodes |-> i] \in Seq(Nodes)
    BY <1>n, IsASeq DEF Nodes
  <2>2. [n \in Nodes |-> 0] \in [Nodes -> Nat] /\ [n \in Nodes |-> TD_NULL] \in [Nodes -> Blocks \cup {TD_NULL}]
    OBVIOUS
  <2>3. /\ free_list' \in Seq(Nodes) /\ busy_list' \in Seq(Nodes)
        /\ block' \in [Nodes -> Blocks \cup {TD_NULL}] /\ hold_cnt' \in [Nodes -> Nat]
    BY <1>3, <1>t, <2>1, <2>2 DEF Typed, CreatBeBufQueue
  <2>4. init' \in BOOLEAN /\ lost' \subseteq Nodes /\ switched' \in BOOLEAN
    BY <1>3 DEF Typed, CreatBeBufQueue
  <2>5. QED
    BY <1>3, <2>3, <2>4, <1>pc DEF Typed, CreatBeBufQueue
<1>4. CASE BeBufInit
  <2> DEFINE L == Len(free_list)
             To(i) == ((i - 1 + NumBufs) % L) + 1
  <2>0. PICK x \in Nat : x = L
    BY <1>t, LenProperties
  <2>1. free_list' \in Seq(Nodes)
    <3>1. CASE L = 0
      <4>1. free_list' \in [1..0 -> Nodes]
        BY <1>4, <3>1 DEF BeBufInit
      <4>2. QED
        BY <4>1, SeqDef
    <3>2. CASE L # 0
      <4>1. \A i \in 1..L : To(i) \in 1..L
        BY <1>n, <2>0, <3>2
      <4>2. \A i \in 1..L : free_list[To(i)] \in Nodes
        BY <4>1, <1>t, ElementOfSeq
      <4>3. free_list' = [i \in 1..L |-> free_list[To(i)]]
        BY <1>4 DEF BeBufInit
      <4> HIDE DEF L, To
      <4>4. free_list' \in [1..L -> Nodes]
        BY <4>2, <4>3
      <4>5. QED
        BY <4>4, <2>0, SeqDef
    <3>3. QED
      BY <3>1, <3>2
  <2>2. block' \in [Nodes -> Blocks \cup {TD_NULL}]
    BY <1>4, <1>pc DEF BeBufInit, Typed
  <2>3. QED
    BY <1>4, <2>1, <2>2, <1>pc DEF Typed, BeBufInit, SetUseNode
<1>5. CASE GetBeBufFirst
  <2>1. free_list # <<>> => block[Head(free_list)] \in Blocks \cup {TD_NULL}
    BY <1>f, <1>pc DEF Typed
  <2>2. /\ free_list' \in Seq(Nodes) /\ use_node' \in Nodes \cup {TD_NULL, Freed}
        /\ lost' \subseteq Nodes /\ buf' \in Blocks \cup {TD_NULL}
    BY <1>5, <1>f, <2>1 DEF Typed, GetBeBufFirst, SetUseNode
  <2>3. QED
    BY <1>5, <2>2, <1>pc DEF Typed, GetBeBufFirst
<1>6. CASE IspInitFail
  BY <1>6, <1>pc DEF Typed, IspInitFail
<1>7. CASE Write
  <2>1. (CHOOSE c \in Configs : c \notin Range(content)) \in Configs
    BY FreshConfig
  <2>2. content' \in [Blocks -> Configs \cup {Zero}]
    BY <1>7, <2>1, <1>pc DEF Typed, Write
  <2>3. QED
    BY <1>7, <2>2, <1>pc DEF Typed, Write
<1>8. CASE AllBeBufInit
  <2>1. CASE use_node = TD_NULL
    BY <1>8, <2>1, <1>pc DEF Typed, AllBeBufInit
  <2>2. CASE use_node # TD_NULL
    <3>1. Ready
      BY <1>8 DEF AllBeBufInit, Stage, Ready
    <3>2. use_node \in Nodes
      BY <3>1, <2>2, <1>pc DEF Typed, Stage
    <3>3. Append(busy_list, use_node) \in Seq(Nodes)
      BY <3>2, <1>t, AppendProperties
    <3>4. block[use_node] \in Blocks
      BY <3>1, <3>2, <1>h
    <3>5. content' \in [Blocks -> Configs \cup {Zero}]
      <4>1. content' = [b \in Blocks |->
              IF \E n \in Range(free_list) : block[n] = b THEN content[block[use_node]] ELSE content[b]]
        BY <1>8, <2>2 DEF AllBeBufInit
      <4>2. content \in [Blocks -> Configs \cup {Zero}]
        BY DEF Typed
      <4>3. QED
        BY <4>1, <4>2, <3>4
    <3>6. busy_list' \in Seq(Nodes) /\ use_node' \in Nodes \cup {TD_NULL, Freed}
      BY <1>8, <2>2, <3>3 DEF AllBeBufInit
    <3>7. UNCHANGED <<init, block, free_list, hold_cnt, use_cnt, exit_state, run_once_flag, mem_init,
                      int_enable, irq, buf, run_thread_status, holds, recalled, uncounted, lost,
                      switched, crashes>>
      BY <1>8 DEF AllBeBufInit
    <3>8. QED
      BY <3>5, <3>6, <3>7, <1>pc DEF Typed
  <2>3. QED
    BY <2>1, <2>2
<1>p. ASSUME PutBusy, use_node # TD_NULL, Ready
      PROVE  free_list' \in Seq(Nodes) /\ busy_list' \in Seq(Nodes) /\ use_node' = TD_NULL
  <2>1. use_node \in Nodes /\ Standing
    BY <1>p, <1>pc DEF Typed, Stage, Standing, Ready
  <2>2. QED
    BY <1>p, <2>1, PutBusyEffect
<1>9. CASE EnableInterrupt
  BY <1>9, <1>pc DEF Typed, EnableInterrupt
<1>10. CASE OptRunOnceInfo
  <2>1. /\ free_list' \in Seq(Nodes) /\ use_node' \in Nodes \cup {TD_NULL, Freed}
        /\ run_once_flag' \in BOOLEAN /\ run_thread_status' \in {"EXIT", "RUN", "ONCE"}
    <3>1. CASE use_node = TD_NULL /\ free_list # <<>>
      BY <1>10, <1>f, <3>1 DEF OptRunOnceInfo
    <3>2. CASE ~(use_node = TD_NULL /\ free_list # <<>>)
      BY <1>10, <3>2 DEF Typed, OptRunOnceInfo
    <3>3. QED
      BY <3>1, <3>2
  <2>2. UNCHANGED <<init, block, busy_list, hold_cnt, use_cnt, exit_state, mem_init,
                    int_enable, content, irq, buf, consumer, history>>
    BY <1>10 DEF OptRunOnceInfo
  <2>3. QED
    BY <2>1, <2>2, <1>pc DEF Typed
<1>11. CASE GetBeFreeBuf
  <2>1. Ready
    BY <1>11 DEF GetBeFreeBuf, Stage, Ready
  <2>2. use_node \in Nodes /\ block[use_node] \in Blocks
    BY <2>1, <1>h, <1>11, <1>pc DEF Typed, Stage, GetBeFreeBuf
  <2>3. QED
    BY <1>11, <2>2, <1>pc DEF Typed, GetBeFreeBuf
<1>12. CASE IspRunReturn
  BY <1>12, <1>pc DEF Typed, IspRunReturn, AfterRun
<1>13. CASE BeBufCtl
  <2>1. Ready
    BY <1>13 DEF BeBufCtl, Stage, Ready
  <2>2. free_list' \in Seq(Nodes) /\ busy_list' \in Seq(Nodes) /\ use_node' \in Nodes \cup {TD_NULL, Freed}
    BY <1>13, <2>1, <1>p, <1>t, <1>pc DEF BeBufCtl, Typed
  <2>3. QED
    BY <1>13, <2>2, <1>pc DEF Typed, BeBufCtl, AfterRun
<1>14. CASE RunOnceProcess
  <2>1. Ready
    BY <1>14 DEF RunOnceProcess, Stage, Ready
  <2>2. free_list' \in Seq(Nodes) /\ busy_list' \in Seq(Nodes) /\ use_node' \in Nodes \cup {TD_NULL, Freed}
    BY <1>14, <2>1, <1>p, <1>t, <1>pc DEF RunOnceProcess, Typed
  <2>3. QED
    BY <1>14, <2>2, <1>pc DEF Typed, RunOnceProcess
<1>15. CASE GetBeLastBuf
  <2>1. /\ Ready /\ free_list' \in Seq(Nodes) /\ busy_list' = <<>>
        /\ use_node' \in Nodes \cup {TD_NULL, Freed}
        /\ hold_cnt' = [n \in Nodes |-> IF n \in Published THEN 0 ELSE hold_cnt[n]]
        /\ use_node' \in Free \cup Published \cup {use_node}
        /\ buf' = buf \/ (use_node' \in Nodes /\ buf' = block[use_node'])
    BY <1>15, GetBeLastBufEffect DEF Typed
  <2>2. hold_cnt' \in [Nodes -> Nat]
    BY <2>1, <1>t
  <2>3. buf' \in Blocks \cup {TD_NULL}
    BY <2>1, <1>h DEF Typed
  <2>4. UNCHANGED <<init, block, use_cnt, exit_state, run_once_flag, mem_init, int_enable,
                    content, irq, run_thread_status, holds, uncounted, lost, crashes>>
    BY <1>15 DEF GetBeLastBuf
  <2>5. switched' \in BOOLEAN /\ recalled' \in BOOLEAN
    BY <1>15 DEF GetBeLastBuf, Typed
  <2>6. QED
    BY <2>1, <2>2, <2>3, <2>4, <2>5, <1>t, <1>pc DEF Typed
<1>16. CASE SwitchFail
  BY <1>16, <1>pc DEF Typed, SwitchFail
<1>17. CASE IspExit
  <2>1. int_enable' \in BOOLEAN /\ run_thread_status' \in {"EXIT", "RUN", "ONCE"}
    BY <1>17 DEF IspExit
  <2>2. UNCHANGED <<init, block, queue, use_cnt, exit_state, run_once_flag, mem_init,
                    content, irq, buf, consumer, history>>
    BY <1>17 DEF IspExit
  <2>3. QED
    BY <2>1, <2>2, <1>pc DEF Typed, queue, consumer, history
<1>18. CASE BeBufExitWait
  <2>1. exit_state' \in {"EXIT", "READY", "WAITING"}
    BY <1>18 DEF Typed, BeBufExitWait
  <2>2. UNCHANGED <<init, block, queue, use_cnt, run_once_flag, mem_init, int_enable,
                    content, irq, buf, run_thread_status, consumer, history>>
    BY <1>18 DEF BeBufExitWait
  <2>3. QED
    BY <2>1, <2>2, <1>pc DEF Typed, queue, consumer, history
<1>19. CASE BeBufExit
  <2>1. CASE use_cnt = 0
    <3>1. [n \in Nodes |-> 0] \in [Nodes -> Nat]
      OBVIOUS
    <3>2. use_node' \in Nodes \cup {TD_NULL, Freed}
      BY <1>19, <2>1 DEF BeBufExit
    <3>3. QED
      BY <1>19, <2>1, <3>1, <3>2, <1>t, <1>pc DEF Typed, BeBufExit
  <2>2. CASE use_cnt # 0
    <3>1. /\ UNCHANGED <<free_list, busy_list, use_node, hold_cnt, init, exit_state>>
          /\ UNCHANGED <<block, use_cnt, run_once_flag, mem_init, int_enable>>
          /\ UNCHANGED <<content, irq, buf, run_thread_status, consumer, history>>
      BY <1>19, <2>2 DEF BeBufExit
    <3>2. QED
      BY <3>1, <1>pc DEF Typed
  <2>3. QED
    BY <2>1, <2>2
<1>20. CASE ResetCtx
  <2>1. mem_init' \in BOOLEAN /\ run_once_flag' \in BOOLEAN
    BY <1>20 DEF ResetCtx
  <2>2. UNCHANGED <<init, block, queue, use_cnt, exit_state, int_enable,
                    content, irq, buf, run_thread_status, consumer, history>>
    BY <1>20 DEF ResetCtx
  <2>3. QED
    BY <2>1, <2>2, <1>pc DEF Typed, queue, consumer, history
<1>21. CASE IrqTest
  BY <1>21, <1>pc DEF Typed, IrqTest
<1>22. CASE IrqTake
  <2>1. Get(free_list) \in Nodes \cup {TD_NULL} /\ Rest(free_list) \in Seq(Nodes)
    BY <1>f, <1>t DEF Get, Rest
  <2>2. QED
    BY <1>22, <2>1, <1>pc DEF Typed, IrqTake, SetUseNode
<1>23. CASE GetReadyBeBuf
  <2>1. Ready
    BY <1>23 DEF GetReadyBeBuf, Stage
  <2>2. Last(busy_list) \in Nodes /\ Last(busy_list) \in Published
    BY <1>23, <1>t, FrontRange DEF GetReadyBeBuf, Published
  <2>3. block[Last(busy_list)] \in Blocks
    BY <2>1, <2>2, <1>h
  <2>4. /\ Append(holds, block[Last(busy_list)]) \in Seq(Blocks)
        /\ Len(Append(holds, block[Last(busy_list)])) = Len(holds) + 1
    BY <2>3, <1>t, AppendProperties
  <2>5. hold_cnt' \in [Nodes -> Nat]
    BY <1>23, <1>t, <2>2 DEF GetReadyBeBuf
  <2>6. Len(holds) + 1 <= MaxHold
    BY <1>23, <1>t, LenProperties, BoundsAssumption DEF GetReadyBeBuf
  <2>7. use_cnt' \in Nat
    BY <1>23, <1>c DEF GetReadyBeBuf
  <2>8. QED
    BY <1>23, <2>4, <2>5, <2>6, <2>7, <1>pc DEF Typed, GetReadyBeBuf
<1>24. CASE HoldBusyBeBuf
  <2>1. PICK b \in Range(holds) :
          /\ hold_cnt' = [n \in Nodes |-> IF n \in Busy(b) THEN hold_cnt[n] + 1 ELSE hold_cnt[n]]
          /\ use_cnt' = use_cnt + Cardinality(Busy(b))
          /\ holds' = Append(holds, b)
          /\ uncounted' = (uncounted \/ Busy(b) = {})
    BY <1>24 DEF HoldBusyBeBuf
  <2>2. b \in Blocks
    BY <1>t
  <2>3. /\ Append(holds, b) \in Seq(Blocks)
        /\ Len(Append(holds, b)) = Len(holds) + 1
    BY <2>2, <1>t, AppendProperties
  <2>4. hold_cnt' \in [Nodes -> Nat]
    BY <2>1, <1>t
  <2>5. Len(holds) + 1 <= MaxHold
    BY <1>24, <1>t, LenProperties, BoundsAssumption DEF HoldBusyBeBuf
  <2>6. use_cnt' \in Nat
    <3>1. Busy(b) \in SUBSET Nodes
      BY <1>t DEF Busy, Published
    <3>2. Cardinality(Busy(b)) \in Nat
      BY <3>1, NodeFacts, FS_Subset, FS_CardinalityType
    <3>3. QED
      BY <2>1, <3>2, <1>c
  <2>7. uncounted' \in BOOLEAN
    BY <2>1, <1>pc DEF Typed
  <2>8. QED
    BY <1>24, <2>1, <2>3, <2>4, <2>5, <2>6, <2>7, <1>pc DEF Typed, HoldBusyBeBuf
<1>25. CASE PutFreeBeBuf
  <2>1. PICK i \in DOMAIN holds : GivesBack(i)
    BY <1>25, PutFreeEffect
  <2>2. RemoveAt(holds, i) \in Seq(Blocks) /\ Len(RemoveAt(holds, i)) <= MaxHold
    <3>1. RemoveAt(holds, i) \in Seq(Blocks) /\ Len(RemoveAt(holds, i)) = Len(holds) - 1
      BY <1>t, RemoveOccurrences
    <3>2. Len(holds) \in Nat /\ Len(holds) <= MaxHold
      BY <1>t, <1>c, LenProperties
    <3>3. QED
      BY <3>1, <3>2, BoundsAssumption
  <2>3. /\ free_list' \in Seq(Nodes) /\ busy_list' \in Seq(Nodes)
        /\ hold_cnt' \in [Nodes -> Nat] /\ use_cnt' \in Nat
    BY <2>1, <1>t, <1>c, SMTT(60) DEF GivesBack, UseCntDown
  <2>4. recalled' \in BOOLEAN /\ uncounted' \in BOOLEAN
    BY <2>1 DEF Typed, GivesBack
  <2>5. QED
    BY <2>1, <2>2, <2>3, <2>4, <1>pc, SMTT(60) DEF Typed, GivesBack
<1>26. CASE Crash
  <2>1. crashes' \in 0..MaxCrash
    BY <1>26, <1>c, BoundsAssumption DEF Crash
  <2>2. QED
    BY <1>26, <2>1, <1>pc DEF Typed, Crash
<1>27. QED
  BY <1>1, <1>2, <1>3, <1>4, <1>5, <1>6, <1>7, <1>8, <1>9, <1>10, <1>11, <1>12, <1>13, <1>14,
     <1>15, <1>16, <1>17, <1>18, <1>19, <1>20, <1>21, <1>22, <1>23, <1>24, <1>25, <1>26
     DEF Next, Firmware, Consumer

\* What is there at which stage of the firmware.
LEMMA StageStep ==
  ASSUME Typed, Stage, Placed, Blocked, Next
  PROVE  Stage'
<1> USE DEF kernel, queue, user, consumer, history, Goes, Stage, Standing, Ready
<1>n. NumBufs \in Nat /\ TD_NULL \notin Nodes /\ Freed \notin Nodes /\ Freed # TD_NULL
  BY NodeFacts
<1>f. free_list # <<>> => Head(free_list) \in Nodes
  BY TakeEffect, ListTypes, TailRange
<1>1. CASE MemInit
  BY <1>1 DEF MemInit
<1>2. CASE BeBufMalloc
  BY <1>2 DEF BeBufMalloc
<1>3. CASE CreatBeBufQueue
  BY <1>3 DEF CreatBeBufQueue
<1>4. CASE BeBufInit
  BY <1>4, <1>n DEF BeBufInit, SetUseNode
<1>5. CASE GetBeBufFirst
  BY <1>5, <1>n, <1>f DEF GetBeBufFirst, SetUseNode
<1>6. CASE IspInitFail
  BY <1>6 DEF IspInitFail
<1>7. CASE Write
  BY <1>7 DEF Write
<1>8. CASE AllBeBufInit
  BY <1>8, <1>n DEF AllBeBufInit
<1>9. CASE EnableInterrupt
  BY <1>9 DEF EnableInterrupt
<1>10. CASE OptRunOnceInfo
  BY <1>10, <1>n, <1>f DEF OptRunOnceInfo
<1>11. CASE GetBeFreeBuf
  BY <1>11 DEF GetBeFreeBuf
<1>12. CASE IspRunReturn
  BY <1>12 DEF IspRunReturn, AfterRun
<1>13. CASE BeBufCtl
  BY <1>13, <1>n DEF BeBufCtl, AfterRun, PutBusy
<1>14. CASE RunOnceProcess
  BY <1>14, <1>n DEF RunOnceProcess, PutBusy
<1>15. CASE GetBeLastBuf
  <2>1. /\ Ready /\ busy_list' = <<>> /\ use_node' \in Nodes \cup {use_node}
        /\ pc' \in {pc, "last"} /\ pc = "up"
    BY <1>15, GetBeLastBufEffect DEF GetBeLastBuf
  <2>2. UNCHANGED <<init, exit_state>>
    BY <1>15 DEF GetBeLastBuf
  <2>3. QED
    BY <2>1, <2>2, <1>n
<1>16. CASE SwitchFail
  BY <1>16 DEF SwitchFail
<1>17. CASE IspExit
  BY <1>17 DEF IspExit
<1>18. CASE BeBufExitWait
  BY <1>18 DEF BeBufExitWait
<1>19. CASE BeBufExit
  BY <1>19, <1>n DEF BeBufExit
<1>20. CASE ResetCtx
  BY <1>20 DEF ResetCtx
<1>21. CASE IrqTest
  BY <1>21 DEF IrqTest
<1>22. CASE IrqTake
  BY <1>22, <1>n, <1>f DEF IrqTake, SetUseNode, Get, Rest
<1>23. CASE GetReadyBeBuf
  BY <1>23 DEF GetReadyBeBuf
<1>24. CASE HoldBusyBeBuf
  BY <1>24 DEF HoldBusyBeBuf
<1>25. CASE PutFreeBeBuf
  <2>1. PICK i \in DOMAIN holds : GivesBack(i)
    BY <1>25, PutFreeEffect
  <2>2. UNCHANGED <<init, pc, exit_state, use_node>>
    BY <2>1 DEF GivesBack
  <2>3. \/ UNCHANGED <<free_list, busy_list, hold_cnt, use_cnt>>
        \/ Ready /\ (busy_list = <<>> => busy_list' = <<>>)
    BY <2>1 DEF GivesBack
  <2>4. QED
    BY <2>2, <2>3
<1>26. CASE Crash
  BY <1>26 DEF Crash
<1>27. QED
  BY <1>1, <1>2, <1>3, <1>4, <1>5, <1>6, <1>7, <1>8, <1>9, <1>10, <1>11, <1>12, <1>13, <1>14,
     <1>15, <1>16, <1>17, <1>18, <1>19, <1>20, <1>21, <1>22, <1>23, <1>24, <1>25, <1>26
     DEF Next, Firmware, Consumer

\* Before the nodes have blocks, no node but the interrupt's is away from the free list.
LEMMA QueuedStep ==
  ASSUME Typed, Stage, Placed, Blocked, Queued, Next
  PROVE  Queued'
<1> USE DEF kernel, queue, user, consumer, history, Goes, Queued
<1>n. NumBufs \in Nat /\ NumBufs >= 2 /\ TD_NULL \notin Nodes
  BY NodeFacts
<1>1. CASE MemInit
  BY <1>1 DEF MemInit
<1>2. CASE BeBufMalloc
  BY <1>2 DEF BeBufMalloc
<1>3. CASE CreatBeBufQueue
  <2>1. CASE pc' = "queue"
    <3>1. /\ free_list' = [i \in Nodes |-> i] /\ lost' = {} /\ block' = [n \in Nodes |-> TD_NULL]
          /\ use_node' = use_node /\ ~Standing
      BY <1>3, <2>1 DEF CreatBeBufQueue, Standing
    <3>2. free_list' \in Seq(Nodes) /\ DOMAIN free_list' = 1..NumBufs
      BY <3>1, TypedStep DEF Typed, Nodes
    <3>3. Len(free_list') = NumBufs
      BY <3>2, <1>n, LenProperties
    <3>4. use_node \notin Nodes
      BY <3>1 DEF Stage
    <3>5. QED
      BY <3>1, <3>3, <3>4
  <2>2. QED
    BY <2>1
<1>4. CASE BeBufInit
  BY <1>4 DEF BeBufInit
<1>5. CASE GetBeBufFirst
  BY <1>5 DEF GetBeBufFirst
<1>6. CASE IspInitFail
  BY <1>6 DEF IspInitFail
<1>7. CASE Write
  BY <1>7 DEF Write
<1>8. CASE AllBeBufInit
  BY <1>8 DEF AllBeBufInit
<1>9. CASE EnableInterrupt
  BY <1>9 DEF EnableInterrupt
<1>10. CASE OptRunOnceInfo
  BY <1>10 DEF OptRunOnceInfo
<1>11. CASE GetBeFreeBuf
  BY <1>11 DEF GetBeFreeBuf
<1>12. CASE IspRunReturn
  BY <1>12 DEF IspRunReturn, AfterRun
<1>13. CASE BeBufCtl
  BY <1>13 DEF BeBufCtl, AfterRun
<1>14. CASE RunOnceProcess
  BY <1>14 DEF RunOnceProcess
<1>15. CASE GetBeLastBuf
  BY <1>15 DEF GetBeLastBuf
<1>16. CASE SwitchFail
  BY <1>16 DEF SwitchFail
<1>17. CASE IspExit
  BY <1>17 DEF IspExit
<1>18. CASE BeBufExitWait
  BY <1>18 DEF BeBufExitWait
<1>19. CASE BeBufExit
  BY <1>19 DEF BeBufExit
<1>20. CASE ResetCtx
  BY <1>20 DEF ResetCtx
<1>21. CASE IrqTest
  BY <1>21, <1>n DEF IrqTest
<1>22. CASE IrqTake
  <2>1. CASE pc = "queue"
    <3>1. use_node \notin Nodes /\ Len(free_list) = NumBufs /\ lost = {}
      BY <1>22, <2>1 DEF IrqTake
    <3>2. free_list # <<>>
      BY <3>1, <1>n, ListTypes, EmptySeq
    <3>3. free_list' = Tail(free_list) /\ use_node' = Head(free_list) /\ lost' = {}
      BY <1>22, <3>1, <3>2 DEF IrqTake, SetUseNode, Get, Rest
    <3>4. use_node' \in Nodes /\ Len(free_list') = NumBufs - 1
      BY <3>1, <3>2, <3>3, TakeEffect
    <3>5. QED
      BY <1>22, <2>1, <3>3, <3>4 DEF IrqTake
  <2>2. CASE pc # "queue"
    BY <1>22, <2>2 DEF IrqTake
  <2>3. QED
    BY <2>1, <2>2
<1>23. CASE GetReadyBeBuf
  BY <1>23 DEF GetReadyBeBuf, Stage, Ready
<1>24. CASE HoldBusyBeBuf
  BY <1>24 DEF HoldBusyBeBuf, Stage, Ready
<1>25. CASE PutFreeBeBuf
  BY <1>25, PutFreeEffect DEF GivesBack, Ready
<1>26. CASE Crash
  BY <1>26 DEF Crash
<1>27. QED
  BY <1>1, <1>2, <1>3, <1>4, <1>5, <1>6, <1>7, <1>8, <1>9, <1>10, <1>11, <1>12, <1>13, <1>14,
     <1>15, <1>16, <1>17, <1>18, <1>19, <1>20, <1>21, <1>22, <1>23, <1>24, <1>25, <1>26
     DEF Next, Firmware, Consumer

\* Giving the blocks out goes round the free list: the same nodes in another order.
LEMMA BeBufInitEffect ==
  ASSUME Typed, Stage, Placed, Queued, BeBufInit
  PROVE  /\ Standing /\ free_list' \in Seq(Nodes) /\ IsInjective(free_list') /\ Free' = Free
         /\ block' \in [Nodes -> Blocks \cup {TD_NULL}]
         /\ \A n \in Free : block'[n] \in Blocks
         /\ \A n \in Nodes \ Free : block'[n] = TD_NULL
         /\ \A m, n \in Free : block'[m] = block'[n] => m = n
<1> DEFINE L == Len(free_list)
           To(i) == ((i - 1 + NumBufs) % L) + 1
           Gets(b) == ((b - 1) % L) + 1
<1>1. /\ free_list' = [i \in 1..L |-> free_list[To(i)]]
      /\ block' = [n \in Nodes |->
           IF n \in Free THEN CHOOSE b \in Blocks : free_list[Gets(b)] = n /\ b + L > NumBufs
           ELSE block[n]]
  BY DEF BeBufInit, Free
<1>2. Standing /\ pc = "queue" /\ IsInjective(free_list) /\ free_list \in Seq(Nodes) /\ Free \subseteq Nodes
  BY ListTypes DEF BeBufInit, Goes, Stage, Standing, Placed
<1>3. NumBufs \in Nat /\ L \in Nat \ {0} /\ (L = NumBufs \/ L = NumBufs - 1)
  BY <1>2, NodeFacts DEF Queued
<1>4. DOMAIN free_list = 1..L /\ \A i \in 1..L : free_list[i] \in Nodes
  BY <1>2, LenProperties, ElementOfSeq
<1>5. Blocks = 1..NumBufs
  BY DEF Blocks
<1>6. /\ \A i \in 1..L : To(i) \in 1..L
      /\ \A i, k \in 1..L : To(i) = To(k) => i = k
      /\ \A k \in 1..L : \E i \in 1..L : To(i) = k
      /\ \A k \in 1..L : \E b \in 1..NumBufs : Gets(b) = k /\ b + L > NumBufs
  <2> HIDE DEF L
  <2>1. QED
    BY <1>3, Rounds
<1> HIDE DEF L, To, Gets
<1>7. free_list' \in [1..L -> Nodes] /\ free_list' \in Seq(Nodes)
  <2>1. \A i \in 1..L : free_list[To(i)] \in Nodes
    BY <1>4, <1>6
  <2>2. free_list' \in [1..L -> Nodes]
    BY <1>1, <2>1
  <2>3. QED
    BY <2>2, <1>3, SeqDef
<1>8. IsInjective(free_list')
  BY <1>1, <1>2, <1>4, <1>6, <1>7 DEF IsInjective
<1>9. Free' = Free
  <2>1. \A x \in Free : \E i \in 1..L : x = free_list[i]
    BY <1>4 DEF Free, Range
  <2>2. \A i \in 1..L : free_list[i] \in Free
    BY <1>4 DEF Free, Range
  <2>3. Free' = {free_list'[i] : i \in 1..L}
    BY <1>7 DEF Free, Range
  <2>4. \A i \in 1..L : free_list'[i] = free_list[To(i)]
    BY <1>1
  <2>5. Free' \subseteq Free
    BY <2>2, <2>3, <2>4, <1>6
  <2>6. ASSUME NEW x \in Free PROVE x \in Free'
    <3>1. PICK k \in 1..L : x = free_list[k]
      BY <2>1
    <3>2. PICK i \in 1..L : To(i) = k
      BY <1>6
    <3>3. QED
      BY <2>3, <2>4, <3>1, <3>2
  <2>7. QED
    BY <2>5, <2>6
<1>10. ASSUME NEW n \in Free
       PROVE  block'[n] \in Blocks /\ free_list[Gets(block'[n])] = n
  <2>1. PICK k \in 1..L : n = free_list[k]
    BY <1>4 DEF Free, Range
  <2>2. \E b \in Blocks : free_list[Gets(b)] = n /\ b + L > NumBufs
    BY <2>1, <1>5, <1>6
  <2>3. block'[n] = CHOOSE b \in Blocks : free_list[Gets(b)] = n /\ b + L > NumBufs
    BY <1>1, <1>2
  <2>4. QED
    BY <2>2, <2>3
<1>11. \A n \in Nodes \ Free : block'[n] = TD_NULL
  BY <1>1, <1>2 DEF Queued
<1>12. \A m, n \in Free : block'[m] = block'[n] => m = n
  BY <1>10
<1>13. block' \in [Nodes -> Blocks \cup {TD_NULL}]
  BY <1>1, <1>10, <1>11
<1>14. QED
  BY <1>2, <1>7, <1>8, <1>9, <1>10, <1>11, <1>12, <1>13

\* Every step keeps each node in one place.
LEMMA PlacedStep ==
  ASSUME Typed, Stage, Placed, Blocked, Queued, Next
  PROVE  Placed'
<1> USE DEF kernel, queue, user, consumer, history, Goes
<1>n. TD_NULL \notin Nodes /\ Freed \notin Nodes
  BY NodeFacts
<1>t. Free \subseteq Nodes /\ Published \subseteq Nodes /\ free_list \in Seq(Nodes) /\ busy_list \in Seq(Nodes)
  BY ListTypes
<1>l. lost \subseteq Nodes
  BY DEF Typed
<1>u. ASSUME UNCHANGED <<free_list, busy_list, use_node, lost, init>>,
             pc = "malloc" => pc' = "malloc" \/ ~init
      PROVE  Placed'
  <2>1. Free' = Free /\ Published' = Published
    BY <1>u DEF Free, Published
  <2>2. Standing' => Standing
    BY <1>u DEF Standing
  <2>3. QED
    BY <2>1, <2>2, <1>u DEF Placed, InOnePlace
<1>s. ASSUME Standing, free_list # <<>>, free_list' = Tail(free_list), use_node' = Head(free_list),
             busy_list' = busy_list, lost' = lost \cup ({use_node} \cap Nodes)
      PROVE  Placed'
  <2>1. /\ use_node' \in Nodes /\ Free = {use_node'} \cup Free'
        /\ IsInjective(free_list') /\ use_node' \notin Free'
    BY <1>s, TakeEffect DEF Placed, InOnePlace
  <2>2. Published' = Published
    BY <1>s DEF Published
  <2>3. QED
    BY <1>s, <2>1, <2>2, <1>t DEF Placed, InOnePlace
<1>p. ASSUME Standing, PutBusy, use_node \in Nodes, lost' = lost
      PROVE  Placed'
  <2>1. /\ IsInjective(free_list') /\ IsInjective(busy_list')
        /\ Free' = Free \cup {n \in Published : hold_cnt[n] = 0}
        /\ Published' = {n \in Published : hold_cnt[n] # 0} \cup {use_node}
        /\ use_node' = TD_NULL
    BY <1>p, PutBusyEffect
  <2>2. QED
    BY <1>p, <1>n, <2>1, <1>t DEF Placed, InOnePlace
<1>1. CASE MemInit
  BY <1>1, <1>u DEF MemInit
<1>2. CASE BeBufMalloc
  <2>1. CASE init
    BY <1>2, <2>1, <1>u DEF BeBufMalloc
  <2>2. CASE ~init
    BY <1>2, <2>2 DEF BeBufMalloc, Placed, Standing
  <2>3. QED
    BY <2>1, <2>2
<1>3. CASE CreatBeBufQueue
  <2>1. CASE init'
    <3>1. /\ free_list' = [i \in Nodes |-> i] /\ busy_list' = <<>> /\ lost' = {}
          /\ use_node' = use_node /\ ~Standing
      BY <1>3, <2>1 DEF CreatBeBufQueue, Standing
    <3>2. use_node \notin Nodes
      BY <3>1 DEF Stage
    <3>3. IsInjective(free_list') /\ Free' = Nodes
      BY <3>1 DEF IsInjective, Free, Range
    <3>4. IsInjective(busy_list') /\ Published' = {}
      BY <3>1, OneElement DEF Published
    <3>5. QED
      BY <3>1, <3>2, <3>3, <3>4 DEF Placed, InOnePlace
  <2>2. CASE ~init'
    BY <2>2 DEF Placed, Standing
  <2>3. QED
    BY <2>1, <2>2
<1>4. CASE BeBufInit
  <2>1. Standing /\ IsInjective(free_list') /\ Free' = Free
    BY <1>4, BeBufInitEffect
  <2>2. busy_list' = busy_list /\ use_node' = TD_NULL /\ lost' = lost \cup ({use_node} \cap Nodes)
    BY <1>4 DEF BeBufInit, SetUseNode
  <2>3. Published' = Published
    BY <2>2 DEF Published
  <2>4. QED
    BY <2>1, <2>2, <2>3, <1>n, <1>t DEF Placed, InOnePlace
<1>5. CASE GetBeBufFirst
  <2>1. CASE free_list = <<>>
    BY <1>5, <2>1, <1>u DEF GetBeBufFirst
  <2>2. CASE free_list # <<>>
    BY <1>5, <2>2, <1>s DEF GetBeBufFirst, SetUseNode, Standing, Stage
  <2>3. QED
    BY <2>1, <2>2
<1>6. CASE IspInitFail
  BY <1>6, <1>u DEF IspInitFail
<1>7. CASE Write
  BY <1>7, <1>u DEF Write
<1>8. CASE AllBeBufInit
  <2>1. CASE use_node = TD_NULL
    BY <1>8, <2>1, <1>u DEF AllBeBufInit
  <2>2. CASE use_node # TD_NULL
    <3>1. Standing /\ use_node \in Nodes
      BY <1>8, <2>2 DEF AllBeBufInit, Stage, Standing, Ready, Typed
    <3>2. /\ busy_list' = Append(busy_list, use_node) /\ use_node' = TD_NULL
          /\ free_list' = free_list /\ lost' = lost
      BY <1>8, <2>2 DEF AllBeBufInit
    <3>3. /\ IsInjective(busy_list') /\ Published' = Published \cup {use_node}
          /\ Free' = Free
      <4>1. IsInjective(busy_list) /\ use_node \notin Range(busy_list)
        BY <3>1 DEF Placed, InOnePlace, Published
      <4>2. QED
        BY <3>1, <3>2, <4>1, <1>t, AppendRange DEF Published, Free
    <3>4. QED
    BY <3>1, <3>2, <3>3, <1>n, <1>t DEF Placed, InOnePlace
  <2>3. QED
    BY <2>1, <2>2
<1>9. CASE EnableInterrupt
  BY <1>9, <1>u DEF EnableInterrupt
<1>10. CASE OptRunOnceInfo
  <2>1. CASE use_node = TD_NULL /\ free_list # <<>>
    BY <1>10, <2>1, <1>s, <1>n DEF OptRunOnceInfo, Stage, Standing
  <2>2. CASE ~(use_node = TD_NULL /\ free_list # <<>>)
    BY <1>10, <2>2, <1>u DEF OptRunOnceInfo
  <2>3. QED
    BY <2>1, <2>2
<1>11. CASE GetBeFreeBuf
  BY <1>11, <1>u DEF GetBeFreeBuf
<1>12. CASE IspRunReturn
  BY <1>12, <1>u DEF IspRunReturn
<1>13. CASE BeBufCtl
  <2>1. CASE ~run_once_flag /\ use_node # TD_NULL
    BY <1>13, <2>1, <1>p DEF BeBufCtl, Stage, Standing, Ready, Typed
  <2>2. CASE ~(~run_once_flag /\ use_node # TD_NULL)
    BY <1>13, <2>2, <1>u DEF BeBufCtl
  <2>3. QED
    BY <2>1, <2>2
<1>14. CASE RunOnceProcess
  <2>1. CASE use_node # TD_NULL
    BY <1>14, <2>1, <1>p DEF RunOnceProcess, Stage, Standing, Ready, Typed
  <2>2. CASE use_node = TD_NULL
    BY <1>14, <2>2, <1>u DEF RunOnceProcess
  <2>3. QED
    BY <2>1, <2>2
<1>15. CASE GetBeLastBuf
  <2>1. /\ Ready /\ busy_list' = <<>> /\ IsInjective(free_list')
        /\ \/ use_node' = use_node /\ Free' = Free \cup Published
           \/ /\ use_node = TD_NULL /\ use_node' \in Nodes
              /\ Free \cup Published = Free' \cup {use_node'} /\ use_node' \notin Free'
    BY <1>15, GetBeLastBufEffect
  <2>2. IsInjective(busy_list') /\ Published' = {}
    BY <2>1, OneElement DEF Published
  <2>3. Standing /\ lost' = lost
    BY <1>15, <2>1 DEF GetBeLastBuf, Ready, Standing
  <2>4. QED
    BY <2>1, <2>2, <2>3, <1>t, <1>n DEF Placed, InOnePlace
<1>16. CASE SwitchFail
  BY <1>16, <1>u DEF SwitchFail
<1>17. CASE IspExit
  BY <1>17, <1>u DEF IspExit
<1>18. CASE BeBufExitWait
  BY <1>18, <1>u DEF BeBufExitWait
<1>19. CASE BeBufExit
  <2>1. CASE use_cnt = 0
    BY <1>19, <2>1 DEF BeBufExit, Placed, Standing
  <2>2. CASE use_cnt # 0
    BY <1>19, <2>2, <1>u DEF BeBufExit
  <2>3. QED
    BY <2>1, <2>2
<1>20. CASE ResetCtx
  BY <1>20, <1>u DEF ResetCtx
<1>21. CASE IrqTest
  BY <1>21, <1>u DEF IrqTest
<1>22. CASE IrqTake
  <2>1. /\ use_node' = Get(free_list) /\ free_list' = Rest(free_list) /\ busy_list' = busy_list
        /\ lost' = lost \cup ({use_node} \cap Nodes) /\ init' = init /\ pc' = pc
    BY <1>22 DEF IrqTake, SetUseNode
  <2>2. CASE Standing /\ free_list # <<>>
    BY <2>1, <2>2, <1>s DEF Get, Rest
  <2>3. CASE Standing /\ free_list = <<>>
    <3>1. use_node' = TD_NULL /\ free_list' = free_list
      BY <2>1, <2>3 DEF Get, Rest
    <3>2. Free' = Free /\ Published' = Published
      BY <3>1, <2>1 DEF Free, Published
    <3>3. QED
    BY <2>1, <2>3, <3>1, <3>2, <1>n, <1>t DEF Placed, InOnePlace
  <2>4. CASE ~Standing
    BY <2>1, <2>4 DEF Placed, Standing
  <2>5. QED
    BY <2>2, <2>3, <2>4
<1>23. CASE GetReadyBeBuf
  BY <1>23, <1>u DEF GetReadyBeBuf
<1>24. CASE HoldBusyBeBuf
  BY <1>24, <1>u DEF HoldBusyBeBuf
<1>25. CASE PutFreeBeBuf
  <2>1. PICK i \in DOMAIN holds : GivesBack(i)
    BY <1>25, PutFreeEffect
  <2>2. UNCHANGED <<init, pc, use_node, lost>>
    BY <2>1 DEF GivesBack
  <2>3. CASE UNCHANGED <<free_list, busy_list, hold_cnt, use_cnt>>
    BY <2>2, <2>3, <1>u
  <2>4. CASE ~UNCHANGED <<free_list, busy_list, hold_cnt, use_cnt>>
    <3>1. /\ Ready /\ IsInjective(free_list') /\ IsInjective(busy_list')
          /\ Free' = Free \cup Done(holds[i])
          /\ Published' = Published \ Done(holds[i])
          /\ Done(holds[i]) \subseteq Published
      BY <2>1, <2>4 DEF GivesBack
    <3>2. Standing
      BY <3>1 DEF Ready, Standing
    <3>3. QED
      BY <2>2, <3>1, <3>2 DEF Placed, InOnePlace
  <2>5. QED
    BY <2>3, <2>4
<1>26. CASE Crash
  BY <1>26, <1>u DEF Crash
<1>27. QED
  BY <1>1, <1>2, <1>3, <1>4, <1>5, <1>6, <1>7, <1>8, <1>9, <1>10, <1>11, <1>12, <1>13, <1>14,
     <1>15, <1>16, <1>17, <1>18, <1>19, <1>20, <1>21, <1>22, <1>23, <1>24, <1>25, <1>26
     DEF Next, Firmware, Consumer

\* While the queue is ready no node comes to it, and the nodes keep their blocks.
LEMMA InUseStep ==
  ASSUME Typed, Stage, Placed, Blocked, Next, Ready'
  PROVE  \/ BeBufInit
         \/ Ready /\ block' = block /\ InUse' \subseteq InUse
<1> USE DEF kernel, queue, user, consumer, history, Goes, Ready
<1>n. TD_NULL \notin Nodes
  BY NodeFacts
<1>t. Free \subseteq Nodes /\ Published \subseteq Nodes /\ free_list \in Seq(Nodes) /\ busy_list \in Seq(Nodes)
  BY ListTypes
<1>u. ASSUME UNCHANGED <<free_list, busy_list, use_node>>
      PROVE  InUse' \subseteq InUse
  BY <1>u DEF InUse, Free, Published
<1>s. ASSUME free_list # <<>>, free_list' = Tail(free_list), use_node' = Head(free_list),
             busy_list' = busy_list
      PROVE  InUse' \subseteq InUse
  <2>1. use_node' \in Free /\ Free' \subseteq Free
    BY <1>s, TakeEffect
  <2>2. Published' = Published
    BY <1>s DEF Published
  <2>3. QED
    BY <2>1, <2>2 DEF InUse
<1>p. ASSUME PutBusy, use_node # TD_NULL, Ready
      PROVE  InUse' \subseteq InUse
  <2>1. use_node \in Nodes /\ Standing
    BY <1>p DEF Typed, Stage, Standing
  <2>2. /\ Free' = Free \cup {n \in Published : hold_cnt[n] = 0}
        /\ Published' = {n \in Published : hold_cnt[n] # 0} \cup {use_node}
        /\ use_node' = TD_NULL
    BY <1>p, <2>1, PutBusyEffect
  <2>3. QED
    BY <2>1, <2>2, <1>n DEF InUse
<1>1. CASE MemInit
  BY <1>1, <1>u DEF MemInit
<1>2. CASE BeBufMalloc
  BY <1>2, <1>u DEF BeBufMalloc
<1>3. CASE CreatBeBufQueue
  BY <1>3 DEF CreatBeBufQueue
<1>5. CASE GetBeBufFirst
  <2>1. CASE free_list = <<>>
    BY <1>5, <2>1, <1>u DEF GetBeBufFirst
  <2>2. CASE free_list # <<>>
    BY <1>5, <2>2, <1>s DEF GetBeBufFirst, SetUseNode
  <2>3. QED
    BY <2>1, <2>2
<1>6. CASE IspInitFail
  BY <1>6, <1>u DEF IspInitFail
<1>7. CASE Write
  BY <1>7, <1>u DEF Write
<1>8. CASE AllBeBufInit
  <2>1. CASE use_node = TD_NULL
    BY <1>8, <2>1, <1>u DEF AllBeBufInit
  <2>2. CASE use_node # TD_NULL
    <3>1. use_node \in Nodes
      BY <1>8, <2>2 DEF AllBeBufInit, Stage, Typed
    <3>2. /\ busy_list' = Append(busy_list, use_node) /\ use_node' = TD_NULL
          /\ free_list' = free_list
      BY <1>8, <2>2 DEF AllBeBufInit
    <3>3. Published' = Published \cup {use_node} /\ Free' = Free
      BY <3>1, <3>2, <1>t, AppendRange DEF Published, Free
    <3>4. InUse' \subseteq InUse
      BY <3>1, <3>2, <3>3, <1>n DEF InUse
    <3>5. QED
      BY <1>8, <3>4 DEF AllBeBufInit
  <2>3. QED
    BY <2>1, <2>2
<1>9. CASE EnableInterrupt
  BY <1>9, <1>u DEF EnableInterrupt
<1>10. CASE OptRunOnceInfo
  <2>1. CASE use_node = TD_NULL /\ free_list # <<>>
    BY <1>10, <2>1, <1>s DEF OptRunOnceInfo
  <2>2. CASE ~(use_node = TD_NULL /\ free_list # <<>>)
    BY <1>10, <2>2, <1>u DEF OptRunOnceInfo
  <2>3. QED
    BY <2>1, <2>2
<1>11. CASE GetBeFreeBuf
  BY <1>11, <1>u DEF GetBeFreeBuf
<1>12. CASE IspRunReturn
  BY <1>12, <1>u DEF IspRunReturn
<1>13. CASE BeBufCtl
  <2>1. CASE ~run_once_flag /\ use_node # TD_NULL
    BY <1>13, <2>1, <1>p DEF BeBufCtl
  <2>2. CASE ~(~run_once_flag /\ use_node # TD_NULL)
    BY <1>13, <2>2, <1>u DEF BeBufCtl
  <2>3. QED
    BY <2>1, <2>2
<1>14. CASE RunOnceProcess
  <2>1. CASE use_node # TD_NULL
    BY <1>14, <2>1, <1>p DEF RunOnceProcess
  <2>2. CASE use_node = TD_NULL
    BY <1>14, <2>2, <1>u DEF RunOnceProcess
  <2>3. QED
    BY <2>1, <2>2
<1>15. CASE GetBeLastBuf
  <2>1. /\ Ready /\ busy_list' = <<>>
        /\ \/ use_node' = use_node /\ Free' = Free \cup Published
           \/ Free \cup Published = Free' \cup {use_node'}
    BY <1>15, GetBeLastBufEffect
  <2>2. Published' = {}
    BY <2>1, OneElement DEF Published
  <2>3. InUse' \subseteq InUse
    BY <2>1, <2>2 DEF InUse
  <2>4. QED
    BY <1>15, <2>1, <2>3 DEF GetBeLastBuf
<1>16. CASE SwitchFail
  BY <1>16, <1>u DEF SwitchFail
<1>17. CASE IspExit
  BY <1>17, <1>u DEF IspExit
<1>18. CASE BeBufExitWait
  BY <1>18, <1>u DEF BeBufExitWait
<1>19. CASE BeBufExit
  <2>1. CASE use_cnt = 0
    BY <1>19, <2>1 DEF BeBufExit
  <2>2. CASE use_cnt # 0
    BY <1>19, <2>2, <1>u DEF BeBufExit
  <2>3. QED
    BY <2>1, <2>2
<1>20. CASE ResetCtx
  BY <1>20, <1>u DEF ResetCtx
<1>21. CASE IrqTest
  BY <1>21, <1>u DEF IrqTest
<1>22. CASE IrqTake
  <2>1. CASE free_list # <<>>
    BY <1>22, <2>1, <1>s DEF IrqTake, SetUseNode, Get, Rest
  <2>2. CASE free_list = <<>>
    <3>1. use_node' = TD_NULL /\ free_list' = free_list /\ busy_list' = busy_list
      BY <1>22, <2>2 DEF IrqTake, SetUseNode, Get, Rest
    <3>2. InUse' \subseteq InUse
      BY <3>1, <1>n DEF InUse, Free, Published
    <3>3. QED
      BY <1>22, <3>2 DEF IrqTake
  <2>3. QED
    BY <2>1, <2>2
<1>23. CASE GetReadyBeBuf
  BY <1>23, <1>u DEF GetReadyBeBuf
<1>24. CASE HoldBusyBeBuf
  BY <1>24, <1>u DEF HoldBusyBeBuf
<1>25. CASE PutFreeBeBuf
  <2>1. PICK i \in DOMAIN holds : GivesBack(i)
    BY <1>25, PutFreeEffect
  <2>2. UNCHANGED <<init, pc, use_node, block>>
    BY <2>1 DEF GivesBack
  <2>3. CASE UNCHANGED <<free_list, busy_list>>
    BY <2>2, <2>3, <1>u
  <2>4. CASE ~UNCHANGED <<free_list, busy_list>>
    <3>1. /\ Free' = Free \cup Done(holds[i])
          /\ Published' = Published \ Done(holds[i])
          /\ Done(holds[i]) \subseteq Published
      BY <2>1, <2>4 DEF GivesBack
    <3>2. QED
      BY <2>2, <3>1 DEF InUse
  <2>5. QED
    BY <2>3, <2>4
<1>26. CASE Crash
  BY <1>26, <1>u DEF Crash
<1>27. QED
  BY <1>1, <1>2, <1>3, <1>5, <1>6, <1>7, <1>8, <1>9, <1>10, <1>11, <1>12, <1>13, <1>14,
     <1>15, <1>16, <1>17, <1>18, <1>19, <1>20, <1>21, <1>22, <1>23, <1>24, <1>25, <1>26
     DEF Next, Firmware, Consumer

\* Every step leaves the nodes in use with blocks of their own.
LEMMA BlockedStep ==
  ASSUME Typed, Stage, Placed, Blocked, Queued, Next
  PROVE  Blocked'
<1>1. SUFFICES ASSUME Ready' PROVE Blocked'
  BY DEF Blocked
<1>n. TD_NULL \notin Blocks /\ Free \subseteq Nodes /\ TD_NULL \notin Nodes
  BY NodeFacts, ListTypes
<1>2. CASE Ready /\ block' = block /\ InUse' \subseteq InUse
  BY <1>2 DEF Blocked, InUse
<1>3. CASE BeBufInit
  <2>1. /\ Free' = Free
        /\ \A n \in Free : block'[n] \in Blocks
        /\ \A n \in Nodes \ Free : block'[n] = TD_NULL
        /\ \A m, n \in Free : block'[m] = block'[n] => m = n
    BY <1>3, BeBufInitEffect
  <2>2. use_node' = TD_NULL /\ busy_list' = busy_list /\ ~Ready
    BY <1>3 DEF BeBufInit, SetUseNode, Goes, Ready
  <2>3. Published' = {}
    <3>1. busy_list = <<>>
      BY <2>2 DEF Stage
    <3>2. QED
      BY <3>1, <2>2, OneElement DEF Published
  <2>4. QED
    BY <2>1, <2>2, <2>3, <1>n DEF Blocked
<1>4. QED
  BY <1>1, <1>2, <1>3, InUseStep

\* The firmware's buffer stays away from the lists until it has been written.
LEMMA OwnedStep ==
  ASSUME Typed, Stage, Placed, Blocked, Queued, Owned, Next
  PROVE  Owned'
<1> USE DEF kernel, queue, user, consumer, history, Goes
<1>1. SUFFICES ASSUME pc' \in {"first", "got", "last"}
               PROVE  \E n \in Nodes : n \notin Free' \cup Published' /\ block'[n] = buf' /\ buf' # TD_NULL
  BY DEF Owned
<1>n. TD_NULL \notin Nodes /\ TD_NULL \notin Blocks
  BY NodeFacts
<1>p. Placed' /\ Blocked' /\ Stage' /\ Typed'
  BY PlacedStep, BlockedStep, StageStep, TypedStep
<1>r. Ready' /\ Standing'
  BY <1>1, <1>p DEF Stage, Ready, Standing
<1>u. ASSUME use_node' \in Nodes, buf' = block'[use_node']
      PROVE  \E n \in Nodes : n \notin Free' \cup Published' /\ block'[n] = buf' /\ buf' # TD_NULL
  <2>1. use_node' \notin Free' \cup Published'
    BY <1>u, <1>p, <1>r DEF Placed, InOnePlace
  <2>2. block'[use_node'] # TD_NULL
    BY <1>u, <1>p, <1>r DEF Blocked
  <2>3. QED
    BY <1>u, <2>1, <2>2
<1>s. ASSUME pc' = pc, buf' = buf, Free' \cup Published' \subseteq Free \cup Published, block' = block
      PROVE  \E n \in Nodes : n \notin Free' \cup Published' /\ block'[n] = buf' /\ buf' # TD_NULL
  BY <1>s, <1>1 DEF Owned
<1>2. CASE GetBeBufFirst
  <2>1. free_list # <<>> /\ use_node' = Head(free_list) /\ buf' = block'[use_node']
    BY <1>1, <1>2 DEF GetBeBufFirst, SetUseNode
  <2>2. use_node' \in Nodes
    BY <2>1, ListTypes, TailRange
  <2>3. QED
    BY <2>1, <2>2, <1>u
<1>3. CASE GetBeFreeBuf
  <2>1. use_node' = use_node /\ use_node' # TD_NULL /\ buf' = block'[use_node']
    BY <1>3 DEF GetBeFreeBuf
  <2>2. use_node' \in Nodes
    BY <2>1, <1>p, <1>r DEF Typed, Stage
  <2>3. QED
    BY <2>1, <2>2, <1>u
<1>4. CASE GetBeLastBuf
  <2>1. use_node' \in Nodes /\ buf' = block[use_node'] /\ block' = block
    BY <1>1, <1>4, GetBeLastBufEffect DEF GetBeLastBuf
  <2>2. QED
    BY <2>1, <1>u
<1>5. CASE IrqTest \/ GetReadyBeBuf \/ HoldBusyBeBuf
  <2>1. pc' = pc /\ buf' = buf /\ block' = block /\ free_list' = free_list /\ busy_list' = busy_list
    BY <1>5 DEF IrqTest, GetReadyBeBuf, HoldBusyBeBuf
  <2>2. Free' = Free /\ Published' = Published
    BY <2>1 DEF Free, Published
  <2>3. QED
    BY <2>1, <2>2, <1>s
<1>6. CASE IrqTake
  <2>1. /\ pc' = pc /\ buf' = buf /\ block' = block /\ busy_list' = busy_list
        /\ free_list' = Rest(free_list)
    BY <1>6 DEF IrqTake
  <2>2. Free' \subseteq Free
    BY <2>1, TakeEffect DEF Free, Rest
  <2>3. Published' = Published
    BY <2>1 DEF Published
  <2>4. QED
    BY <2>1, <2>2, <2>3, <1>s
<1>7. CASE PutFreeBeBuf
  <2>1. PICK i \in DOMAIN holds : GivesBack(i)
    BY <1>7, PutFreeEffect
  <2>2. pc' = pc /\ buf' = buf /\ block' = block
    BY <2>1 DEF GivesBack
  <2>3. \/ free_list' = free_list /\ busy_list' = busy_list
        \/ /\ Free' = Free \cup Done(holds[i])
           /\ Published' = Published \ Done(holds[i])
           /\ Done(holds[i]) \subseteq Published
    BY <2>1 DEF GivesBack
  <2>4. Free' \cup Published' \subseteq Free \cup Published
    <3>1. CASE free_list' = free_list /\ busy_list' = busy_list
      BY <3>1 DEF Free, Published
    <3>2. QED
      BY <2>3, <3>1
  <2>5. QED
    BY <2>2, <2>4, <1>s
<1>8. ASSUME Firmware, ~GetBeBufFirst, ~GetBeFreeBuf, ~GetBeLastBuf
      PROVE  FALSE
  BY <1>1, <1>8 DEF Firmware, MemInit, BeBufMalloc, CreatBeBufQueue, BeBufInit, IspInitFail,
     Write, AllBeBufInit, EnableInterrupt, OptRunOnceInfo, IspRunReturn, BeBufCtl,
     RunOnceProcess, SwitchFail, IspExit, BeBufExitWait, BeBufExit, ResetCtx, AfterRun
<1>9. CASE Crash
  BY <1>1, <1>9 DEF Crash
<1>10. QED
  BY <1>2, <1>3, <1>4, <1>5, <1>6, <1>7, <1>8, <1>9 DEF Next, Consumer

\* What the kernel counts keeps up with what the consumer has.
LEMMA UseCountedStep ==
  ASSUME Typed, Stage, Placed, Blocked, UseCounted, HoldCounted, Next
  PROVE  UseCounted'
<1> USE DEF kernel, queue, user, consumer, history, Goes
<1>t. /\ holds \in Seq(Blocks) /\ Len(holds) \in Nat /\ use_cnt \in Nat
      /\ (holds = <<>> <=> Len(holds) = 0) /\ DOMAIN holds = 1..Len(holds)
  <2>1. holds \in Seq(Blocks) /\ use_cnt \in Nat
    BY DEF Typed
  <2>2. QED
    BY <2>1, LenProperties, EmptySeq
<1>a. use_cnt <= Len(holds)
  BY DEF UseCounted
<1>b. init /\ ~uncounted => use_cnt = Len(holds)
  BY DEF UseCounted
<1>c. ~init /\ ~uncounted => holds = <<>>
  BY DEF UseCounted
<1>d. (uncounted => recalled) /\ (recalled => holds # <<>>)
  BY DEF UseCounted
<1>e. (~Ready => use_cnt = 0) /\ (Ready => init)
  BY DEF Stage, Ready
<1>f. ~Ready /\ ~uncounted => holds = <<>>
  <2>1. SUFFICES ASSUME ~Ready, ~uncounted, init PROVE holds = <<>>
    BY <1>c
  <2>2. Len(holds) = use_cnt /\ use_cnt = 0
    BY <2>1, <1>b, <1>e
  <2>3. QED
    BY <2>2, <1>t
<1>g. ASSUME use_cnt' <= Len(holds'),
             init' /\ ~uncounted' => use_cnt' = Len(holds'),
             ~init' /\ ~uncounted' => holds' = <<>>,
             uncounted' => recalled',
             recalled' => holds' # <<>>
      PROVE  UseCounted'
  BY <1>g DEF UseCounted
<1>1. CASE Firmware \/ IrqTest \/ IrqTake \/ Crash
  <2>1. use_cnt' = use_cnt /\ holds' = holds /\ uncounted' = uncounted
    BY <1>1 DEF Firmware, MemInit, BeBufMalloc, CreatBeBufQueue, BeBufInit, GetBeBufFirst,
         IspInitFail, Write, AllBeBufInit, EnableInterrupt, OptRunOnceInfo, GetBeFreeBuf,
         IspRunReturn, BeBufCtl, RunOnceProcess, GetBeLastBuf, SwitchFail, IspExit, BeBufExitWait,
         BeBufExit, ResetCtx, IrqTest, IrqTake, Crash
  <2>2. (recalled' => recalled \/ holds # <<>>) /\ (recalled => recalled')
    <3>1. CASE GetBeLastBuf
      BY <3>1 DEF GetBeLastBuf
    <3>2. CASE ~GetBeLastBuf
      <4>1. recalled' = recalled
        BY <1>1, <3>2 DEF Firmware, MemInit, BeBufMalloc, CreatBeBufQueue, BeBufInit, GetBeBufFirst,
           IspInitFail, Write, AllBeBufInit, EnableInterrupt, OptRunOnceInfo, GetBeFreeBuf,
           IspRunReturn, BeBufCtl, RunOnceProcess, SwitchFail, IspExit, BeBufExitWait,
           BeBufExit, ResetCtx, IrqTest, IrqTake, Crash
      <4>2. QED
        BY <4>1
    <3>3. QED
      BY <3>1, <3>2
  <2>3. ~Ready \/ init' = init \/ use_cnt = 0
    BY <1>1 DEF Firmware, MemInit, BeBufMalloc, CreatBeBufQueue, BeBufInit, GetBeBufFirst,
         IspInitFail, Write, AllBeBufInit, EnableInterrupt, OptRunOnceInfo, GetBeFreeBuf,
         IspRunReturn, BeBufCtl, RunOnceProcess, GetBeLastBuf, SwitchFail, IspExit, BeBufExitWait,
         BeBufExit, ResetCtx, IrqTest, IrqTake, Crash, Ready
  <2>4. use_cnt' <= Len(holds')
    BY <2>1, <1>a
  <2>5. init' /\ ~uncounted' => use_cnt' = Len(holds')
    <3>1. SUFFICES ASSUME init', ~uncounted PROVE use_cnt = Len(holds)
      BY <2>1
    <3>2. CASE init
      BY <3>1, <3>2, <1>b
    <3>3. CASE ~init
      BY <3>1, <3>3, <1>c, <1>e, <1>t
    <3>4. QED
      BY <3>2, <3>3
  <2>6. ~init' /\ ~uncounted' => holds' = <<>>
    <3>1. SUFFICES ASSUME ~init', ~uncounted PROVE holds = <<>>
      BY <2>1
    <3>2. CASE ~Ready
      BY <3>1, <3>2, <1>f
    <3>3. CASE init' = init
      BY <3>1, <3>3, <1>c
    <3>4. CASE use_cnt = 0
      <4>1. CASE init
        BY <3>1, <3>4, <4>1, <1>b, <1>t
      <4>2. QED
        BY <3>1, <4>1, <1>c
    <3>5. QED
      BY <2>3, <3>2, <3>3, <3>4
  <2>7. (uncounted' => recalled') /\ (recalled' => holds' # <<>>)
    BY <2>1, <2>2, <1>d
  <2>8. QED
    BY <2>4, <2>5, <2>6, <2>7, <1>g
<1>h. ASSUME Ready, init' = init, Len(holds') = Len(holds) + 1, holds' # <<>>, recalled' = recalled,
             \/ use_cnt' = use_cnt + 1 /\ uncounted' = uncounted
             \/ use_cnt' = use_cnt /\ uncounted' /\ recalled
      PROVE  UseCounted'
  <2>1. use_cnt' <= Len(holds')
    <3>1. use_cnt' = use_cnt + 1 \/ use_cnt' = use_cnt
      BY <1>h
    <3>2. Len(holds') = Len(holds) + 1
      BY <1>h
    <3>3. QED
      BY <3>1, <3>2, <1>a, <1>t
  <2>2. init' /\ ~uncounted' => use_cnt' = Len(holds')
    <3>1. SUFFICES ASSUME ~uncounted' PROVE use_cnt' = Len(holds')
      OBVIOUS
    <3>2. use_cnt' = use_cnt + 1 /\ uncounted' = uncounted /\ Len(holds') = Len(holds) + 1
      BY <3>1, <1>h
    <3>3. use_cnt = Len(holds)
      BY <3>1, <3>2, <1>b, <1>e, <1>h
    <3>4. QED
      BY <3>2, <3>3
  <2>3. init' /\ (uncounted' => recalled') /\ (recalled' => holds' # <<>>)
    BY <1>h, <1>d, <1>e
  <2>4. QED
    BY <2>1, <2>2, <2>3, <1>g
<1>2. CASE GetReadyBeBuf
  <2>1. /\ use_cnt' = use_cnt + 1 /\ holds' = Append(holds, block[Last(busy_list)])
        /\ init' = init /\ uncounted' = uncounted /\ recalled' = recalled
        /\ busy_list # <<>> /\ exit_state = "READY"
    BY <1>2 DEF GetReadyBeBuf
  <2>2. block[Last(busy_list)] \in Blocks /\ Ready
    <3>1. Last(busy_list) \in Published
      BY <2>1, ListTypes, FrontRange DEF Published
    <3>2. Ready
      BY <2>1 DEF Stage
    <3>3. QED
      BY <3>1, <3>2, ListTypes DEF Blocked, Typed
  <2>3. Len(holds') = Len(holds) + 1 /\ holds' # <<>>
    BY <2>1, <2>2, <1>t, AppendProperties
  <2>4. QED
    BY <2>1, <2>2, <2>3, <1>h
<1>3. CASE HoldBusyBeBuf
  <2>1. PICK b \in Range(holds) :
          /\ use_cnt' = use_cnt + Cardinality(Busy(b))
          /\ holds' = Append(holds, b)
          /\ uncounted' = (uncounted \/ Busy(b) = {})
    BY <1>3 DEF HoldBusyBeBuf
  <2>2. Ready /\ init' = init /\ recalled' = recalled
    BY <1>3 DEF HoldBusyBeBuf, Stage
  <2>3. Len(holds') = Len(holds) + 1 /\ holds' # <<>>
    <3>1. b \in Blocks
      BY ListTypes
    <3>2. QED
      BY <2>1, <3>1, <1>t, AppendProperties
  <2>4. CASE Busy(b) = {}
    <3>1. Cardinality({}) = 0
      BY FS_EmptySet
    <3>2. use_cnt' = use_cnt + 0
      BY <2>1, <2>4, <3>1
    <3>3. use_cnt' = use_cnt
      BY <3>2, <1>t
    <3>4. uncounted'
      BY <2>1, <2>4
    <3>5. recalled
      BY <2>1, <2>2, <2>4 DEF HoldCounted, Busy, Published
    <3>6. QED
      BY <3>3, <3>4, <3>5, <2>2, <2>3, <1>h
  <2>5. CASE Busy(b) # {}
    <3>1. PICK m \in Busy(b) : TRUE
      BY <2>5
    <3>2. Busy(b) = {m}
      BY <3>1, <2>2, ListTypes, NodeFacts DEF Busy, Published, Blocked, Typed
    <3>3. Cardinality({m}) = 1
      BY FS_Singleton
    <3>4. use_cnt' = use_cnt + 1
      BY <2>1, <3>2, <3>3
    <3>5. uncounted' = uncounted
      <4>1. uncounted \in BOOLEAN
        BY DEF Typed
      <4>2. QED
        BY <2>1, <2>5, <4>1
    <3>6. QED
      BY <3>4, <3>5, <2>2, <2>3, <1>h
  <2>6. QED
    BY <2>4, <2>5
<1>4. CASE PutFreeBeBuf
  <2>1. PICK i \in DOMAIN holds : GivesBack(i)
    BY <1>4, PutFreeEffect
  <2>2. /\ holds' = RemoveAt(holds, i) /\ init' = init
        /\ recalled' <=> (recalled /\ Len(holds) > 1)
        /\ uncounted' <=> (uncounted /\ Len(holds) > 1)
    BY <2>1 DEF GivesBack
  <2>3. (use_cnt' = use_cnt /\ ~Ready) \/ (use_cnt' = UseCntDown /\ Ready)
    BY <2>1 DEF GivesBack, Stage
  <2>4. RemoveAt(holds, i) \in Seq(Blocks) /\ Len(RemoveAt(holds, i)) = Len(holds) - 1
    BY <1>t, RemoveOccurrences
  <2>5. holds' \in Seq(Blocks) /\ Len(holds') = Len(holds) - 1
    BY <2>2, <2>4
  <2>6. (holds' = <<>> <=> Len(holds') = 0) /\ Len(holds) >= 1
    BY <2>5, <1>t, EmptySeq, LenProperties
  <2>7. use_cnt' = IF use_cnt > 0 THEN use_cnt - 1 ELSE 0
    BY <2>3, <1>e, <1>t DEF UseCntDown
  <2>8. use_cnt' <= Len(holds')
    BY <2>5, <2>6, <2>7, <1>a, <1>t
  <2>9. uncounted \/ use_cnt = Len(holds)
    BY <1>b, <1>e, <1>f, <1>t
  <2>10. init' /\ ~uncounted' => use_cnt' = Len(holds')
    <3>1. SUFFICES ASSUME ~uncounted' PROVE use_cnt' = Len(holds')
      OBVIOUS
    <3>2. use_cnt = Len(holds) \/ ~(Len(holds) > 1)
      BY <3>1, <2>2, <2>9
    <3>3. QED
      BY <3>2, <2>5, <2>6, <2>7, <1>a, <1>t
  <2>11. ~init' /\ ~uncounted' => holds' = <<>>
    <3>1. SUFFICES ASSUME ~init, ~uncounted' PROVE Len(holds') = 0
      BY <2>2, <2>6
    <3>2. uncounted
      BY <3>1, <1>c, <2>6, <1>t
    <3>3. ~(Len(holds) > 1)
      BY <3>1, <3>2, <2>2
    <3>4. QED
      BY <3>3, <2>5, <2>6, <1>t
  <2>12. (uncounted' => recalled') /\ (recalled' => holds' # <<>>)
    <3>1. uncounted' => recalled'
      BY <2>2, <1>d
    <3>2. Len(holds) > 1 => Len(holds') # 0
      BY <2>5, <1>t
    <3>3. QED
      BY <3>1, <3>2, <2>2, <2>6
  <2>13. QED
    BY <2>8, <2>10, <2>11, <2>12, <1>g
<1>5. QED
  BY <1>1, <1>2, <1>3, <1>4 DEF Next, Consumer

\* While there is no queue, whatever the consumer still has was taken away from it.
LEMMA NothingHeld ==
  ASSUME Typed, Stage, UseCounted, ~Ready, ~recalled
  PROVE  holds = <<>>
<1>1. ~uncounted
  BY DEF UseCounted
<1>2. use_cnt = 0
  BY DEF Stage
<1>3. CASE init
  <2>1. Len(holds) = use_cnt
    BY <1>1, <1>3 DEF UseCounted
  <2>2. holds \in Seq(Blocks)
    BY DEF Typed
  <2>3. QED
    BY <2>1, <2>2, <1>2, EmptySeq
<1>4. CASE ~init
  BY <1>1, <1>4 DEF UseCounted
<1>5. QED
  BY <1>3, <1>4

\* What is counted for a published node keeps up with what the consumer has of it.
LEMMA HoldCountedStep ==
  ASSUME Typed, Stage, Placed, Blocked, UseCounted, HoldCounted, Next
  PROVE  HoldCounted'
<1> USE DEF kernel, queue, user, consumer, history, Goes
<1>t. /\ holds \in Seq(Blocks) /\ Published \subseteq Nodes /\ TD_NULL \notin Nodes
      /\ \A n \in Nodes : hold_cnt[n] \in Nat
      /\ \A e : Occurrences(holds, e) \in Nat /\ (Occurrences(holds, e) = 0 <=> e \notin Range(holds))
  <2>1. holds \in Seq(Blocks) /\ Len(holds) \in Nat
    BY ListTypes, LenProperties
  <2>2. \A e : Occurrences(holds, e) \in 0..Len(holds)
               /\ (Occurrences(holds, e) = 0 <=> e \notin Range(holds))
    BY <2>1, OccurrencesBounds
  <2>3. QED
    BY <2>1, <2>2, ListTypes, NodeFacts
<1>x. \A n \in Nodes : n \notin Published => hold_cnt[n] = 0
  BY DEF HoldCounted
<1>y. Ready => \A n \in Published : hold_cnt[n] <= Occurrences(holds, block[n])
  BY DEF HoldCounted, Count
<1>z. Ready /\ ~recalled =>
        /\ \A n \in Published : hold_cnt[n] = Occurrences(holds, block[n])
        /\ \A b \in Range(holds) : \E n \in Published : block[n] = b
  BY DEF HoldCounted, Count
<1>g. ASSUME \A n \in Nodes : n \notin Published' => hold_cnt'[n] = 0,
             Ready' => \A n \in Published' : hold_cnt'[n] <= Occurrences(holds', block'[n]),
             Ready' /\ ~recalled' =>
               /\ \A n \in Published' : hold_cnt'[n] = Occurrences(holds', block'[n])
               /\ \A b \in Range(holds') : \E n \in Published' : block'[n] = b
      PROVE  HoldCounted'
  BY <1>g DEF HoldCounted, Count
<1>u. ASSUME hold_cnt' = hold_cnt, holds' = holds, Published' = Published, recalled' = recalled,
             Ready' => Ready /\ block' = block
      PROVE  HoldCounted'
  BY <1>u, <1>x, <1>y, <1>z, <1>g
<1>n. ASSUME ~Ready', \A n \in Nodes : hold_cnt'[n] = 0
      PROVE  HoldCounted'
  BY <1>n, <1>g
<1>p. ASSUME Ready, use_node \in Nodes, use_node \notin Published,
             Published' \subseteq Published \cup {use_node}, use_node \in Published',
             \A n \in Published : n \notin Published' => hold_cnt[n] = 0,
             hold_cnt' = hold_cnt, holds' = holds, block' = block, recalled' = recalled
      PROVE  HoldCounted'
  <2>1. \A n \in Nodes : n \notin Published' => hold_cnt'[n] = 0
    BY <1>p, <1>x
  <2>2. \A n \in Published' : hold_cnt'[n] <= Occurrences(holds', block'[n])
    <3>1. hold_cnt[use_node] = 0
      BY <1>p, <1>x
    <3>2. QED
      BY <3>1, <1>p, <1>y, <1>t
  <2>3. ASSUME ~recalled'
        PROVE  /\ \A n \in Published' : hold_cnt'[n] = Occurrences(holds', block'[n])
               /\ \A b \in Range(holds') : \E n \in Published' : block'[n] = b
    <3>1. block[use_node] \notin Range(holds)
      <4>1. SUFFICES ASSUME block[use_node] \in Range(holds) PROVE FALSE
        OBVIOUS
      <4>2. PICK m \in Published : block[m] = block[use_node]
        BY <4>1, <2>3, <1>p, <1>z
      <4>3. block[use_node] # TD_NULL
        BY <1>p DEF Blocked
      <4>4. m = use_node
        BY <4>2, <4>3, <1>p, <1>t DEF Blocked
      <4>5. QED
        BY <4>4, <1>p
    <3>2. hold_cnt[use_node] = Occurrences(holds, block[use_node])
      BY <3>1, <1>p, <1>x, <1>t
    <3>3. \A n \in Published' : hold_cnt'[n] = Occurrences(holds', block'[n])
      BY <3>2, <2>3, <1>p, <1>z
    <3>4. ASSUME NEW b \in Range(holds)
          PROVE  \E n \in Published' : block[n] = b
      <4>1. PICK m \in Published : block[m] = b
        BY <2>3, <1>p, <1>z
      <4>2. hold_cnt[m] # 0
        BY <4>1, <2>3, <1>p, <1>z, <1>t
      <4>3. QED
        BY <4>1, <4>2, <1>p
    <3>5. QED
      BY <3>3, <3>4, <1>p
  <2>4. QED
    BY <2>1, <2>2, <2>3, <1>g
<1>a. ASSUME Ready, NEW b \in Blocks, holds' = Append(holds, b),
             Published' = Published, block' = block, recalled' = recalled,
             \A n \in Nodes : hold_cnt'[n] = IF n \in Busy(b) THEN hold_cnt[n] + 1 ELSE hold_cnt[n],
             recalled \/ \E n \in Published : block[n] = b
      PROVE  HoldCounted'
  <2>1. \A n \in Nodes : n \notin Published' => hold_cnt'[n] = 0
    BY <1>a, <1>x DEF Busy, Published
  <2>2. \A e : Occurrences(holds', e) = IF b = e THEN Occurrences(holds, e) + 1 ELSE Occurrences(holds, e)
    BY <1>a, <1>t, AppendOccurrences
  <2>3. \A n \in Published : n \in Busy(b) <=> block[n] = b
    BY DEF Busy, Published
  <2>4. \A n \in Published' : hold_cnt'[n] <= Occurrences(holds', block'[n])
    <3>1. TAKE n \in Published'
    <3>2. n \in Nodes /\ n \in Published /\ hold_cnt[n] <= Occurrences(holds, block[n])
      BY <1>a, <1>t, <1>y
    <3>3. CASE block[n] = b
      BY <3>2, <3>3, <2>2, <2>3, <1>a, <1>t
    <3>4. CASE block[n] # b
      BY <3>2, <3>4, <2>2, <2>3, <1>a, <1>t
    <3>5. QED
      BY <3>3, <3>4
  <2>5. ASSUME ~recalled'
        PROVE  \A n \in Published' : hold_cnt'[n] = Occurrences(holds', block'[n])
    <3>1. TAKE n \in Published'
    <3>2. n \in Nodes /\ n \in Published /\ hold_cnt[n] = Occurrences(holds, block[n])
      BY <2>5, <1>a, <1>t, <1>z
    <3>3. CASE block[n] = b
      BY <3>2, <3>3, <2>2, <2>3, <1>a, <1>t
    <3>4. CASE block[n] # b
      BY <3>2, <3>4, <2>2, <2>3, <1>a, <1>t
    <3>5. QED
      BY <3>3, <3>4
  <2>6. ASSUME ~recalled'
        PROVE  \A e \in Range(holds') : \E n \in Published' : block'[n] = e
    <3>1. Range(holds') = Range(holds) \cup {b}
      BY <1>a, <1>t, AppendRange
    <3>2. QED
      BY <3>1, <2>6, <1>a, <1>z
  <2>7. QED
    BY <2>1, <2>4, <2>5, <2>6, <1>g
<1>r. Ready' => BeBufInit \/ (Ready /\ block' = block)
  BY InUseStep
<1>b. ASSUME PutBusy, use_node # TD_NULL, Ready, Ready', ~BeBufInit,
             hold_cnt' = hold_cnt, holds' = holds, recalled' = recalled
      PROVE  HoldCounted'
  <2>1. use_node \in Nodes /\ Standing
    BY <1>b DEF Typed, Stage, Standing, Ready
  <2>2. Published' = {n \in Published : hold_cnt[n] # 0} \cup {use_node}
    BY <1>b, <2>1, PutBusyEffect
  <2>3. use_node \notin Published
    BY <2>1 DEF Placed, InOnePlace
  <2>4. block' = block
    BY <1>b, <1>r
  <2>5. QED
    BY <1>b, <2>1, <2>2, <2>3, <2>4, <1>p
<1>1. CASE MemInit \/ BeBufMalloc \/ GetBeBufFirst \/ IspInitFail \/ Write \/ EnableInterrupt
           \/ OptRunOnceInfo \/ GetBeFreeBuf \/ IspRunReturn \/ SwitchFail \/ IspExit
           \/ BeBufExitWait \/ ResetCtx \/ IrqTest \/ IrqTake \/ Crash
  <2>1. hold_cnt' = hold_cnt /\ holds' = holds /\ busy_list' = busy_list /\ recalled' = recalled
    BY <1>1 DEF MemInit, BeBufMalloc, GetBeBufFirst, IspInitFail, Write, EnableInterrupt,
       OptRunOnceInfo, GetBeFreeBuf, IspRunReturn, SwitchFail, IspExit, BeBufExitWait,
       ResetCtx, IrqTest, IrqTake, Crash
  <2>2. ~BeBufInit
    BY <1>1 DEF MemInit, BeBufMalloc, GetBeBufFirst, IspInitFail, Write, EnableInterrupt,
       OptRunOnceInfo, GetBeFreeBuf, IspRunReturn, SwitchFail, IspExit, BeBufExitWait,
       ResetCtx, IrqTest, IrqTake, Crash, BeBufInit, AfterRun
  <2>3. Published' = Published
    BY <2>1 DEF Published
  <2>4. QED
    BY <2>1, <2>2, <2>3, <1>r, <1>u
<1>2. CASE CreatBeBufQueue
  <2>1. CASE pc' = "queue"
    <3>1. hold_cnt' = [n \in Nodes |-> 0]
      BY <1>2, <2>1 DEF CreatBeBufQueue
    <3>2. QED
      BY <3>1, <2>1, <1>n DEF Ready
  <2>2. CASE pc' # "queue"
    <3>1. UNCHANGED <<hold_cnt, holds, busy_list, recalled>> /\ ~Ready'
      BY <1>2, <2>2 DEF CreatBeBufQueue, Ready
    <3>2. Published' = Published
      BY <3>1 DEF Published
    <3>3. QED
      BY <3>1, <3>2, <1>u
  <2>3. QED
    BY <2>1, <2>2
<1>3. CASE BeBufInit
  <2>1. ~Ready /\ hold_cnt' = hold_cnt /\ holds' = holds /\ busy_list' = busy_list /\ recalled' = recalled
    BY <1>3 DEF BeBufInit, Ready
  <2>2. Published' = {} /\ Published = {}
    <3>1. busy_list = <<>>
      BY <2>1 DEF Stage
    <3>2. QED
      BY <3>1, <2>1, OneElement DEF Published
  <2>3. ~recalled' => Range(holds') = {}
    <3>1. SUFFICES ASSUME ~recalled PROVE Range(holds) = {}
      BY <2>1
    <3>2. holds = <<>>
      BY <3>1, <2>1, NothingHeld
    <3>3. QED
      BY <3>2, OneElement
  <2>4. QED
    BY <2>1, <2>2, <2>3, <1>x, <1>g
<1>4. CASE AllBeBufInit
  <2>1. ~BeBufInit /\ Ready
    BY <1>4 DEF AllBeBufInit, BeBufInit, Stage, Ready
  <2>2. hold_cnt' = hold_cnt /\ holds' = holds /\ recalled' = recalled /\ block' = block
    BY <1>4 DEF AllBeBufInit
  <2>3. CASE use_node = TD_NULL
    <3>1. busy_list' = busy_list
      BY <1>4, <2>3 DEF AllBeBufInit
    <3>2. Published' = Published
      BY <3>1 DEF Published
    <3>3. QED
      BY <3>2, <2>1, <2>2, <1>u
  <2>4. CASE use_node # TD_NULL
    <3>1. use_node \in Nodes
      BY <2>1, <2>4 DEF Stage, Typed
    <3>2. busy_list' = Append(busy_list, use_node)
      BY <1>4, <2>4 DEF AllBeBufInit
    <3>3. Published' = Published \cup {use_node}
      BY <3>1, <3>2, ListTypes, AppendRange DEF Published
    <3>4. use_node \notin Published
      BY <3>1, <2>1 DEF Placed, InOnePlace, Ready, Standing
    <3>5. QED
      BY <3>1, <3>3, <3>4, <2>1, <2>2, <1>p
  <2>5. QED
    BY <2>3, <2>4
<1>5. CASE BeBufCtl \/ RunOnceProcess
  <2>1. hold_cnt' = hold_cnt /\ holds' = holds /\ recalled' = recalled /\ ~BeBufInit /\ Ready /\ Ready'
    BY <1>5 DEF BeBufCtl, RunOnceProcess, BeBufInit, AfterRun, Stage, Ready
  <2>2. CASE PutBusy /\ use_node # TD_NULL
    BY <2>1, <2>2, <1>b
  <2>3. CASE ~(PutBusy /\ use_node # TD_NULL)
    <3>1. busy_list' = busy_list
      BY <1>5, <2>3 DEF BeBufCtl, RunOnceProcess
    <3>2. Published' = Published
      BY <3>1 DEF Published
    <3>3. QED
      BY <3>2, <2>1, <1>r, <1>u
  <2>4. QED
    BY <2>2, <2>3
<1>6. CASE GetBeLastBuf
  <2>1. /\ busy_list' = <<>> /\ holds' = holds
        /\ hold_cnt' = [n \in Nodes |-> IF n \in Published THEN 0 ELSE hold_cnt[n]]
    BY <1>6, GetBeLastBufEffect DEF GetBeLastBuf
  <2>2. Published' = {}
    BY <2>1, OneElement DEF Published
  <2>3. \A n \in Nodes : hold_cnt'[n] = 0
    BY <2>1, <1>x
  <2>4. ~recalled' => Range(holds') = {}
    <3>1. ~recalled' => holds = <<>>
      BY <1>6 DEF GetBeLastBuf
    <3>2. QED
      BY <3>1, <2>1, OneElement
  <2>5. QED
    BY <2>2, <2>3, <2>4, <1>g
<1>7. CASE BeBufExit
  <2>1. CASE use_cnt = 0
    <3>1. hold_cnt' = [n \in Nodes |-> 0] /\ ~Ready'
      BY <1>7, <2>1 DEF BeBufExit, Ready
    <3>2. QED
      BY <3>1, <1>n
  <2>2. CASE use_cnt # 0
    <3>1. hold_cnt' = hold_cnt /\ holds' = holds /\ busy_list' = busy_list /\ recalled' = recalled /\ ~BeBufInit
      BY <1>7, <2>2 DEF BeBufExit, BeBufInit
    <3>2. Published' = Published
      BY <3>1 DEF Published
    <3>3. QED
      BY <3>1, <3>2, <1>r, <1>u
  <2>3. QED
    BY <2>1, <2>2
<1>8. CASE GetReadyBeBuf
  <2> DEFINE l == Last(busy_list)
  <2>1. /\ busy_list # <<>> /\ Ready /\ holds' = Append(holds, block[l])
        /\ hold_cnt' = [hold_cnt EXCEPT ![l] = @ + 1]
        /\ busy_list' = busy_list /\ block' = block /\ recalled' = recalled
    BY <1>8 DEF GetReadyBeBuf, Stage
  <2>2. l \in Published
    BY <2>1, ListTypes, FrontRange DEF Published
  <2>3. block[l] \in Blocks /\ block[l] # TD_NULL /\ l \in Nodes
    BY <2>1, <2>2, <1>t DEF Blocked, Typed
  <2> HIDE DEF l
  <2>4. Busy(block[l]) = {l}
    BY <2>1, <2>2, <2>3, <1>t DEF Busy, Blocked, Published
  <2>5. \A n \in Nodes : hold_cnt'[n] = IF n \in Busy(block[l]) THEN hold_cnt[n] + 1 ELSE hold_cnt[n]
    BY <2>1, <2>3, <2>4, ListTypes
  <2>6. Published' = Published
    BY <2>1 DEF Published
  <2>7. QED
    BY <2>1, <2>2, <2>3, <2>5, <2>6, <1>a
<1>9. CASE HoldBusyBeBuf
  <2>1. PICK b \in Range(holds) :
          /\ hold_cnt' = [n \in Nodes |-> IF n \in Busy(b) THEN hold_cnt[n] + 1 ELSE hold_cnt[n]]
          /\ holds' = Append(holds, b)
    BY <1>9 DEF HoldBusyBeBuf
  <2>2. Ready /\ busy_list' = busy_list /\ block' = block /\ recalled' = recalled
    BY <1>9 DEF HoldBusyBeBuf, Stage
  <2>3. b \in Blocks /\ (recalled \/ \E n \in Published : block[n] = b)
    BY <2>2, <1>z, ListTypes
  <2>4. \A n \in Nodes : hold_cnt'[n] = IF n \in Busy(b) THEN hold_cnt[n] + 1 ELSE hold_cnt[n]
    BY <2>1
  <2>5. Published' = Published
    BY <2>2 DEF Published
  <2>6. QED
    BY <2>1, <2>2, <2>3, <2>4, <2>5, <1>a
<1>10. CASE PutFreeBeBuf
  <2>1. PICK i \in DOMAIN holds : GivesBack(i)
    BY <1>10, PutFreeEffect
  <2>2. /\ holds' = RemoveAt(holds, i) /\ block' = block /\ init' = init /\ pc' = pc
        /\ recalled' <=> (recalled /\ Len(holds) > 1)
    BY <2>1 DEF GivesBack
  <2>3. CASE exit_state = "EXIT"
    <3>1. ~Ready' /\ hold_cnt' = hold_cnt /\ busy_list' = busy_list
      <4>1. ~Ready
        BY <2>3 DEF Stage
      <4>2. ~Ready'
        BY <4>1, <2>2 DEF Ready
      <4>3. QED
        BY <4>2, <2>1, <2>3 DEF GivesBack
    <3>2. Published' = Published
      BY <3>1 DEF Published
    <3>3. QED
      BY <3>1, <3>2, <1>x, <1>g
  <2>4. CASE exit_state # "EXIT"
    <3> DEFINE b == holds[i]
    <3>1. /\ Ready /\ b \in Blocks /\ Published' = Published \ Done(b)
          /\ \A n \in Nodes : hold_cnt'[n] = IF n \in Busy(b) /\ hold_cnt[n] # 0
                                             THEN hold_cnt[n] - 1 ELSE hold_cnt[n]
      BY <2>1, <2>4 DEF GivesBack
    <3>2. /\ RemoveAt(holds, i) \in Seq(Blocks) /\ Len(RemoveAt(holds, i)) = Len(holds) - 1
          /\ Range(RemoveAt(holds, i)) \subseteq Range(holds)
      BY <1>t, RemoveOccurrences
    <3>3. \A e : Occurrences(RemoveAt(holds, i), e) =
                   IF b = e THEN Occurrences(holds, e) - 1 ELSE Occurrences(holds, e)
      BY <1>t, RemoveOccurrences
    <3>4. /\ holds' \in Seq(Blocks) /\ Len(holds') = Len(holds) - 1 /\ Range(holds') \subseteq Range(holds)
          /\ \A e : Occurrences(holds', e) =
                      IF b = e THEN Occurrences(holds, e) - 1 ELSE Occurrences(holds, e)
      BY <3>2, <3>3, <2>2
    <3>5. \A n \in Published : n \in Busy(b) <=> block[n] = b
      BY DEF Busy, Published
    <3>6. Done(b) \subseteq Busy(b) /\ \A n \in Done(b) : n \in Nodes /\ n \in Published /\ hold_cnt[n] <= 1
      BY <1>t DEF Done, Busy, Published
    <3>7. Occurrences(holds, b) # 0
      BY <1>t DEF Range
    <3> HIDE DEF b
    <3>8. \A n \in Nodes : n \notin Published' => hold_cnt'[n] = 0
      <4>1. TAKE n \in Nodes
      <4>2. HAVE n \notin Published'
      <4>3. CASE n \notin Published
        BY <4>3, <3>1, <1>x DEF Busy, Published
      <4>4. CASE n \in Done(b)
        BY <4>4, <3>1, <3>6, <1>t
      <4>5. QED
        BY <4>2, <4>3, <4>4, <3>1
    <3>9. \A n \in Published' : hold_cnt'[n] <= Occurrences(holds', block'[n])
      <4>1. TAKE n \in Published'
      <4>2. n \in Nodes /\ n \in Published /\ hold_cnt[n] <= Occurrences(holds, block[n])
        BY <3>1, <1>t, <1>y
      <4>3. CASE block[n] = b
        BY <4>2, <4>3, <2>2, <3>1, <3>4, <3>5, <3>7, <1>t
      <4>4. CASE block[n] # b
        BY <4>2, <4>4, <2>2, <3>1, <3>4, <3>5, <1>t
      <4>5. QED
        BY <4>3, <4>4
    <3>10. CASE ~recalled
      <4>1. \A n \in Published' : hold_cnt'[n] = Occurrences(holds', block'[n])
        <5>1. TAKE n \in Published'
        <5>2. n \in Nodes /\ n \in Published /\ hold_cnt[n] = Occurrences(holds, block[n])
          BY <3>1, <3>10, <1>t, <1>z
        <5>3. CASE block[n] = b
          BY <5>2, <5>3, <2>2, <3>1, <3>4, <3>5, <3>7, <1>t
        <5>4. CASE block[n] # b
          BY <5>2, <5>4, <2>2, <3>1, <3>4, <3>5, <1>t
        <5>5. QED
          BY <5>3, <5>4
      <4>2. \A e \in Range(holds') : \E n \in Published' : block'[n] = e
        <5>1. TAKE e \in Range(holds')
        <5>2. PICK n \in Published : block[n] = e
          BY <3>1, <3>4, <3>10, <1>z
        <5>3. n \notin Done(b)
          <6>1. SUFFICES ASSUME n \in Done(b) PROVE FALSE
            OBVIOUS
          <6>2. e = b /\ hold_cnt[n] <= 1 /\ hold_cnt[n] = Occurrences(holds, e) /\ n \in Nodes
            BY <6>1, <5>2, <3>1, <3>5, <3>6, <3>10, <1>z, <1>t
          <6>3. Occurrences(holds', e) = Occurrences(holds, e) - 1
            BY <6>2, <3>4
          <6>4. Occurrences(holds', e) # 0 /\ Occurrences(holds', e) \in 0..Len(holds')
            BY <3>4, OccurrencesBounds
          <6>5. Len(holds') \in Nat
            BY <3>4, LenProperties
          <6>6. QED
            BY <6>2, <6>3, <6>4, <6>5, <1>t
        <5>4. QED
          BY <5>2, <5>3, <3>1, <2>2
      <4>3. QED
        BY <3>8, <3>9, <4>1, <4>2, <1>g
    <3>11. CASE recalled /\ ~(Len(holds) > 1)
      <4>1. holds' = <<>>
        <5>1. Len(holds') = 0
          <6>1. Len(holds') \in Nat /\ Len(holds) \in Nat
            BY <3>4, <1>t, LenProperties
          <6>2. ~(Len(holds) > 1)
            BY <3>11
          <6>3. QED
            BY <6>1, <6>2, <3>4
        <5>2. QED
          BY <5>1, <3>4, EmptySeq
      <4>2. Range(holds') = {}
        BY <4>1, OneElement
      <4>3. \A e : Occurrences(holds', e) = 0
        BY <3>4, <4>2, OccurrencesBounds
      <4>4. \A n \in Published' : hold_cnt'[n] = Occurrences(holds', block'[n])
        <5>1. TAKE n \in Published'
        <5>2. hold_cnt'[n] <= 0 /\ n \in Nodes
          BY <3>1, <3>9, <4>3, <1>t
        <5>3. hold_cnt'[n] \in Nat
          BY <5>2, <3>1, <1>t
        <5>4. QED
          BY <5>2, <5>3, <4>3
      <4>5. QED
        BY <3>8, <3>9, <4>2, <4>4, <1>g
    <3>12. CASE recalled'
      BY <3>8, <3>9, <3>12, <1>g
    <3>13. QED
      BY <2>2, <3>10, <3>11, <3>12
  <2>5. QED
    BY <2>3, <2>4
<1>11. QED
  BY <1>1, <1>2, <1>3, <1>4, <1>5, <1>6, <1>7, <1>8, <1>9, <1>10 DEF Next, Firmware, Consumer

\* Every published node but the newest is with the consumer.
LEMMA OrderedStep ==
  ASSUME Typed, Stage, Placed, Blocked, Ordered, Next
  PROVE  Ordered'
<1> USE DEF kernel, queue, user, consumer, history, Goes
<1>t. Published \subseteq Nodes /\ \A n \in Nodes : hold_cnt[n] \in Nat
  BY ListTypes
<1>u. ASSUME busy_list' = busy_list, \A n \in Nodes : hold_cnt'[n] = 0 => hold_cnt[n] = 0
      PROVE  Ordered'
  BY <1>u, <1>t DEF Ordered, Published
<1>n. ASSUME busy_list' = <<>>
      PROVE  Ordered'
  BY <1>n, OneElement DEF Ordered, Published
<1>b. ASSUME PutBusy, use_node # TD_NULL, Ready, hold_cnt' = hold_cnt
      PROVE  Ordered'
  <2>1. use_node \in Nodes /\ Standing
    BY <1>b DEF Typed, Stage, Standing, Ready
  <2>2. /\ Published' = {n \in Published : hold_cnt[n] # 0} \cup {use_node}
        /\ Last(busy_list') = use_node
    BY <1>b, <2>1, PutBusyEffect
  <2>3. QED
    BY <2>2, <1>b DEF Ordered
<1>1. CASE MemInit \/ BeBufMalloc \/ BeBufInit \/ GetBeBufFirst \/ IspInitFail \/ Write
           \/ EnableInterrupt \/ OptRunOnceInfo \/ GetBeFreeBuf \/ IspRunReturn \/ SwitchFail
           \/ IspExit \/ BeBufExitWait \/ ResetCtx \/ IrqTest \/ IrqTake \/ Crash
  <2>1. hold_cnt' = hold_cnt /\ busy_list' = busy_list
    BY <1>1 DEF MemInit, BeBufMalloc, BeBufInit, GetBeBufFirst, IspInitFail, Write,
       EnableInterrupt, OptRunOnceInfo, GetBeFreeBuf, IspRunReturn, SwitchFail, IspExit,
       BeBufExitWait, ResetCtx, IrqTest, IrqTake, Crash
  <2>2. QED
    BY <2>1, <1>u
<1>2. CASE CreatBeBufQueue \/ BeBufExit
  <2>1. busy_list' = <<>> \/ (hold_cnt' = hold_cnt /\ busy_list' = busy_list)
    BY <1>2 DEF CreatBeBufQueue, BeBufExit
  <2>2. QED
    BY <2>1, <1>u, <1>n
<1>3. CASE AllBeBufInit
  <2>1. busy_list = <<>> /\ Ready
    BY <1>3 DEF AllBeBufInit, Stage, Ready
  <2>2. CASE use_node = TD_NULL
    BY <1>3, <2>1, <2>2, <1>n DEF AllBeBufInit
  <2>3. CASE use_node # TD_NULL
    <3>1. use_node \in Nodes /\ busy_list' = Append(busy_list, use_node)
      BY <1>3, <2>1, <2>3 DEF AllBeBufInit, Stage, Typed
    <3>2. /\ Range(Append(busy_list, use_node)) = Range(busy_list) \cup {use_node}
          /\ Last(Append(busy_list, use_node)) = use_node
      BY <3>1, ListTypes, AppendRange
    <3>3. Range(busy_list) = {}
      BY <2>1, OneElement
    <3>4. QED
      BY <3>1, <3>2, <3>3 DEF Ordered, Published
  <2>4. QED
    BY <2>2, <2>3
<1>4. CASE BeBufCtl \/ RunOnceProcess
  <2>1. hold_cnt' = hold_cnt /\ Ready
    BY <1>4 DEF BeBufCtl, RunOnceProcess, Stage, Ready
  <2>2. (PutBusy /\ use_node # TD_NULL) \/ busy_list' = busy_list
    BY <1>4 DEF BeBufCtl, RunOnceProcess
  <2>3. QED
    BY <2>1, <2>2, <1>b, <1>u
<1>5. CASE GetBeLastBuf
  BY <1>5, <1>n DEF GetBeLastBuf
<1>6. CASE GetReadyBeBuf
  <2>1. busy_list' = busy_list /\ hold_cnt' = [hold_cnt EXCEPT ![Last(busy_list)] = @ + 1]
    BY <1>6 DEF GetReadyBeBuf
  <2>2. \A n \in Nodes : hold_cnt'[n] = hold_cnt[n] \/ hold_cnt'[n] = hold_cnt[n] + 1
    BY <2>1, ListTypes
  <2>3. QED
    BY <2>1, <2>2, <1>t, <1>u
<1>7. CASE HoldBusyBeBuf
  <2>1. busy_list' = busy_list
    BY <1>7 DEF HoldBusyBeBuf
  <2>2. \A n \in Nodes : hold_cnt'[n] = hold_cnt[n] \/ hold_cnt'[n] = hold_cnt[n] + 1
    BY <1>7 DEF HoldBusyBeBuf
  <2>3. QED
    BY <2>1, <2>2, <1>t, <1>u
<1>8. CASE PutFreeBeBuf
  <2>1. PICK i \in DOMAIN holds : GivesBack(i)
    BY <1>8, PutFreeEffect
  <2>2. CASE exit_state = "EXIT"
    BY <2>1, <2>2, <1>u DEF GivesBack
  <2>3. CASE exit_state # "EXIT"
    <3> DEFINE b == holds[i]
    <3>1. /\ Published' = Published \ Done(b)
          /\ \A n \in Nodes : hold_cnt'[n] = IF n \in Busy(b) /\ hold_cnt[n] # 0
                                             THEN hold_cnt[n] - 1 ELSE hold_cnt[n]
          /\ busy_list # <<>> /\ Last(busy_list) \notin Done(b) => Last(busy_list') = Last(busy_list)
      BY <2>1, <2>3 DEF GivesBack
    <3> HIDE DEF b
    <3>2. SUFFICES ASSUME NEW n \in Published', hold_cnt'[n] = 0
                   PROVE  n = Last(busy_list')
      BY DEF Ordered
    <3>3. n \in Published /\ n \in Nodes /\ n \notin Done(b)
      BY <3>1, <3>2, <1>t
    <3>4. hold_cnt[n] = 0 \/ (n \in Busy(b) /\ hold_cnt[n] <= 1)
      BY <3>1, <3>2, <3>3, <1>t
    <3>5. hold_cnt[n] = 0 \/ ~(Len(busy_list) > 1)
      BY <3>3, <3>4 DEF Done
    <3>6. busy_list # <<>>
      BY <3>3, OneElement DEF Published
    <3>7. n = Last(busy_list)
      <4>1. CASE hold_cnt[n] = 0
        BY <3>3, <4>1 DEF Ordered
      <4>2. CASE ~(Len(busy_list) > 1)
        <5>1. busy_list \in Seq(Nodes)
          BY ListTypes
        <5>l. Len(busy_list) \in Nat /\ Len(busy_list) # 0
          BY <5>1, <3>6, LenProperties, EmptySeq
        <5>2. Len(busy_list) = 1
          <6> DEFINE k == Len(busy_list)
          <6>1. k \in Nat /\ k # 0 /\ ~(k > 1)
            BY <5>l, <4>2
          <6> HIDE DEF k
          <6>2. k = 1
            BY <6>1
          <6>3. QED
            BY <6>2 DEF k
        <5>d. DOMAIN busy_list = 1..Len(busy_list)
          BY <5>1, LenProperties
        <5>3. PICK k \in DOMAIN busy_list : busy_list[k] = n
          BY <3>3 DEF Published, Range
        <5>4. k = Len(busy_list)
          BY <5>2, <5>d, <5>3
        <5>5. QED
          BY <5>3, <5>4 DEF Last
      <4>3. QED
        BY <3>5, <4>1, <4>2
    <3>8. QED
      BY <3>1, <3>3, <3>6, <3>7
  <2>4. QED
    BY <2>2, <2>3
<1>9. QED
  BY <1>1, <1>2, <1>3, <1>4, <1>5, <1>6, <1>7, <1>8 DEF Next, Firmware, Consumer

\* As long as no process dies, the interrupt looks for a buffer only while the firmware runs.
LEMMA ScheduledStep ==
  ASSUME Typed, Stage, Scheduled, Next, ~Crash
  PROVE  Scheduled'
<1> USE DEF kernel, queue, user, consumer, history, Goes, Running
<1>n. TD_NULL \notin Nodes
  BY NodeFacts
<1>1. CASE MemInit
  BY <1>1 DEF MemInit, Scheduled
<1>2. CASE BeBufMalloc
  BY <1>2 DEF BeBufMalloc, Scheduled
<1>3. CASE CreatBeBufQueue
  <2>1. use_node' = use_node /\ use_node \notin Nodes
    BY <1>3 DEF CreatBeBufQueue, Stage, Standing
  <2>2. QED
    BY <1>3, <2>1 DEF CreatBeBufQueue, Scheduled
<1>4. CASE BeBufInit
  BY <1>4, <1>n DEF BeBufInit, Scheduled, SetUseNode
<1>5. CASE GetBeBufFirst
  BY <1>5 DEF GetBeBufFirst, Scheduled
<1>6. CASE IspInitFail
  BY <1>6 DEF IspInitFail, Scheduled
<1>7. CASE Write
  BY <1>7 DEF Write, Scheduled
<1>8. CASE AllBeBufInit
  BY <1>8 DEF AllBeBufInit, Scheduled
<1>9. CASE EnableInterrupt
  BY <1>9 DEF EnableInterrupt, Scheduled
<1>10. CASE OptRunOnceInfo
  BY <1>10 DEF OptRunOnceInfo, Scheduled
<1>11. CASE GetBeFreeBuf
  BY <1>11 DEF GetBeFreeBuf, Scheduled
<1>12. CASE IspRunReturn
  BY <1>12 DEF IspRunReturn, Scheduled, AfterRun
<1>13. CASE BeBufCtl
  BY <1>13 DEF BeBufCtl, Scheduled, AfterRun
<1>14. CASE RunOnceProcess
  BY <1>14 DEF RunOnceProcess, Scheduled
<1>15. CASE GetBeLastBuf
  BY <1>15 DEF GetBeLastBuf, Scheduled
<1>16. CASE SwitchFail
  BY <1>16 DEF SwitchFail, Scheduled
<1>17. CASE IspExit
  BY <1>17 DEF IspExit, Scheduled
<1>18. CASE BeBufExitWait
  BY <1>18 DEF BeBufExitWait, Scheduled
<1>19. CASE BeBufExit
  BY <1>19 DEF BeBufExit, Scheduled
<1>20. CASE ResetCtx
  BY <1>20 DEF ResetCtx, Scheduled
<1>21. CASE IrqTest
  BY <1>21 DEF IrqTest, Scheduled
<1>22. CASE IrqTake
  BY <1>22 DEF IrqTake, Scheduled
<1>23. CASE GetReadyBeBuf
  BY <1>23 DEF GetReadyBeBuf, Scheduled
<1>24. CASE HoldBusyBeBuf
  BY <1>24 DEF HoldBusyBeBuf, Scheduled
<1>25. CASE PutFreeBeBuf
  <2>1. UNCHANGED <<int_enable, pc, run_thread_status, irq, use_node, switched>>
    BY <1>25 DEF PutFreeBeBuf
  <2>2. QED
    BY <2>1 DEF Scheduled
<1>26. QED
  BY <1>1, <1>2, <1>3, <1>4, <1>5, <1>6, <1>7, <1>8, <1>9, <1>10, <1>11, <1>12, <1>13, <1>14,
     <1>15, <1>16, <1>17, <1>18, <1>19, <1>20, <1>21, <1>22, <1>23, <1>24, <1>25
     DEF Next, Firmware, Consumer

\* No configuration in memory is lost once it is there, while the buffers are.
LEMMA ContentStep ==
  ASSUME Typed, Stage, Placed, Blocked, Owned, Next, Ready,
         pc = "written" => content[buf] # Zero /\ use_node \in Nodes /\ buf = block[use_node],
         pc # "switched"
  PROVE  \A b \in Blocks : content[b] # Zero => content'[b] # Zero
<1> USE DEF kernel, queue, user, consumer, history, Goes
<1>1. CASE Write
  <2>1. PICK c : c = CHOOSE x \in Configs : x \notin Range(content)
    OBVIOUS
  <2>2. c \in Configs
    BY <2>1, FreshConfig
  <2>3. content' = [content EXCEPT ![buf] = c] /\ content \in [Blocks -> Configs \cup {Zero}]
    BY <1>1, <2>1 DEF Write, Typed
  <2>4. QED
    BY <2>2, <2>3, ConfigsAssumption
<1>2. CASE AllBeBufInit
  <2>1. pc = "written" /\ content[buf] # Zero /\ use_node \in Nodes /\ buf = block[use_node]
    BY <1>2 DEF AllBeBufInit
  <2>2. content' = [b \in Blocks |->
               IF \E n \in Range(free_list) : block[n] = b THEN content[block[use_node]]
               ELSE content[b]]
    BY <1>2, <2>1, NodeFacts DEF AllBeBufInit
  <2>3. QED
    BY <2>1, <2>2
<1>3. CASE BeBufMalloc
  BY <1>3 DEF BeBufMalloc, Ready
<1>4. ASSUME ~Write, ~AllBeBufInit, ~BeBufMalloc
      PROVE  content' = content
  BY <1>4 DEF Next, Firmware, Consumer, MemInit, CreatBeBufQueue, BeBufInit, GetBeBufFirst,
     IspInitFail, EnableInterrupt, OptRunOnceInfo, GetBeFreeBuf, IspRunReturn, BeBufCtl,
     RunOnceProcess, GetBeLastBuf, SwitchFail, IspExit, BeBufExitWait, BeBufExit, ResetCtx,
     IrqTest, IrqTake, GetReadyBeBuf, HoldBusyBeBuf, PutFreeBeBuf, Crash
<1>5. QED
  BY <1>1, <1>2, <1>3, <1>4

\* A process that does not follow a dead one, and does not change the image mode, loses no
\* buffer and publishes none that it has not written.
LEMMA KeptStep ==
  ASSUME Typed, Stage, Queued, Placed, Blocked, Owned, Scheduled, ~switched => Kept,
         Next, ~Crash, ~switched'
  PROVE  Kept'
<1> USE DEF kernel, queue, user, consumer, history, Goes
<1>n. TD_NULL \notin Nodes /\ Freed \notin Nodes /\ TD_NULL \notin Blocks
  BY NodeFacts
<1>t. /\ Free \subseteq Nodes /\ Published \subseteq Nodes
      /\ Typed' /\ Stage' /\ Placed' /\ Blocked' /\ Scheduled'
  BY ListTypes, TypedStep, StageStep, PlacedStep, BlockedStep, ScheduledStep
<1>g. ~GetBeLastBuf
  BY DEF GetBeLastBuf
<1>1. CASE CreatBeBufQueue /\ pc' = "queue"
  <2>1. lost' = {} /\ busy_list' = <<>> /\ irq' # "take"
    BY <1>1 DEF CreatBeBufQueue, Scheduled, Running
  <2>2. Published' = {}
    BY <2>1, OneElement DEF Published
  <2>3. QED
    BY <1>1, <2>1, <2>2 DEF Kept, Configured
<1>2. ASSUME ~(CreatBeBufQueue /\ pc' = "queue")
      PROVE  Kept'
  <2>1. switched' = switched
    <3>1. CASE CreatBeBufQueue
      BY <3>1, <1>2 DEF CreatBeBufQueue
    <3>2. CASE ~CreatBeBufQueue
      BY <3>2, <1>g DEF Next, Firmware, Consumer, MemInit, BeBufMalloc, BeBufInit, GetBeBufFirst,
         IspInitFail, Write, AllBeBufInit, EnableInterrupt, OptRunOnceInfo, GetBeFreeBuf,
         IspRunReturn, BeBufCtl, RunOnceProcess, SwitchFail, IspExit, BeBufExitWait, BeBufExit,
         ResetCtx, IrqTest, IrqTake, GetReadyBeBuf, HoldBusyBeBuf, PutFreeBeBuf, Crash
    <3>3. QED
      BY <3>1, <3>2
  <2>k. /\ lost = {}
        /\ irq = "take" => use_node \notin Nodes
        /\ pc \in {"first", "written"} => use_node \in Nodes /\ buf = block[use_node]
        /\ pc = "written" => content[buf] # Zero
        /\ \A n \in Published : content[block[n]] # Zero
        /\ pc \in Configured => \A n \in Free \cup ({use_node} \cap Nodes) : content[block[n]] # Zero
    BY <2>1 DEF Kept
  <2>s. pc \notin {"last", "switched"}
    BY <2>1 DEF Scheduled
  <2>i. irq = "take" => pc \in {"up", "got", "ctl", "exit", "exit wait", "reset", "down"}
                        /\ (pc = "up" => run_thread_status = "RUN")
    BY <2>s DEF Scheduled, Running
  <2>2. lost' = {}
    <3>1. CASE BeBufInit \/ GetBeBufFirst
      <4>1. use_node \notin Nodes
        BY <3>1 DEF BeBufInit, GetBeBufFirst, Scheduled
      <4>2. lost' = lost \cup ({use_node} \cap Nodes) \/ lost' = lost
        BY <3>1 DEF BeBufInit, GetBeBufFirst, SetUseNode
      <4>3. QED
        BY <4>1, <4>2, <2>k
    <3>2. CASE IrqTake
      BY <3>2, <2>k DEF IrqTake, SetUseNode
    <3>3. CASE CreatBeBufQueue
      BY <3>3, <2>k DEF CreatBeBufQueue
    <3>4. ASSUME ~BeBufInit, ~GetBeBufFirst, ~IrqTake, ~CreatBeBufQueue
          PROVE  lost' = lost
      BY <3>4 DEF Next, Firmware, Consumer, MemInit, BeBufMalloc,
         IspInitFail, Write, AllBeBufInit, EnableInterrupt, OptRunOnceInfo, GetBeFreeBuf,
         IspRunReturn, BeBufCtl, RunOnceProcess, GetBeLastBuf, SwitchFail, IspExit, BeBufExitWait,
         BeBufExit, ResetCtx, IrqTest, GetReadyBeBuf, HoldBusyBeBuf, PutFreeBeBuf, Crash
    <3>5. QED
      BY <3>1, <3>2, <3>3, <3>4, <2>k
  <2>3. irq' = "take" => use_node' \notin Nodes
    <3>1. SUFFICES ASSUME irq' = "take" PROVE use_node' \notin Nodes
      OBVIOUS
    <3>2. CASE IrqTest
      BY <3>2, <1>n DEF IrqTest
    <3>3. CASE ~IrqTest
      <4>1. irq = "take"
        BY <3>1, <3>3 DEF Next, Firmware, Consumer, MemInit, BeBufMalloc, CreatBeBufQueue, BeBufInit,
           GetBeBufFirst, IspInitFail, Write, AllBeBufInit, EnableInterrupt, OptRunOnceInfo,
           GetBeFreeBuf, IspRunReturn, BeBufCtl, RunOnceProcess, GetBeLastBuf, SwitchFail, IspExit,
           BeBufExitWait, BeBufExit, ResetCtx, IrqTake, GetReadyBeBuf, HoldBusyBeBuf,
           PutFreeBeBuf, Crash
      <4>2. use_node \notin Nodes
        BY <4>1, <2>k
      <4>3. use_node' = use_node \/ use_node' = TD_NULL \/ use_node' = Freed
        BY <3>1, <3>3, <4>1, <2>i, <1>g DEF Next, Firmware, Consumer, MemInit, BeBufMalloc,
           CreatBeBufQueue, BeBufInit, GetBeBufFirst, IspInitFail, Write, AllBeBufInit, EnableInterrupt,
           OptRunOnceInfo, GetBeFreeBuf, IspRunReturn, BeBufCtl, RunOnceProcess, SwitchFail,
           IspExit, BeBufExitWait, BeBufExit, ResetCtx, IrqTake, GetReadyBeBuf, HoldBusyBeBuf,
           PutFreeBeBuf, Crash, PutBusy, SetUseNode
      <4>4. QED
        BY <4>2, <4>3, <1>n
    <3>4. QED
      BY <3>2, <3>3
  <2>4. ASSUME pc' \in {"first", "written"}
        PROVE  /\ use_node' \in Nodes /\ buf' = block'[use_node']
               /\ pc' = "written" => content'[buf'] # Zero
    <3>1. CASE GetBeBufFirst
      <4>1. free_list # <<>> /\ use_node' = Head(free_list) /\ buf' = block'[use_node'] /\ pc' = "first"
        BY <3>1, <2>4 DEF GetBeBufFirst, SetUseNode
      <4>2. use_node' \in Nodes
        BY <4>1, ListTypes, TailRange
      <4>3. QED
        BY <4>1, <4>2
    <3>2. CASE Write
      <4>1. /\ pc = "first" /\ use_node' = use_node /\ block' = block /\ buf' = buf
            /\ content' = [content EXCEPT ![buf] = CHOOSE x \in Configs : x \notin Range(content)]
        BY <3>2, <2>4 DEF Write
      <4>2. PICK c : c = CHOOSE x \in Configs : x \notin Range(content)
        OBVIOUS
      <4>3. c \in Configs
        BY <4>2, FreshConfig
      <4>4. content' = [content EXCEPT ![buf] = c] /\ content \in [Blocks -> Configs \cup {Zero}]
        BY <4>1, <4>2 DEF Typed
      <4>5. use_node \in Nodes /\ buf = block[use_node]
        BY <4>1, <2>k
      <4>6. buf \in Blocks
        BY <4>1 DEF Owned, Typed
      <4>7. content'[buf] = c
        BY <4>4, <4>6
      <4>8. QED
        BY <4>1, <4>3, <4>5, <4>7, ConfigsAssumption
    <3>3. CASE IrqTest \/ IrqTake \/ Consumer
      <4>1. pc' = pc /\ buf' = buf /\ block' = block /\ content' = content
        BY <3>3 DEF IrqTest, IrqTake, Consumer, GetReadyBeBuf, HoldBusyBeBuf, PutFreeBeBuf
      <4>2. ~IrqTake
        BY <4>1, <2>4, <2>i DEF IrqTake
      <4>3. use_node' = use_node
        BY <3>3, <4>2 DEF IrqTest, Consumer, GetReadyBeBuf, HoldBusyBeBuf, PutFreeBeBuf
      <4>4. QED
        BY <4>1, <4>3, <2>4, <2>k
    <3>4. ASSUME Firmware, ~GetBeBufFirst, ~Write
          PROVE  FALSE
      BY <2>4, <3>4 DEF Firmware, MemInit, BeBufMalloc, CreatBeBufQueue, BeBufInit, IspInitFail,
         AllBeBufInit, EnableInterrupt, OptRunOnceInfo, GetBeFreeBuf, IspRunReturn, BeBufCtl,
         RunOnceProcess, GetBeLastBuf, SwitchFail, IspExit, BeBufExitWait, BeBufExit, ResetCtx,
         AfterRun
    <3>5. QED
      BY <3>1, <3>2, <3>3, <3>4 DEF Next
  <2>c. ASSUME Ready
        PROVE  \A b \in Blocks : content[b] # Zero => content'[b] # Zero
    <3>1. pc = "written" => content[buf] # Zero /\ use_node \in Nodes /\ buf = block[use_node]
      BY <2>k
    <3>2. QED
      BY <3>1, <2>c, <2>s, ContentStep
  <2>5. /\ \A n \in Published' : content'[block'[n]] # Zero
        /\ pc' \in Configured => \A n \in Free' \cup ({use_node'} \cap Nodes) : content'[block'[n]] # Zero
    <3>1. SUFFICES ASSUME Ready'
                   PROVE  /\ \A n \in Published' : content'[block'[n]] # Zero
                          /\ pc' \in Configured =>
                               \A n \in Free' \cup ({use_node'} \cap Nodes) : content'[block'[n]] # Zero
      <4>1. ~Ready' => Published' = {}
        BY <1>t, OneElement DEF Stage, Published
      <4>2. pc' \in Configured => Ready'
        BY <1>t DEF Stage, Configured, Ready
      <4>3. QED
        BY <4>1, <4>2
    <3>2. BeBufInit \/ (Ready /\ block' = block /\ InUse' \subseteq InUse)
      BY <3>1, InUseStep
    <3>3. CASE BeBufInit
      <4>1. busy_list' = <<>> /\ pc' = "made"
        BY <3>3 DEF BeBufInit, Stage, Ready
      <4>2. Published' = {}
        BY <4>1, OneElement DEF Published
      <4>3. QED
        BY <4>1, <4>2 DEF Configured
    <3>4. CASE Ready /\ block' = block /\ InUse' \subseteq InUse
      <4>1. \A n \in InUse : block[n] \in Blocks
        BY <3>4, <1>t, <1>n DEF Blocked, InUse, Typed
      <4>2. \A n \in InUse : content[block[n]] # Zero => content'[block'[n]] # Zero
        BY <3>4, <4>1, <2>c
      <4>3. CASE pc \in Configured
        <5>1. \A n \in InUse : content[block[n]] # Zero
          BY <4>3, <2>k DEF InUse
        <5>2. QED
          BY <5>1, <4>2, <3>4 DEF InUse
      <4>4. CASE pc \notin Configured
        <5>1. CASE AllBeBufInit
          <6>1. pc = "written"
            BY <5>1, <2>s DEF AllBeBufInit
          <6>2. use_node \in Nodes /\ content[block[use_node]] # Zero
            BY <6>1, <2>k
          <6>3. /\ busy_list' = Append(busy_list, use_node) /\ use_node' = TD_NULL
                /\ free_list' = free_list
                /\ content' = [b \in Blocks |->
                     IF \E n \in Range(free_list) : block[n] = b THEN content[block[use_node]]
                     ELSE content[b]]
            BY <5>1, <6>2, <1>n DEF AllBeBufInit
          <6>4. Published' = Published \cup {use_node} /\ Free' = Free
            BY <6>2, <6>3, ListTypes, AppendRange DEF Published, Free
          <6>5. \A n \in Published' : content'[block'[n]] # Zero
            BY <6>2, <6>4, <4>2, <2>k, <1>t DEF InUse
          <6>6. \A n \in Free : content'[block'[n]] # Zero
            <7>1. TAKE n \in Free
            <7>2. block[n] \in Blocks /\ n \in Range(free_list)
              BY <4>1 DEF InUse, Free
            <7>3. content'[block[n]] = content[block[use_node]]
              BY <7>2, <6>3
            <7>4. QED
              BY <7>3, <6>2, <3>4
          <6>7. QED
            BY <6>3, <6>4, <6>5, <6>6, <1>n
        <5>2. CASE ~AllBeBufInit
          <6>1. Published' \subseteq Published
            <7>1. CASE PutFreeBeBuf
              <8>1. PICK i \in DOMAIN holds : GivesBack(i)
                BY <7>1, PutFreeEffect
              <8>2. QED
                BY <8>1 DEF GivesBack, Published
            <7>2. CASE ~PutFreeBeBuf
              <8>1. busy_list' = busy_list \/ busy_list' = <<>>
                BY <5>2, <7>2, <4>4, <1>g DEF Configured, Next, Firmware, Consumer, MemInit, BeBufMalloc,
                   CreatBeBufQueue, BeBufInit, GetBeBufFirst, IspInitFail, Write, EnableInterrupt,
                   OptRunOnceInfo, GetBeFreeBuf, IspRunReturn, BeBufCtl, RunOnceProcess, SwitchFail,
                   IspExit, BeBufExitWait, BeBufExit, ResetCtx, IrqTest, IrqTake, GetReadyBeBuf,
                   HoldBusyBeBuf, Crash
              <8>2. QED
                BY <8>1, OneElement DEF Published
            <7>3. QED
              BY <7>1, <7>2
          <6>2. pc' \notin Configured
            BY <5>2, <4>4, <1>g, <2>s DEF Configured, Next, Firmware, Consumer, MemInit, BeBufMalloc,
               CreatBeBufQueue, BeBufInit, GetBeBufFirst, IspInitFail, Write, EnableInterrupt,
               OptRunOnceInfo, GetBeFreeBuf, IspRunReturn, BeBufCtl, RunOnceProcess, SwitchFail,
               IspExit, BeBufExitWait, BeBufExit, ResetCtx, IrqTest, IrqTake, GetReadyBeBuf,
               HoldBusyBeBuf, PutFreeBeBuf, Crash
          <6>3. QED
            BY <6>1, <6>2, <4>2, <2>k DEF InUse
        <5>3. QED
          BY <5>1, <5>2
      <4>5. QED
        BY <4>3, <4>4
    <3>5. QED
      BY <3>2, <3>3, <3>4
  <2>6. QED
    BY <2>2, <2>3, <2>4, <2>5 DEF Kept
<1>3. QED
  BY <1>1, <1>2

-----------------------------------------------------------------------------
(* The theorems *)

\* The invariant holds before anything has been created.
LEMMA InitIInv == Init => IInv
<1> SUFFICES ASSUME Init PROVE IInv
  OBVIOUS
<1>1. /\ NumBufs \in Nat /\ TD_NULL \notin Nodes /\ Nodes = Blocks
      /\ MaxCrash \in Nat /\ MaxHold \in Nat
  BY NodeFacts, BoundsAssumption
<1>2. Free = {} /\ Published = {}
  BY OneElement DEF Init, Free, Published
<1>3. Range(holds) = {} /\ Len(holds) = 0 /\ holds \in Seq(Blocks)
  <2>1. holds = <<>>
    BY DEF Init
  <2>2. QED
    BY <2>1, OneElement, EmptySeq
<1>4. free_list \in Seq(Nodes) /\ busy_list \in Seq(Nodes)
  BY EmptySeq DEF Init
<1>5. Typed
  <2>1. /\ block \in [Nodes -> Blocks \cup {TD_NULL}] /\ hold_cnt \in [Nodes -> Nat] /\ use_cnt \in Nat
        /\ content \in [Blocks -> Configs \cup {Zero}]
    BY DEF Init
  <2>2. crashes \in 0..MaxCrash /\ Len(holds) <= MaxHold
    BY <1>1, <1>3 DEF Init
  <2>3. use_node \in Nodes \cup {TD_NULL, Freed} /\ buf \in Blocks \cup {TD_NULL} /\ lost \subseteq Nodes
    BY DEF Init
  <2>4. /\ init \in BOOLEAN /\ run_once_flag \in BOOLEAN /\ mem_init \in BOOLEAN /\ int_enable \in BOOLEAN
        /\ recalled \in BOOLEAN /\ uncounted \in BOOLEAN /\ switched \in BOOLEAN
    BY DEF Init
  <2>5. /\ exit_state \in {"EXIT", "READY", "WAITING"} /\ irq \in {"none", "take"} /\ pc \in Places
        /\ run_thread_status \in {"EXIT", "RUN", "ONCE"}
    BY DEF Init, Places
  <2>6. QED
    BY <1>3, <1>4, <2>1, <2>2, <2>3, <2>4, <2>5 DEF Typed
<1>6. Stage
  BY <1>1 DEF Init, Stage, Standing, Ready, TD_NULL, Freed
<1>7. Queued /\ Placed /\ Blocked /\ Owned
  BY DEF Init, Queued, Placed, Standing, Blocked, Ready, Owned
<1>8. UseCounted
  BY <1>3 DEF Init, UseCounted
<1>9. HoldCounted /\ Ordered
  BY <1>2 DEF Init, HoldCounted, Ready, Ordered
<1>10. NoLoss
  BY <1>1, <1>2 DEF Init, NoLoss, Scheduled, Kept, Configured, Running
<1>11. QED
  BY <1>5, <1>6, <1>7, <1>8, <1>9, <1>10 DEF IInv

\* Every step preserves it.
LEMMA NextIInv == IInv /\ [Next]_vars => IInv'
<1> SUFFICES ASSUME IInv, [Next]_vars PROVE IInv'
  OBVIOUS
<1>1. CASE Next
  <2>1. Typed' /\ Stage' /\ Queued' /\ Placed' /\ Blocked' /\ Owned'
    BY <1>1, TypedStep, StageStep, QueuedStep, PlacedStep, BlockedStep, OwnedStep DEF IInv
  <2>2. UseCounted' /\ HoldCounted' /\ Ordered'
    BY <1>1, UseCountedStep, HoldCountedStep, OrderedStep DEF IInv
  <2>3. NoLoss'
    <3>1. SUFFICES ASSUME crashes' = 0 PROVE Scheduled' /\ (~switched' => Kept')
      BY DEF NoLoss
    <3>2. ~Crash
      BY <3>1 DEF Crash, IInv, Typed
    <3>3. crashes = 0
      <4>1. CASE CreatBeBufQueue
        BY <3>1, <4>1 DEF CreatBeBufQueue
      <4>2. CASE ~CreatBeBufQueue
        BY <1>1, <3>1, <3>2, <4>2 DEF history, Next, Firmware, Consumer, MemInit, BeBufMalloc, BeBufInit,
           GetBeBufFirst, IspInitFail, Write, AllBeBufInit, EnableInterrupt, OptRunOnceInfo,
           GetBeFreeBuf, IspRunReturn, BeBufCtl, RunOnceProcess, GetBeLastBuf, SwitchFail, IspExit,
           BeBufExitWait, BeBufExit, ResetCtx, IrqTest, IrqTake, GetReadyBeBuf, HoldBusyBeBuf,
           PutFreeBeBuf
      <4>3. QED
        BY <4>1, <4>2
    <3>4. Scheduled /\ (~switched => Kept)
      BY <3>3 DEF IInv, NoLoss
    <3>5. Scheduled'
      BY <1>1, <3>2, <3>4, ScheduledStep DEF IInv
    <3>6. ~switched' => Kept'
      BY <1>1, <3>2, <3>4, KeptStep DEF IInv
    <3>7. QED
      BY <3>5, <3>6
  <2>4. QED
    BY <2>1, <2>2, <2>3 DEF IInv
<1>2. CASE UNCHANGED vars
  <2>1. UNCHANGED <<init, block, free_list, busy_list, use_node, hold_cnt, use_cnt, exit_state,
                    run_once_flag, mem_init, int_enable, content, irq, pc, buf,
                    run_thread_status, holds, recalled, uncounted, lost, switched, crashes>>
    BY <1>2 DEF vars, kernel, queue, user, consumer, history
  <2>2. /\ Free' = Free /\ Published' = Published /\ Ready' = Ready /\ Standing' = Standing
        /\ InOnePlace' = InOnePlace
    BY <2>1 DEF Free, Published, Ready, Standing, InOnePlace
  <2>3. Typed' /\ Stage' /\ Queued' /\ Placed' /\ Blocked' /\ Owned'
    <3>1. Typed'
      BY <2>1 DEF IInv, Typed
    <3>2. Stage'
      BY <2>1, <2>2 DEF IInv, Stage
    <3>3. Queued'
      BY <2>1 DEF IInv, Queued
    <3>4. Placed' /\ Blocked' /\ Owned'
      BY <2>1, <2>2 DEF IInv, Placed, Blocked, Owned
    <3>5. QED
      BY <3>1, <3>2, <3>3, <3>4
  <2>4. UseCounted' /\ HoldCounted' /\ Ordered'
    BY <2>1, <2>2 DEF IInv, UseCounted, HoldCounted, Count, Ordered
  <2>5. NoLoss'
    BY <2>1, <2>2 DEF IInv, NoLoss, Scheduled, Kept
  <2>6. QED
    BY <2>3, <2>4, <2>5 DEF IInv
<1>3. QED
  BY <1>1, <1>2

\* So it always holds, whatever the firmware, the interrupt, the consumer and
\* dying processes do in which order.
THEOREM Invariance == Spec => []IInv
BY InitIInv, NextIInv, PTL DEF Spec

\* The variables keep their types and the counters their bounds: no count of a
\* node exceeds what the consumer has. (isp_ext.c:187-340)
THEOREM TypeCorrect == Spec => []TypeOK
<1>1. IInv => TypeOK
  <2> SUFFICES ASSUME IInv PROVE TypeOK
    OBVIOUS
  <2>1. Typed /\ Stage /\ UseCounted /\ HoldCounted
    BY DEF IInv
  <2>2. holds \in Seq(Blocks) /\ Len(holds) \in Nat /\ Len(holds) <= MaxHold /\ MaxHold \in Nat
    BY <2>1, LenProperties, BoundsAssumption DEF Typed
  <2>3. use_cnt \in 0..MaxHold
    <3>1. use_cnt \in Nat /\ use_cnt <= Len(holds)
      BY <2>1 DEF Typed, UseCounted
    <3>2. QED
      BY <3>1, <2>2
  <2>4. hold_cnt \in [Nodes -> 0..MaxHold]
    <3>1. hold_cnt \in [Nodes -> Nat]
      BY <2>1 DEF Typed
    <3>2. \A n \in Nodes : hold_cnt[n] <= MaxHold
      <4>1. TAKE n \in Nodes
      <4>2. CASE n \notin Published
        BY <2>1, <2>2, <4>2 DEF HoldCounted
      <4>3. CASE ~Ready
        <5>1. hold_cnt[n] = 0
          BY <2>1, <4>3 DEF Stage
        <5>2. QED
          BY <5>1, <2>2
      <4>4. CASE Ready /\ n \in Published
        <5>1. hold_cnt[n] <= Occurrences(holds, block[n])
          BY <2>1, <4>4 DEF HoldCounted, Count
        <5>2. Occurrences(holds, block[n]) \in 0..Len(holds)
          BY <2>2, OccurrencesBounds
        <5>3. hold_cnt[n] \in Nat
          BY <3>1
        <5>4. QED
          BY <5>1, <5>2, <5>3, <2>2
      <4>5. QED
        BY <4>2, <4>3, <4>4
    <3>3. \A n \in Nodes : hold_cnt[n] \in 0..MaxHold
      BY <3>1, <3>2, <2>2
    <3>4. QED
      BY <3>1, <3>3
  <2>5. QED
    BY <2>1, <2>3, <2>4 DEF Typed, TypeOK, Places
<1>2. QED
  BY <1>1, Invariance, PTL

\* In a sequence without repetitions everything occurs once or not at all.
LEMMA OccurrencesInjective ==
  ASSUME NEW S, NEW s \in Seq(S), IsInjective(s), NEW e
  PROVE  Occurrences(s, e) = IF e \in Range(s) THEN 1 ELSE 0
<1>1. CASE e \in Range(s)
  <2>1. PICK k \in DOMAIN s : s[k] = e
    BY <1>1 DEF Range
  <2>2. {i \in DOMAIN s : s[i] = e} = {k}
    BY <2>1 DEF IsInjective
  <2>3. Cardinality({k}) = 1
    BY FS_Singleton
  <2>4. QED
    BY <1>1, <2>2, <2>3 DEF Occurrences
<1>2. CASE e \notin Range(s)
  BY <1>2, OccurrencesBounds
<1>3. QED
  BY <1>1, <1>2

\* A node is in exactly one place, and the nodes on the lists have blocks of
\* their own, for any number of buffers. (isp.c:1731-1793, 3982-4017,
\* 4442-4665, isp_ext.c:187-340)
THEOREM EachInOnePlace == Spec => []OnePlace
<1>1. IInv => OnePlace
  <2> DEFINE listed == free_list \o busy_list
  <2>1. SUFFICES ASSUME IInv, init, pc # "malloc"
                 PROVE  /\ \A n \in Nodes :
                             Cardinality({i \in DOMAIN listed : listed[i] = n})
                               + (IF use_node = n THEN 1 ELSE 0) + (IF n \in lost THEN 1 ELSE 0) = 1
                        /\ pc # "queue" => \A i, j \in DOMAIN listed :
                             block[listed[i]] # TD_NULL
                             /\ (block[listed[i]] = block[listed[j]] => i = j)
    BY DEF OnePlace
  <2>2. Typed /\ Placed /\ Blocked /\ Standing
    BY <2>1 DEF IInv, Standing
  <2>3. /\ free_list \in Seq(Nodes) /\ busy_list \in Seq(Nodes)
        /\ IsInjective(free_list) /\ IsInjective(busy_list)
        /\ Range(free_list) \cap Range(busy_list) = {}
    BY <2>2, ListTypes DEF Placed, InOnePlace, Free, Published
  <2>4. listed \in Seq(Nodes) /\ Range(listed) = Free \cup Published /\ IsInjective(listed)
    BY <2>3, ConcatRange, ConcatProperties DEF Free, Published
  <2> HIDE DEF listed
  <2>5. \A n \in Nodes :
          Occurrences(listed, n) + (IF use_node = n THEN 1 ELSE 0) + (IF n \in lost THEN 1 ELSE 0) = 1
    <3>1. TAKE n \in Nodes
    <3>2. Occurrences(listed, n) = IF n \in Free \cup Published THEN 1 ELSE 0
      BY <2>4, OccurrencesInjective
    <3>3. InOnePlace
      BY <2>2 DEF Placed
    <3>4. QED
      BY <3>2, <3>3 DEF InOnePlace
  <2>6. ASSUME pc # "queue", NEW i \in DOMAIN listed, NEW j \in DOMAIN listed
        PROVE  block[listed[i]] # TD_NULL /\ (block[listed[i]] = block[listed[j]] => i = j)
    <3>1. /\ listed[i] \in Free \cup Published /\ listed[j] \in Free \cup Published
          /\ listed[i] \in Nodes /\ listed[j] \in Nodes
      BY <2>4, ElementOfSeq, LenProperties DEF Range
    <3>2. Ready
      BY <2>1, <2>6 DEF Ready
    <3>3. block[listed[i]] # TD_NULL /\ (block[listed[i]] = block[listed[j]] => listed[i] = listed[j])
      BY <2>2, <3>1, <3>2 DEF Blocked
    <3>4. QED
      BY <3>3, <2>4 DEF IsInjective
  <2>7. QED
    BY <2>5, <2>6 DEF Occurrences
<1>2. QED
  BY <1>1, Invariance, PTL

\* The firmware never writes to a published buffer. (isp_regcfg.c:727-795)
THEOREM WritesApart == Spec => []WritesOwnBuffer
<1>1. IInv => WritesOwnBuffer
  <2>1. SUFFICES ASSUME IInv, pc \in {"first", "got", "last"}
                 PROVE  buf \in Blocks /\ \A n \in Range(busy_list) : block[n] # buf
    BY DEF WritesOwnBuffer
  <2>2. Typed /\ Blocked /\ Ready
    BY <2>1 DEF IInv, Stage, Ready
  <2>3. PICK m \in Nodes : m \notin Published /\ block[m] = buf /\ buf # TD_NULL
    BY <2>1 DEF IInv, Owned
  <2>4. QED
    BY <2>2, <2>3, ListTypes DEF Typed, Blocked, Published
<1>2. QED
  BY <1>1, Invariance, PTL

\* Without deaths and changes of the image mode no buffer is lost and none is
\* published unwritten. (isp.c:6692-6731, 4473-4503)
THEOREM LosesNothing == Spec => []NothingLost
<1>1. IInv => NothingLost
  <2>1. SUFFICES ASSUME IInv, ~switched, ~(crashes > 0)
                 PROVE  lost = {} /\ \A n \in Range(busy_list) : content[block[n]] # Zero
    BY DEF NothingLost
  <2>2. crashes \in 0..MaxCrash
    BY <2>1 DEF IInv, Typed
  <2>3. crashes = 0
    BY <2>1, <2>2, BoundsAssumption
  <2>4. QED
    BY <2>1, <2>3 DEF IInv, NoLoss, Kept, Published
<1>2. QED
  BY <1>1, Invariance, PTL

\* The kernel's counters agree with what the consumer has.
\* (isp_ext.c:187-340, isp.c:1795-1845, 4505-4560)
THEOREM CountsAgree == Spec => []Accounting
<1>1. IInv => Accounting
  <2> DEFINE Has(b) == Cardinality({i \in DOMAIN holds : holds[i] = b})
  <2>1. SUFFICES ASSUME IInv
                 PROVE  /\ (holds # <<>> /\ ~uncounted) => init
                        /\ init => /\ ~uncounted => use_cnt = Len(holds)
                                   /\ ~recalled => \A n \in Range(free_list \o busy_list) :
                                        hold_cnt[n] = IF n \in Range(busy_list) THEN Has(block[n]) ELSE 0
    BY DEF Accounting
  <2>2. Typed /\ Stage /\ UseCounted /\ HoldCounted
    BY <2>1 DEF IInv
  <2>3. (holds # <<>> /\ ~uncounted) => init
    BY <2>2 DEF UseCounted
  <2>4. init /\ ~uncounted => use_cnt = Len(holds)
    BY <2>2 DEF UseCounted
  <2>5. ASSUME ~recalled, NEW n \in Range(free_list \o busy_list)
        PROVE  hold_cnt[n] = IF n \in Range(busy_list) THEN Has(block[n]) ELSE 0
    <3>1. n \in Nodes
      <4>1. free_list \o busy_list \in Seq(Nodes)
        BY <2>2, ListTypes, ConcatProperties
      <4>2. QED
        BY <4>1, RangeInSet
    <3>2. CASE n \notin Published
      BY <2>2, <3>1, <3>2 DEF HoldCounted, Published
    <3>3. CASE n \in Published
      <4>1. Ready
        BY <2>2, <3>3, OneElement DEF Stage, Published
      <4>2. hold_cnt[n] = Occurrences(holds, block[n])
        BY <2>2, <2>5, <3>3, <4>1 DEF HoldCounted, Count
      <4>3. QED
        BY <4>2, <3>3 DEF Occurrences, Published
    <3>4. QED
      BY <3>2, <3>3
  <2>6. QED
    BY <2>3, <2>4, <2>5
<1>2. QED
  BY <1>1, Invariance, PTL

\* The interrupt finds no buffer only if all but one are with the consumer or
\* lost. (isp.c:3982-4017, isp_ext.c:234-260)
THEOREM StarvesLast == Spec => []NotStarved
<1>1. IInv => NotStarved
  <2> DEFINE held == {n \in Published : Held(n)}
  <2>1. SUFFICES ASSUME IInv, pc = "up", use_node = TD_NULL, free_list = <<>>
                 PROVE  Cardinality(held) >= NumBufs - 1 - Cardinality(lost)
    BY DEF NotStarved, Published
  <2>2. Typed /\ Stage /\ Placed /\ Ordered /\ Standing
    BY <2>1 DEF IInv, Stage, Standing
  <2>3. Free = {} /\ TD_NULL \notin Nodes /\ IsFiniteSet(Nodes) /\ Cardinality(Nodes) = NumBufs
    BY <2>1, OneElement, NodeFacts DEF Free
  <2>4. Published \subseteq Nodes /\ lost \subseteq Nodes
    BY <2>2, ListTypes DEF Typed
  <2>5. \A n \in Nodes : n \in Published \/ n \in lost
    BY <2>1, <2>2, <2>3 DEF Placed, InOnePlace
  <2>6. \A n \in Published : Held(n) \/ n = Last(busy_list)
    <3>1. \A n \in Published : Held(n) \/ hold_cnt[n] = 0
      BY <2>2, <2>4, ListTypes
    <3>2. QED
      BY <3>1, <2>2 DEF Ordered
  <2>7. Nodes \subseteq (held \cup lost) \cup {Last(busy_list)}
    BY <2>5, <2>6
  <2>8. held \subseteq Nodes
    BY <2>4
  <2> HIDE DEF held
  <2>9. IsFiniteSet(held) /\ IsFiniteSet(lost)
    BY <2>3, <2>4, <2>8, FS_Subset
  <2>10. /\ IsFiniteSet(held \cup lost)
         /\ Cardinality(held \cup lost) = Cardinality(held) + Cardinality(lost) - Cardinality(held \cap lost)
    BY <2>9, FS_Union
  <2>11. IsFiniteSet(held \cap lost)
    BY <2>9, FS_Intersection
  <2>12. /\ Cardinality(held) \in Nat /\ Cardinality(lost) \in Nat /\ Cardinality(held \cap lost) \in Nat
         /\ Cardinality(held \cup lost) \in Nat
    BY <2>9, <2>10, <2>11, FS_CardinalityType
  <2> DEFINE all == (held \cup lost) \cup {Last(busy_list)}
  <2>13. IsFiniteSet(all) /\ Cardinality(all) <= Cardinality(held \cup lost) + 1
    <3>1. /\ IsFiniteSet((held \cup lost) \cup {Last(busy_list)})
          /\ Cardinality((held \cup lost) \cup {Last(busy_list)})
               = IF Last(busy_list) \in held \cup lost THEN Cardinality(held \cup lost)
                 ELSE Cardinality(held \cup lost) + 1
      BY <2>10, FS_AddElement
    <3>2. QED
      BY <3>1, <2>12
  <2>14. NumBufs <= Cardinality(all) /\ Cardinality(all) \in Nat
    BY <2>3, <2>7, <2>13, FS_Subset, FS_CardinalityType
  <2>15. QED
    BY <2>10, <2>12, <2>13, <2>14, BufsAssumption
<1>2. QED
  BY <1>1, Invariance, PTL

-----------------------------------------------------------------------------
(* The register *)

\* What is lent, and what is published last, are configurations.
Readable ==
  /\ \A n \in Nodes : Held(n) => n \in Published
  /\ \A n \in Published : block[n] \in Blocks /\ content[block[n]] \in Configs \cup {Zero}
                          /\ content[block[n]] # TD_NULL
  /\ \A n \in Nodes : Lent[n] = IF Held(n) THEN content[block[n]] ELSE TD_NULL
  /\ \A n \in Nodes : hold_cnt[n] \in Nat /\ (Held(n) <=> hold_cnt[n] # 0)
  /\ busy_list # <<>> => Last(busy_list) \in Published /\ Newest = content[block[Last(busy_list)]]
  /\ busy_list = <<>> => Newest = TD_NULL /\ Published = {}
  /\ Published # {} => Ready

\* They are, in every reachable state.
LEMMA RegisterFacts ==
  ASSUME IInv
  PROVE  Readable
<1>1. Typed /\ Stage /\ Blocked /\ HoldCounted
  BY DEF IInv
<1>2. Published \subseteq Nodes /\ \A n \in Nodes : hold_cnt[n] \in Nat /\ (Held(n) <=> hold_cnt[n] # 0)
  BY <1>1, ListTypes
<1>3. \A n \in Nodes : Held(n) => n \in Published
  BY <1>1, <1>2 DEF HoldCounted
<1>4. busy_list = <<>> => Newest = TD_NULL /\ Published = {}
  BY OneElement DEF Newest, Published
<1>5. Published # {} => Ready
  BY <1>1, <1>4 DEF Stage
<1>6. \A n \in Published : block[n] \in Blocks /\ content[block[n]] \in Configs \cup {Zero}
  BY <1>1, <1>2, <1>5 DEF Blocked, Typed
<1>7. \A n \in Published : content[block[n]] # TD_NULL
  BY <1>6, ConfigsAssumption DEF TD_NULL
<1>8. busy_list # <<>> => Last(busy_list) \in Published /\ Newest = content[block[Last(busy_list)]]
  BY <1>1, ListTypes, FrontRange DEF Published, Newest
<1>9. QED
  BY <1>2, <1>3, <1>4, <1>5, <1>6, <1>7, <1>8 DEF Lent, Readable

\* Nothing is published or lent in the beginning.
LEMMA RegisterInit == Init => Register!Init
BY DEF Init, Register!Init, Newest, Lent, Held

\* Every step of the buffers is a step of the register or none.
LEMMA RegisterStep ==
  ASSUME IInv, Readable, Readable', [Next]_vars
  PROVE  [Register!Next]_<<Newest, Lent>>
<1> USE DEF kernel, queue, user, consumer, history, Goes
<1> DEFINE Step == Register!Next \/ (Newest' = Newest /\ Lent' = Lent)
<1> SUFFICES Step
  OBVIOUS
<1>f. /\ \A n \in Nodes : Held(n) => n \in Published
      /\ \A n \in Published : block[n] \in Blocks /\ content[block[n]] \in Configs \cup {Zero}
                              /\ content[block[n]] # TD_NULL
      /\ \A n \in Nodes : Lent[n] = IF Held(n) THEN content[block[n]] ELSE TD_NULL
      /\ \A n \in Nodes : hold_cnt[n] \in Nat /\ (Held(n) <=> hold_cnt[n] # 0)
      /\ busy_list # <<>> => Last(busy_list) \in Published /\ Newest = content[block[Last(busy_list)]]
      /\ busy_list = <<>> => Newest = TD_NULL /\ Published = {}
      /\ Published # {} => Ready
  BY DEF Readable
<1>h. /\ \A n \in Nodes : Held(n)' => n \in Published'
      /\ \A n \in Published' : block'[n] \in Blocks /\ content'[block'[n]] \in Configs \cup {Zero}
                              /\ content'[block'[n]] # TD_NULL
      /\ \A n \in Nodes : Lent'[n] = IF Held(n)' THEN content'[block'[n]] ELSE TD_NULL
      /\ \A n \in Nodes : hold_cnt'[n] \in Nat /\ (Held(n)' <=> hold_cnt'[n] # 0)
      /\ busy_list' # <<>> => Last(busy_list') \in Published' /\ Newest' = content'[block'[Last(busy_list')]]
      /\ busy_list' = <<>> => Newest' = TD_NULL /\ Published' = {}
      /\ Published' # {} => Ready'
  BY DEF Readable
<1>t. /\ Typed /\ Stage /\ Placed /\ Blocked /\ Owned /\ Ordered /\ HoldCounted
      /\ Published \subseteq Nodes
  BY ListTypes DEF IInv
<1>l. Lent = [n \in Nodes |-> Lent[n]] /\ Lent' = [n \in Nodes |-> Lent'[n]]
  BY DEF Lent
<1>s. ASSUME \A n \in Nodes : Lent'[n] = Lent[n]
      PROVE  Lent' = Lent
  BY <1>s, <1>l
\* Nothing is published or lent before or after.
<1>e. ASSUME busy_list' = <<>>, busy_list = <<>>
      PROVE  Step
  <2>1. \A n \in Nodes : Lent'[n] = TD_NULL /\ Lent[n] = TD_NULL
    BY <1>e, <1>f, <1>h
  <2>2. QED
    BY <2>1, <1>e, <1>f, <1>h, <1>s
\* Everything is taken away.
<1>w. ASSUME busy_list' = <<>>
      PROVE  Step
  <2>1. \A n \in Nodes : Lent'[n] = TD_NULL
    BY <1>w, <1>h
  <2>2. Lent' = [s \in Nodes |-> TD_NULL]
    BY <2>1, <1>l
  <2>3. Newest' = TD_NULL
    BY <1>w, <1>h
  <2>4. QED
    BY <2>2, <2>3 DEF Register!Next, Register!TakeAway
\* Something is published, and what is lent stays as it is.
<1>p. ASSUME Newest' \in Configs \cup {Zero}, \A n \in Nodes : Lent'[n] = Lent[n]
      PROVE  Step
  BY <1>p, <1>s DEF Register!Next, Register!Publish
\* The lists and what the published nodes point to stay as they are.
<1>u. ASSUME busy_list' = busy_list, hold_cnt' = hold_cnt,
             \A n \in Published : content'[block'[n]] = content[block[n]]
      PROVE  Step
  <2>1. \A n \in Nodes : Lent'[n] = Lent[n]
    <3>1. \A n \in Nodes : Held(n)' <=> Held(n)
      BY <1>u, <1>f, <1>h
    <3>2. QED
      BY <3>1, <1>u, <1>f, <1>h
  <2>2. Newest' = Newest
    BY <1>u, <1>f, <1>h
  <2>3. QED
    BY <2>1, <2>2, <1>s
\* One node more is lent, which the newest configuration is in, or one that is lent already.
<1>a. ASSUME NEW m \in Published, busy_list' = busy_list, block' = block, content' = content,
             \A n \in Nodes : hold_cnt'[n] = IF n = m THEN hold_cnt[n] + 1 ELSE hold_cnt[n]
      PROVE  Step
  <2>1. Newest' = Newest
    BY <1>a, <1>f, <1>h
  <2>2. m \in Nodes /\ \A n \in Nodes : Held(n)' <=> Held(n) \/ n = m
    BY <1>a, <1>f, <1>h, <1>t
  <2>3. CASE Held(m)
    <3>1. \A n \in Nodes : Lent'[n] = Lent[n]
      BY <2>2, <2>3, <1>a, <1>f, <1>h
    <3>2. QED
      BY <2>1, <3>1, <1>s
  <2>4. CASE ~Held(m)
    <3>1. m = Last(busy_list)
      BY <2>2, <2>4, <1>a, <1>f, <1>t DEF Ordered
    <3>2. busy_list # <<>>
      BY <1>f
    <3>3. Newest = content[block[m]] /\ Newest # TD_NULL
      BY <3>1, <3>2, <1>f
    <3>4. \A n \in Nodes : Lent'[n] = IF n = m THEN Newest ELSE Lent[n]
      BY <2>2, <3>3, <1>a, <1>f, <1>h
    <3>5. Lent' = [Lent EXCEPT ![m] = Newest]
      BY <3>4, <2>2, <1>l
    <3>6. Lent[m] = TD_NULL
      BY <2>2, <2>4, <1>f
    <3>7. QED
      BY <2>1, <2>2, <3>3, <3>5, <3>6 DEF Register!Next, Register!Get
  <2>5. QED
    BY <2>3, <2>4
<1> HIDE DEF Step
<1>1. CASE MemInit \/ GetBeBufFirst \/ IspInitFail \/ EnableInterrupt \/ OptRunOnceInfo
           \/ GetBeFreeBuf \/ IspRunReturn \/ SwitchFail \/ IspExit \/ BeBufExitWait \/ ResetCtx
           \/ IrqTest \/ IrqTake \/ Crash \/ UNCHANGED vars
  <2>1. UNCHANGED <<busy_list, hold_cnt, content, block>>
    BY <1>1 DEF MemInit, GetBeBufFirst, IspInitFail, EnableInterrupt, OptRunOnceInfo,
       GetBeFreeBuf, IspRunReturn, SwitchFail, IspExit, BeBufExitWait, ResetCtx, IrqTest,
       IrqTake, Crash, vars
  <2>2. QED
    BY <2>1, <1>u
<1>2. CASE BeBufMalloc \/ BeBufInit \/ CreatBeBufQueue
  <2>1. busy_list' = busy_list \/ busy_list' = <<>>
    BY <1>2 DEF BeBufMalloc, BeBufInit, CreatBeBufQueue
  <2>2. CASE UNCHANGED <<busy_list, hold_cnt, content, block>>
    BY <2>2, <1>u
  <2>3. CASE ~UNCHANGED <<busy_list, hold_cnt, content, block>>
    <3>1. ~Ready
      BY <1>2, <2>3 DEF BeBufMalloc, BeBufInit, CreatBeBufQueue, Ready
    <3>2. busy_list = <<>>
      BY <3>1, <1>t DEF Stage
    <3>3. QED
      BY <2>1, <3>2, <1>e
  <2>4. QED
    BY <2>2, <2>3
<1>3. CASE Write
  <2>1. PICK c : content' = [content EXCEPT ![buf] = c]
    BY <1>3 DEF Write
  <2>2. UNCHANGED <<busy_list, hold_cnt, block>> /\ pc \in {"first", "got", "last"}
    BY <1>3 DEF Write
  <2>3. PICK m \in Nodes : m \notin Published /\ block[m] = buf /\ buf # TD_NULL
    BY <2>2, <1>t DEF Owned
  <2>4. \A n \in Published : block[n] # buf
    BY <2>3, <1>f, <1>t DEF Blocked
  <2>5. content \in [Blocks -> Configs \cup {Zero}]
    BY <1>t DEF Typed
  <2>6. \A n \in Published : content'[block'[n]] = content[block[n]]
    BY <2>1, <2>2, <2>4, <2>5, <1>f
  <2>7. QED
    BY <2>2, <2>6, <1>u
<1>4. CASE AllBeBufInit
  <2>1. busy_list = <<>> /\ hold_cnt' = hold_cnt
    BY <1>4, <1>t DEF AllBeBufInit, Stage
  <2>2. CASE busy_list' = <<>>
    BY <2>1, <2>2, <1>e
  <2>3. CASE busy_list' # <<>>
    <3>1. Newest' \in Configs \cup {Zero}
      BY <2>3, <1>h
    <3>2. \A n \in Nodes : hold_cnt[n] = 0
      BY <2>1, <1>f
    <3>3. \A n \in Nodes : Lent'[n] = Lent[n]
      BY <3>2, <2>1, <1>f, <1>h
    <3>4. QED
      BY <3>1, <3>3, <1>p
  <2>4. QED
    BY <2>2, <2>3
<1>5. CASE BeBufCtl \/ RunOnceProcess
  <2>1. UNCHANGED <<hold_cnt, content, block>> /\ Ready
    BY <1>5, <1>t DEF BeBufCtl, RunOnceProcess, Stage, Ready
  <2>2. CASE busy_list' = busy_list
    BY <2>1, <2>2, <1>u
  <2>3. CASE busy_list' # busy_list
    <3>1. PutBusy /\ use_node # TD_NULL
      BY <1>5, <2>3 DEF BeBufCtl, RunOnceProcess
    <3>2. use_node \in Nodes /\ Standing
      BY <2>1, <3>1, <1>t DEF Typed, Stage, Standing, Ready
    <3>3. busy_list' # <<>>
      BY <3>1, <3>2, <1>t, PutBusyEffect
    <3>4. Newest' \in Configs \cup {Zero}
      BY <3>3, <1>h
    <3>5. \A n \in Nodes : Lent'[n] = Lent[n]
      <4>1. \A n \in Nodes : Held(n)' <=> Held(n)
        BY <2>1, <1>f, <1>h
      <4>2. QED
        BY <4>1, <2>1, <1>f, <1>h
    <3>6. QED
      BY <3>4, <3>5, <1>p
  <2>4. QED
    BY <2>2, <2>3
<1>6. CASE GetBeLastBuf
  BY <1>6, <1>w DEF GetBeLastBuf
<1>7. CASE BeBufExit
  <2>1. CASE use_cnt = 0
    BY <1>7, <2>1, <1>w DEF BeBufExit
  <2>2. CASE use_cnt # 0
    BY <1>7, <2>2, <1>u DEF BeBufExit
  <2>3. QED
    BY <2>1, <2>2
<1>8. CASE GetReadyBeBuf
  <2>1. /\ busy_list # <<>> /\ UNCHANGED <<busy_list, block, content>>
        /\ hold_cnt' = [hold_cnt EXCEPT ![Last(busy_list)] = @ + 1]
    BY <1>8 DEF GetReadyBeBuf
  <2>2. Last(busy_list) \in Published /\ hold_cnt \in [Nodes -> Nat]
    BY <2>1, <1>f, <1>t DEF Typed
  <2>3. \A n \in Nodes : hold_cnt'[n] = IF n = Last(busy_list) THEN hold_cnt[n] + 1 ELSE hold_cnt[n]
    BY <2>1, <2>2
  <2>4. QED
    BY <2>1, <2>2, <2>3, <1>a
<1>9. CASE HoldBusyBeBuf
  <2>1. PICK b \in Range(holds) :
          hold_cnt' = [n \in Nodes |-> IF n \in Busy(b) THEN hold_cnt[n] + 1 ELSE hold_cnt[n]]
    BY <1>9 DEF HoldBusyBeBuf
  <2>2. UNCHANGED <<busy_list, block, content>>
    BY <1>9 DEF HoldBusyBeBuf
  <2>3. Busy(b) \subseteq Published
    BY DEF Busy, Published
  <2>4. CASE Busy(b) = {}
    <3>1. hold_cnt \in [Nodes -> Nat]
      BY <1>t DEF Typed
    <3>2. hold_cnt' = hold_cnt
      BY <2>1, <2>4, <3>1
    <3>3. QED
      BY <3>2, <2>2, <1>u
  <2>5. CASE Busy(b) # {}
    <3>1. PICK m \in Busy(b) : TRUE
      BY <2>5
    <3>2. Busy(b) = {m}
      BY <3>1, <2>3, <1>f, <1>t, NodeFacts DEF Busy, Blocked
    <3>3. \A n \in Nodes : hold_cnt'[n] = IF n = m THEN hold_cnt[n] + 1 ELSE hold_cnt[n]
      BY <2>1, <3>2
    <3>4. QED
      BY <2>2, <2>3, <3>1, <3>3, <1>a
  <2>6. QED
    BY <2>4, <2>5
<1>10. CASE PutFreeBeBuf
  <2>1. PICK i \in DOMAIN holds : GivesBack(i)
    BY <1>10, <1>t, PutFreeEffect
  <2>2. content' = content /\ block' = block
    BY <2>1 DEF GivesBack
  <2>3. CASE exit_state = "EXIT"
    BY <2>1, <2>2, <2>3, <1>u DEF GivesBack
  <2>4. CASE exit_state # "EXIT"
    <3> DEFINE b == holds[i]
    <3>1. /\ Published' = Published \ Done(b) /\ Ready
          /\ \A n \in Nodes : hold_cnt'[n] = IF n \in Busy(b) /\ hold_cnt[n] # 0
                                             THEN hold_cnt[n] - 1 ELSE hold_cnt[n]
          /\ busy_list = <<>> => busy_list' = <<>>
          /\ busy_list # <<>> /\ Last(busy_list) \notin Done(b) =>
               busy_list' # <<>> /\ Last(busy_list') = Last(busy_list)
      BY <2>1, <2>4 DEF GivesBack
    <3> HIDE DEF b
    <3>2. Done(b) \subseteq Busy(b) /\ Busy(b) \subseteq Published
      BY DEF Done, Busy, Published
    <3>3. CASE busy_list = <<>>
      BY <3>1, <3>3, <1>e
    <3>4. CASE busy_list # <<>>
      <4>1. Last(busy_list) \notin Done(b) => Newest' = Newest
        BY <3>1, <3>4, <2>2, <1>f, <1>h
      <4>2. \A n \in Nodes : Held(n)' => Held(n)
        BY <3>1, <1>f, <1>h
      <4>3. ASSUME Last(busy_list) \in Done(b)
            PROVE  /\ busy_list' # <<>>
                   /\ Last(busy_list') # Last(busy_list) /\ Last(busy_list') \in Published
                   /\ Last(busy_list') \in Published'
        <5>1. Len(busy_list) > 1
          BY <4>3 DEF Done
        <5>2. \E n \in Published : n \notin Done(b)
          <6>1. busy_list \in Seq(Nodes) /\ Len(busy_list) \in Nat /\ DOMAIN busy_list = 1..Len(busy_list)
            BY <1>t, ListTypes, LenProperties
          <6>2. 1 \in DOMAIN busy_list /\ Len(busy_list) \in DOMAIN busy_list /\ 1 # Len(busy_list)
            <7> DEFINE n == Len(busy_list)
            <7>1. n \in Nat /\ n > 1 /\ DOMAIN busy_list = 1..n
              BY <5>1, <6>1
            <7> HIDE DEF n
            <7>2. 1 \in 1..n /\ n \in 1..n /\ 1 # n
              BY ONLY <7>1
            <7>3. QED
              BY ONLY <7>1, <7>2, Zenon DEF n
          <6>3. IsInjective(busy_list)
            BY <3>1, <1>t DEF Placed, Ready, Standing
          <6>4. busy_list[1] # Last(busy_list)
            BY <6>2, <6>3 DEF IsInjective, Last
          <6>5. busy_list[1] \in Published
            BY <6>2 DEF Published, Range
          <6>6. busy_list[1] \notin Done(b)
            BY <6>4, <6>5, <4>3, <3>1, <3>2, <1>f, <1>t, NodeFacts DEF Busy, Blocked
          <6>7. QED
            BY <6>5, <6>6
        <5>3. busy_list' # <<>>
          BY <5>2, <3>1, <1>h
        <5>4. QED
          BY <5>3, <4>3, <3>1, <1>h
      <4>4. CASE \E m \in Busy(b) : hold_cnt[m] = 1
        <5>1. PICK m \in Busy(b) : hold_cnt[m] = 1
          BY <4>4
        <5>2. Busy(b) = {m} /\ m \in Nodes /\ m \in Published
          BY <5>1, <3>1, <3>2, <1>f, <1>t, NodeFacts DEF Busy, Blocked
        <5>3. \A n \in Nodes : hold_cnt'[n] = IF n = m THEN 0 ELSE hold_cnt[n]
          BY <5>1, <5>2, <3>1
        <5>4. \A n \in Nodes : Lent'[n] = IF n = m THEN TD_NULL ELSE Lent[n]
          <6>1. \A n \in Nodes : Held(n)' <=> Held(n) /\ n # m
            BY <5>3, <1>f, <1>h
          <6>2. QED
            BY <6>1, <2>2, <1>f, <1>h
        <5>5. Lent' = [Lent EXCEPT ![m] = TD_NULL]
          BY <5>2, <5>4, <1>l
        <5>6. Lent[m] = content[block[m]] /\ Lent[m] # TD_NULL
          BY <5>1, <5>2, <1>f
        <5>7. Newest # TD_NULL
          BY <3>4, <1>f
        <5>8. Newest' \in IF Newest = Lent[m]
                          THEN ({Newest} \cup {Lent'[o] : o \in Nodes}) \ {TD_NULL}
                          ELSE {Newest}
          <6>1. CASE Last(busy_list) \notin Done(b)
            BY <6>1, <4>1, <5>7
          <6>2. CASE Last(busy_list) \in Done(b)
            <7>1. m = Last(busy_list) /\ Newest = Lent[m]
              BY <6>2, <5>2, <5>6, <3>2, <3>4, <1>f
            <7>l. PICK l \in Nodes : l = Last(busy_list')
              BY <6>2, <4>3, <1>t
            <7>2. l # m /\ l \in Published /\ l \in Nodes /\ busy_list' # <<>>
              BY <6>2, <7>1, <7>l, <4>3
            <7>3. hold_cnt[l] # 0
              BY <7>1, <7>2, <1>t DEF Ordered
            <7>4. Held(l)'
              BY <7>2, <7>3, <5>3, <1>h
            <7>5. Newest' = Lent'[l] /\ Newest' # TD_NULL
              BY <7>2, <7>4, <7>l, <1>h
            <7>6. QED
              BY <7>1, <7>2, <7>5
          <6>3. QED
            BY <6>1, <6>2
        <5>9. QED
          BY <5>2, <5>5, <5>6, <5>8 DEF Step, Register!Next, Register!GiveBack
      <4>5. CASE \A m \in Busy(b) : hold_cnt[m] # 1
        <5>1. \A n \in Nodes : Held(n)' <=> Held(n)
          BY <4>5, <3>1, <1>f, <1>h
        <5>2. \A n \in Nodes : Lent'[n] = Lent[n]
          BY <5>1, <2>2, <1>f, <1>h
        <5>3. CASE Last(busy_list) \notin Done(b)
          BY <5>2, <5>3, <4>1, <1>s DEF Step
        <5>4. CASE Last(busy_list) \in Done(b)
          BY <5>2, <5>4, <4>3, <1>h, <1>p
        <5>5. QED
          BY <5>3, <5>4
      <4>6. QED
        BY <4>4, <4>5
    <3>5. QED
      BY <3>3, <3>4
  <2>5. QED
    BY <2>3, <2>4
<1>11. QED
  BY <1>1, <1>2, <1>3, <1>4, <1>5, <1>6, <1>7, <1>8, <1>9, <1>10 DEF Next, Firmware, Consumer

\* The published buffers implement the register: the consumer gets what was
\* published last, and what it holds does not change until it gives it back or
\* everything is taken away. (isp_ext.c:187-340, isp.c:4473-4665)
THEOREM BuffersAreARegister == Spec => RegisterSpec
<1>1. IInv => Readable
  BY RegisterFacts
<1>2. IInv /\ Readable /\ Readable' /\ [Next]_vars => [Register!Next]_<<Newest, Lent>>
  BY RegisterStep
<1>3. QED
  BY <1>1, <1>2, RegisterInit, Invariance, PTL DEF Spec, RegisterSpec, Register!Spec
=============================================================================
