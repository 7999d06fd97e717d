--------------------------- MODULE IspStatBufProofs ---------------------------
(***************************************************************************)
(* Proofs about IspStatBuf, for any number of buffers, threads and frames: *)
(* the lists partition the buffers, the interrupt writes to allocated      *)
(* memory only, and the lists implement StatMailbox. And about IspFirmware, *)
(* one of the clients these theorems speak of: its run thread computes on  *)
(* memory that is mapped and allocated, the kernel lends exactly what that *)
(* thread remembers, and the statistics it falls back on survive the next  *)
(* frame, however often the process dies.                                  *)
(***************************************************************************)
EXTENDS IspFirmware, SequenceTheorems, TLAPS

-----------------------------------------------------------------------------
(* The elements of sequences *)

\* The elements of a concatenation, and when they are distinct.
LEMMA ConcatElements ==
  ASSUME NEW S, NEW s \in Seq(S), NEW t \in Seq(S)
  PROVE  /\ Elements(s \o t) = Elements(s) \cup Elements(t)
         /\ Distinct(s \o t) <=> /\ Distinct(s) /\ Distinct(t)
                                 /\ Elements(s) \cap Elements(t) = {}
<1> DEFINE st == s \o t
<1>1. /\ st \in Seq(S) /\ Len(st) = Len(s) + Len(t)
      /\ \A i \in 1..Len(s) + Len(t) : st[i] = IF i <= Len(s) THEN s[i] ELSE t[i - Len(s)]
  BY ConcatProperties
<1>2. /\ Len(s) \in Nat /\ Len(t) \in Nat
      /\ DOMAIN s = 1..Len(s) /\ DOMAIN t = 1..Len(t) /\ DOMAIN st = 1..Len(s) + Len(t)
  BY <1>1, LenProperties
<1> HIDE DEF st
<1>3. \A i \in 1..Len(s) : i \in DOMAIN st /\ st[i] = s[i]
  BY <1>1, <1>2
<1>4. \A i \in 1..Len(t) : i + Len(s) \in DOMAIN st /\ st[i + Len(s)] = t[i]
  BY <1>1, <1>2
<1>5. \A i \in DOMAIN st : \/ i \in 1..Len(s)
                           \/ i - Len(s) \in 1..Len(t) /\ i = (i - Len(s)) + Len(s)
  BY <1>2
<1>6. Elements(st) = Elements(s) \cup Elements(t)
  BY <1>2, <1>3, <1>4, <1>5 DEF Elements
<1>7. ASSUME Distinct(st)
      PROVE  Distinct(s) /\ Distinct(t) /\ Elements(s) \cap Elements(t) = {}
  <2>1. Distinct(s)
    BY <1>2, <1>3, <1>7 DEF Distinct
  <2>2. Distinct(t)
    <3>1. \A i, j \in 1..Len(t) : i # j => i + Len(s) # j + Len(s)
      BY <1>2
    <3>2. QED
      BY <3>1, <1>2, <1>4, <1>7 DEF Distinct
  <2>3. \A i \in 1..Len(s), j \in 1..Len(t) : s[i] # t[j]
    <3>1. \A i \in 1..Len(s), j \in 1..Len(t) : i # j + Len(s)
      BY <1>2
    <3>2. QED
      BY <3>1, <1>3, <1>4, <1>7 DEF Distinct
  <2>4. QED
    BY <2>1, <2>2, <2>3, <1>2 DEF Elements
<1>8. ASSUME Distinct(s), Distinct(t), Elements(s) \cap Elements(t) = {}
      PROVE  Distinct(st)
  <2>1. \A i \in 1..Len(s), j \in 1..Len(t) : s[i] # t[j]
    BY <1>2, <1>8 DEF Elements
  <2>2. SUFFICES ASSUME NEW i \in DOMAIN st, NEW j \in DOMAIN st, i # j
                 PROVE  st[i] # st[j]
    BY DEF Distinct
  <2>3. CASE i \in 1..Len(s) /\ j \in 1..Len(s)
    BY <2>2, <2>3, <1>2, <1>3, <1>8 DEF Distinct
  <2>4. CASE i \in 1..Len(s) /\ j - Len(s) \in 1..Len(t)
    BY <2>1, <2>4, <1>3, <1>4, <1>5, <1>2
  <2>5. CASE j \in 1..Len(s) /\ i - Len(s) \in 1..Len(t)
    BY <2>1, <2>5, <1>3, <1>4, <1>5, <1>2
  <2>6. CASE i - Len(s) \in 1..Len(t) /\ j - Len(s) \in 1..Len(t)
    <3>1. i - Len(s) # j - Len(s)
      BY <2>2, <1>2
    <3>2. t[i - Len(s)] # t[j - Len(s)]
      BY <3>1, <2>6, <1>2, <1>8 DEF Distinct
    <3>3. st[i] = t[i - Len(s)] /\ st[j] = t[j - Len(s)]
      BY <2>2, <2>6, <1>1, <1>2
    <3>4. QED
      BY <3>2, <3>3
  <2>7. QED
    BY <2>3, <2>4, <2>5, <2>6, <1>5, <2>2
<1>9. QED
  BY <1>6, <1>7, <1>8 DEF st

\* A sequence of one element, and the empty one.
LEMMA OneElement ==
  ASSUME NEW S, NEW e \in S
  PROVE  /\ <<e>> \in Seq(S) /\ Len(<<e>>) = 1
         /\ Elements(<<e>>) = {e} /\ Distinct(<<e>>)
         /\ <<>> \in Seq(S) /\ Len(<<>>) = 0
         /\ Elements(<<>>) = {} /\ Distinct(<<>>)
BY DEF Elements, Distinct

\* A sequence is its head before its tail, and appending is concatenation.
LEMMA HeadThenTail ==
  ASSUME NEW S, NEW s \in Seq(S), NEW e \in S
  PROVE  /\ s # <<>> => /\ Head(s) \in S /\ Tail(s) \in Seq(S)
                        /\ Len(s) \in Nat \ {0} /\ Len(Tail(s)) = Len(s) - 1
                        /\ s = <<Head(s)>> \o Tail(s)
         /\ Append(s, e) = s \o <<e>>
<1>1. ASSUME s # <<>>
      PROVE  s = <<Head(s)>> \o Tail(s)
  <2>1. /\ Head(s) \in S /\ Tail(s) \in Seq(S) /\ Len(Tail(s)) = Len(s) - 1
        /\ \A i \in 1..Len(Tail(s)) : Tail(s)[i] = s[i + 1]
    BY <1>1, HeadTailProperties
  <2>2. /\ <<Head(s)>> \in Seq(S) /\ Len(<<Head(s)>>) = 1 /\ <<Head(s)>>[1] = Head(s)
    BY <2>1, OneElement
  <2> DEFINE u == <<Head(s)>> \o Tail(s)
  <2>3. /\ u \in Seq(S) /\ Len(u) = 1 + Len(Tail(s))
        /\ \A i \in 1..1 + Len(Tail(s)) :
             u[i] = IF i <= 1 THEN <<Head(s)>>[i] ELSE Tail(s)[i - 1]
    BY <2>1, <2>2, ConcatProperties
  <2>4. Len(s) \in Nat \ {0}
    BY <1>1, EmptySeq
  <2>5. ASSUME NEW i \in 1..Len(s)
        PROVE  u[i] = s[i]
    <3>1. CASE i = 1
      <4>1. Head(s) = s[1]
        BY DEF Head
      <4>2. i \in 1..1 + Len(Tail(s)) /\ i <= 1
        BY <3>1, <2>1, <2>4
      <4>3. u[i] = <<Head(s)>>[i]
        BY <4>2, <2>3
      <4>4. QED
        BY ONLY <4>1, <4>3, <3>1, <2>2
    <3>2. CASE i # 1
      <4>1. i - 1 \in 1..Len(Tail(s)) /\ (i - 1) + 1 = i /\ ~(i <= 1)
        BY <3>2, <2>1, <2>4
      <4>2. u[i] = Tail(s)[i - 1]
        BY <4>1, <2>1, <2>3, <2>4
      <4>3. QED
        BY <4>1, <4>2, <2>1
    <3>3. QED
      BY <3>1, <3>2
  <2> HIDE DEF u
  <2>6. u = s
    BY <2>1, <2>3, <2>4, <2>5, SeqEqual
  <2>7. QED
    BY <2>6 DEF u
<1>2. QED
  BY <1>1, HeadTailProperties, EmptySeq, AppendIsConcat

-----------------------------------------------------------------------------
(* Types *)

\* What a node points to is a buffer.
LEMMA InfoTypes ==
  ASSUME TypeOK
  PROVE  /\ NoBuf \in Bufs
         /\ \A n \in Nodes \cup {TD_NULL} : n # TD_NULL => Info(n) \in Bufs
         /\ \A a \in Addrs \cup {TD_NULL} : [NoBuf EXCEPT !.addr = a] \in Bufs
         /\ \A a \in Addrs \cup {TD_NULL} : [NoBuf EXCEPT !.addr = a].addr = a
BY DEF TypeOK, NoBuf, Info, Bufs

\* A call of a thread that begins or ends leaves the arguments of the others.
LEMMA CallArguments ==
  ASSUME TypeOK, NEW t \in Threads \cup {Irq}, NEW c \in [op : Ops, buf : Bufs],
         call' = [call EXCEPT ![t] = c], act_stat' # TD_NULL \/ act_stat' = act_stat,
         c.op = "copy" => c.buf.node # TD_NULL,
         c.op = "active" => act_stat' # TD_NULL
  PROVE  /\ call' \in [Threads \cup {Irq} -> [op : Ops, buf : Bufs]]
         /\ \A u \in Threads : /\ In(u, "copy")' => call'[u].buf.node # TD_NULL
                               /\ In(u, "active")' => act_stat' # TD_NULL
BY DEF TypeOK, In

\* Every step keeps the types.
LEMMA TypeStep ==
  ASSUME TypeOK, [Next]_vars
  PROVE  TypeOK'
<1> DEFINE Calls == /\ call \in [Threads \cup {Irq} -> [op : Ops, buf : Bufs]]
                    /\ \A t \in Threads : /\ In(t, "copy") => call[t].buf.node # TD_NULL
                                          /\ In(t, "active") => act_stat # TD_NULL
<1>a. ASSUME NEW t \in Threads \cup {Irq}, NEW op \in Ops \ {"copy", "active"}, NEW buf \in Bufs,
             call' = [call EXCEPT ![t] = Inside(op, buf)],
             act_stat' # TD_NULL \/ act_stat' = act_stat
      PROVE  Calls'
  <2>1. Inside(op, buf) \in [op : Ops, buf : Bufs] /\ Inside(op, buf).op = op
    BY DEF Inside
  <2>2. QED
    BY <1>a, <2>1, CallArguments
<1>b. ASSUME NEW t \in Threads \cup {Irq}, NEW buf \in Bufs,
             call' = [call EXCEPT ![t] = Done(buf)],
             act_stat' # TD_NULL \/ act_stat' = act_stat
      PROVE  Calls'
  <2>1. Done(buf) \in [op : Ops, buf : Bufs] /\ Done(buf).op = "none"
    BY DEF Done, Ops
  <2>2. QED
    BY <1>b, <2>1, CallArguments
<1> HIDE DEF Calls
<1> USE DEF Return, Enter, memory, lists
<1>1. ASSUME NEW t \in Threads, StatBufInitEnter(t)
      PROVE  TypeOK'
  <2>1. PICK a \in Addrs : /\ call' = [call EXCEPT ![t] = Inside("init", [NoBuf EXCEPT !.addr = a])]
                            /\ live' = live \cup {a}
    BY <1>1 DEF StatBufInitEnter
  <2>2. Calls'
    BY <1>1, <2>1, <1>a, InfoTypes DEF StatBufInitEnter, Ops
  <2>3. QED
    BY <1>1, <2>1, <2>2 DEF TypeOK, StatBufInitEnter, Calls
<1>2. ASSUME NEW t \in Threads, StatBufInit(t)
      PROVE  TypeOK'
  <2>1. call[t].buf \in Bufs /\ call[t].buf.addr \in Addrs \cup {TD_NULL}
    BY DEF TypeOK, Bufs
  <2>2. [i \in 1..NumBufs |-> i] \in Seq(Nodes)
    BY BufsAssumption DEF Nodes
  <2>3. <<>> \in Seq(Nodes) /\ NumBufs \in Int /\ MaxFrame \in Nat
    BY BufsAssumption, EmptySeq
  <2>4. Calls'
    BY <1>2, <2>1, <1>b DEF StatBufInit
  <2>5. QED
    BY <1>2, <2>1, <2>2, <2>3, <2>4 DEF TypeOK, StatBufInit, Calls
<1>3. ASSUME NEW t \in Threads, StatBufExitEnter(t)
      PROVE  TypeOK'
  <2>1. Calls'
    BY <1>3, <1>a, InfoTypes DEF StatBufExitEnter, Ops
  <2>2. QED
    BY <1>3, <2>1 DEF TypeOK, StatBufExitEnter, Calls
<1>4. ASSUME NEW t \in Threads, StatBufExit(t)
      PROVE  TypeOK'
  <2>1. Calls'
    <3>1. [NoBuf EXCEPT !.addr = phy_addr] \in Bufs
      BY InfoTypes DEF TypeOK
    <3>2. QED
      BY <1>4, <3>1, <1>a DEF StatBufExit, Ops
  <2>2. <<>> \in Seq(Nodes)
    BY EmptySeq
  <2>3. node_addr' \in [Nodes -> Addrs \cup {TD_NULL}]
    BY <1>4 DEF TypeOK, StatBufExit
  <2>4. QED
    BY <1>4, <2>1, <2>2, <2>3 DEF TypeOK, StatBufExit, Calls
<1>5. ASSUME NEW t \in Threads, StatBufFree(t)
      PROVE  TypeOK'
  <2>1. Calls'
    BY <1>5, <1>b, InfoTypes DEF StatBufFree
  <2>2. QED
    BY <1>5, <2>1 DEF TypeOK, StatBufFree, Calls
<1>6. ASSUME NEW flag \in BOOLEAN, SetIspRunState(flag)
      PROVE  TypeOK'
  BY <1>6 DEF TypeOK, SetIspRunState, In
<1>7. ASSUME NEW t \in Threads, StatBufUserGetEnter(t)
      PROVE  TypeOK'
  <2>1. Calls'
    BY <1>7, <1>a, InfoTypes DEF StatBufUserGetEnter, Ops
  <2>2. QED
    BY <1>7, <2>1 DEF TypeOK, StatBufUserGetEnter, Calls
<1>8. ASSUME NEW t \in Threads, StatBufUserGet(t)
      PROVE  TypeOK'
  <2>1. CASE busy_list = <<>>
    <3>1. Calls'
      BY <1>8, <2>1, <1>b, InfoTypes DEF StatBufUserGet
    <3>2. QED
      BY <1>8, <2>1, <3>1 DEF TypeOK, StatBufUserGet, Calls
  <2>2. CASE busy_list # <<>>
    <3>1. Head(busy_list) \in Nodes /\ Tail(busy_list) \in Seq(Nodes)
      BY <2>2, HeadTailProperties DEF TypeOK
    <3>2. /\ Inside("copy", Info(Head(busy_list))) \in [op : Ops, buf : Bufs]
          /\ Inside("copy", Info(Head(busy_list))).op = "copy"
          /\ Inside("copy", Info(Head(busy_list))).buf.node # TD_NULL
      BY <3>1, InfoTypes, BufsAssumption DEF Inside, Info, Nodes, TD_NULL, Ops
    <3>3. Calls'
      BY <1>8, <2>2, <3>2, CallArguments DEF StatBufUserGet, Calls
    <3>4. data[Head(busy_list)] \in 0..MaxFrame /\ user_num + 1 \in Int /\ busy_num - 1 \in Int
      BY <3>1 DEF TypeOK
    <3>5. QED
      BY <1>8, <2>2, <3>1, <3>3, <3>4 DEF TypeOK, StatBufUserGet, Calls
  <2>3. QED
    BY <2>1, <2>2
<1>9. ASSUME NEW t \in Threads, StatBufUserCopy(t)
      PROVE  TypeOK'
  <2>1. call[t].buf.node \in Nodes \cup {TD_NULL} /\ call[t].buf.node # TD_NULL
    BY <1>9 DEF TypeOK, Bufs, StatBufUserCopy
  <2>2. Info(call[t].buf.node) \in Bufs
    BY <2>1, InfoTypes
  <2>3. Calls'
    BY <1>9, <2>2, <1>b DEF StatBufUserCopy
  <2>4. QED
    BY <1>9, <2>3 DEF TypeOK, StatBufUserCopy, Calls
<1>10. ASSUME NEW t \in Threads, NEW buf \in Bufs, StatBufUserPutEnter(t, buf)
       PROVE  TypeOK'
  <2>1. Calls'
    BY <1>10, <1>a DEF StatBufUserPutEnter, Ops
  <2>2. QED
    BY <1>10, <2>1 DEF TypeOK, StatBufUserPutEnter, Calls
<1>11. ASSUME NEW t \in Threads, StatBufUserPut(t)
       PROVE  TypeOK'
  <2>1. Calls'
    BY <1>11, <1>b, InfoTypes DEF StatBufUserPut
  <2>2. \A n \in user_list : Append(free_list, n) \in Seq(Nodes) /\ Info(n).node = n
    BY AppendProperties DEF TypeOK, Info
  <2>3. user_num - 1 \in Int /\ free_num + 1 \in Int
    BY DEF TypeOK
  <2>4. CASE call[t].buf \in {Info(n) : n \in user_list}
    <3>1. PICK n \in user_list : call[t].buf = Info(n)
      BY <2>4
    <3>2. call[t].buf.node = n
      BY <3>1, <2>2
    <3>3. QED
      BY <1>11, <2>1, <2>2, <2>3, <2>4, <3>2 DEF TypeOK, StatBufUserPut, Calls
  <2>5. CASE call[t].buf \notin {Info(n) : n \in user_list}
    BY <1>11, <2>1, <2>5 DEF TypeOK, StatBufUserPut, Calls
  <2>6. QED
    BY <2>4, <2>5
<1>12. ASSUME NEW t \in Threads, GetStatInfoActiveEnter(t)
       PROVE  TypeOK'
  <2>1. Inside("active", NoBuf) \in [op : Ops, buf : Bufs] /\ Inside("active", NoBuf).op = "active"
    BY InfoTypes DEF Inside, Ops
  <2>2. Calls'
    BY <1>12, <2>1, CallArguments DEF GetStatInfoActiveEnter, Calls
  <2>3. QED
    BY <1>12, <2>2 DEF TypeOK, GetStatInfoActiveEnter, Calls
<1>13. ASSUME NEW t \in Threads, GetStatInfoActive(t)
       PROVE  TypeOK'
  <2>1. Info(act_stat) \in Bufs
    BY <1>13, InfoTypes DEF TypeOK, GetStatInfoActive
  <2>2. Calls'
    BY <1>13, <2>1, <1>b DEF GetStatInfoActive
  <2>3. QED
    BY <1>13, <2>2 DEF TypeOK, GetStatInfoActive, Calls
<1>14. ASSUME StatBufBusyPutEnter
       PROVE  TypeOK'
  <2>1. Calls'
    <3>1. CASE init
      BY <1>14, <3>1, <1>a, InfoTypes DEF StatBufBusyPutEnter, Ops
    <3>2. CASE ~init
      BY <1>14, <3>2 DEF StatBufBusyPutEnter, TypeOK, Calls, In
    <3>3. QED
      BY <3>1, <3>2
  <2>2. frame' \in 0..MaxFrame
    BY <1>14, BufsAssumption DEF StatBufBusyPutEnter, TypeOK
  <2>3. QED
    BY <1>14, <2>1, <2>2 DEF TypeOK, StatBufBusyPutEnter, Calls
<1>15. ASSUME StatBufBusyPut
       PROVE  TypeOK'
  <2> DEFINE avail == free_list \o busy_list
  <2>1. avail \in Seq(Nodes)
    BY ConcatProperties DEF TypeOK
  <2>2. Len(busy_list) \in Nat
    BY LenProperties DEF TypeOK
  <2>3. CASE avail = <<>>
    <3>1. Calls'
      BY <1>15, <2>3, <1>b, InfoTypes DEF StatBufBusyPut
    <3>2. QED
      BY <1>15, <2>3, <3>1 DEF TypeOK, StatBufBusyPut, Calls
  <2>4. CASE avail # <<>>
    <3>1. Head(avail) \in Nodes /\ Tail(avail) \in Seq(Nodes) /\ <<Head(avail)>> \in Seq(Nodes)
      BY <2>1, <2>4, HeadTailProperties, OneElement
    <3> HIDE DEF avail
    <3>2. /\ free_list' = Tail(avail) /\ busy_list' = <<Head(avail)>>
          /\ free_num' = free_num + Len(busy_list) - 1
          /\ busy_num' = busy_num - Len(busy_list) + 1
          /\ act_stat' = Head(avail)
          /\ data' = [data EXCEPT ![Head(avail)] = frame]
          /\ call' = [call EXCEPT ![Irq] = Done(NoBuf)]
          /\ UNCHANGED <<user_list, user_num, memory, isp_run_flag, frame, newest>>
      BY <1>15, <2>4 DEF StatBufBusyPut, avail
    <3>3. act_stat' # TD_NULL
      BY <3>1, <3>2 DEF Nodes, TD_NULL
    <3>4. Calls'
      BY <3>2, <3>3, <1>b, InfoTypes
    <3>5. QED
      BY <2>2, <3>1, <3>2, <3>4 DEF TypeOK, Calls
  <2>5. QED
    BY <2>3, <2>4
<1>16. CASE UNCHANGED vars
  BY <1>16 DEF TypeOK, vars, In
<1>17. QED
  BY <1>1, <1>2, <1>3, <1>4, <1>5, <1>6, <1>7, <1>8, <1>9, <1>10, <1>11, <1>12, <1>13,
     <1>14, <1>15, <1>16 DEF Next

\* The initial state is of its types.
LEMMA TypeInit == Init => TypeOK
<1> SUFFICES ASSUME Init PROVE TypeOK
  OBVIOUS
<1>1. <<>> \in Seq(Nodes) /\ 0 \in 0..MaxFrame
  BY EmptySeq, BufsAssumption
<1>2. Idle \in [op : Ops, buf : Bufs] /\ Idle.op = "none"
  BY DEF Idle, NoBuf, Bufs, Ops
<1>3. /\ call = [t \in Threads \cup {Irq} |-> Idle]
      /\ \A t \in Threads : ~In(t, "copy") /\ ~In(t, "active")
  BY <1>2 DEF Init, In
<1>4. call \in [Threads \cup {Irq} -> [op : Ops, buf : Bufs]]
  BY <1>2, <1>3
<1>5. /\ node_addr \in [Nodes -> Addrs \cup {TD_NULL}]
      /\ data \in [Nodes -> 0..MaxFrame]
  BY <1>1 DEF Init
<1>a. /\ init \in BOOLEAN /\ isp_run_flag \in BOOLEAN
      /\ phy_addr \in Addrs \cup {TD_NULL} /\ live \subseteq Addrs
  BY DEF Init
<1>6. /\ free_num \in Int /\ busy_num \in Int /\ user_num \in Int
      /\ act_stat \in Nodes \cup {TD_NULL}
      /\ frame \in 0..MaxFrame /\ newest \in 0..MaxFrame
  BY <1>1 DEF Init
<1>7. free_list \in Seq(Nodes) /\ busy_list \in Seq(Nodes) /\ user_list \subseteq Nodes
  BY <1>1 DEF Init
<1>8. QED
  BY <1>a, <1>3, <1>4, <1>5, <1>6, <1>7 DEF TypeOK

\* Every call and interrupt finds everything of its type.
THEOREM TypeCorrect == Spec => []TypeOK
BY TypeInit, TypeStep, PTL DEF Spec

-----------------------------------------------------------------------------
(* The lists *)

\* A node that moves from one place of the free and busy lists to another
\* leaves their elements distinct and the same.
LEMMA Rotation ==
  ASSUME NEW s \in Seq(Nodes), s # <<>>
  PROVE  /\ Head(s) \in Nodes /\ Tail(s) \in Seq(Nodes)
         /\ Len(Tail(s)) = Len(s) - 1 /\ Len(s) \in Nat \ {0}
         /\ Elements(s) = Elements(Tail(s)) \cup {Head(s)}
         /\ Elements(Tail(s) \o <<Head(s)>>) = Elements(s)
         /\ Distinct(s) <=> Distinct(Tail(s)) /\ Head(s) \notin Elements(Tail(s))
         /\ Distinct(s) <=> Distinct(Tail(s) \o <<Head(s)>>)
<1>1. /\ Head(s) \in Nodes /\ Tail(s) \in Seq(Nodes)
      /\ Len(s) \in Nat \ {0} /\ Len(Tail(s)) = Len(s) - 1
  BY HeadTailProperties, EmptySeq
<1>2. s = <<Head(s)>> \o Tail(s)
  BY <1>1, HeadThenTail
<1> DEFINE h == <<Head(s)>>
           r == Tail(s)
<1>3. h \in Seq(Nodes) /\ Elements(h) = {Head(s)} /\ Distinct(h)
  BY <1>1, OneElement
<1>4. r \in Seq(Nodes) /\ s = h \o r
  BY <1>1, <1>2
<1> HIDE DEF h, r
<1>5. /\ Elements(s) = Elements(h) \cup Elements(r)
      /\ Distinct(s) <=> Distinct(h) /\ Distinct(r) /\ Elements(h) \cap Elements(r) = {}
      /\ Elements(r \o h) = Elements(r) \cup Elements(h)
      /\ Distinct(r \o h) <=> Distinct(r) /\ Distinct(h) /\ Elements(r) \cap Elements(h) = {}
  BY <1>3, <1>4, ConcatElements
<1>6. QED
  BY <1>1, <1>3, <1>5 DEF h, r

\* The counters agree with the lists, while the buffers exist.
Counts(f, b, fn, bn, un) == fn = Len(f) /\ bn = Len(b) /\ fn + bn + un = NumBufs

\* OneList of any lists: f and b in that order, and u.
Partition(f, b, u, all) ==
  /\ Distinct(f \o b)
  /\ Elements(f \o b) \cap u = {}
  /\ Elements(f \o b) \cup u = all

\* Both in terms of the two lists on their own.
LEMMA PartitionParts ==
  ASSUME NEW f \in Seq(Nodes), NEW b \in Seq(Nodes), NEW u, NEW all
  PROVE  Partition(f, b, u, all) <=>
           /\ Distinct(f) /\ Distinct(b) /\ Elements(f) \cap Elements(b) = {}
           /\ (Elements(f) \cup Elements(b)) \cap u = {}
           /\ Elements(f) \cup Elements(b) \cup u = all
BY ConcatElements DEF Partition

\* Every step keeps every node on one list.
LEMMA ListStep ==
  ASSUME TypeOK, OneList, [Next]_vars
  PROVE  OneList'
<1>1. /\ free_list \in Seq(Nodes) /\ busy_list \in Seq(Nodes) /\ user_list \subseteq Nodes
      /\ Partition(free_list, busy_list, user_list, IF init THEN Nodes ELSE {})
      /\ init => Counts(free_list, busy_list, free_num, busy_num, user_num)
      /\ free_num \in Int /\ busy_num \in Int /\ user_num \in Int /\ NumBufs \in Nat
  BY BufsAssumption DEF TypeOK, OneList, Partition, Counts
<1> DEFINE Same == UNCHANGED <<lists, init>>
<1>3. ASSUME Same
      PROVE  OneList'
  BY <1>3, <1>1 DEF OneList, lists, Partition, Counts
<1>4. ASSUME NEW t \in Threads, StatBufInit(t)
      PROVE  OneList'
  <2> DEFINE all == [i \in 1..NumBufs |-> i]
  <2>1. all \in Seq(Nodes) /\ Len(all) = NumBufs /\ Elements(all) = Nodes /\ Distinct(all)
    BY <1>1 DEF Nodes, Elements, Distinct
  <2>2. <<>> \in Seq(Nodes) /\ Len(<<>>) = 0 /\ Elements(<<>>) = {} /\ Distinct(<<>>)
    BY OneElement, EmptySeq DEF Elements, Distinct
  <2>3. /\ free_list' = all /\ busy_list' = <<>> /\ user_list' = {} /\ init' = TRUE
        /\ free_num' = NumBufs /\ busy_num' = 0 /\ user_num' = 0
    BY <1>4 DEF StatBufInit
  <2> HIDE DEF all
  <2>4. Partition(all, <<>>, {}, Nodes)
    <3>1. /\ Distinct(all) /\ Distinct(<<>>) /\ Elements(all) \cap Elements(<<>>) = {}
          /\ (Elements(all) \cup Elements(<<>>)) \cap {} = {}
          /\ Elements(all) \cup Elements(<<>>) \cup {} = Nodes
      BY <2>1, <2>2
    <3>2. QED
      BY <3>1, <2>1, <2>2, PartitionParts
  <2>5. Counts(all, <<>>, NumBufs, 0, 0)
    BY <2>1, <2>2, <1>1 DEF Counts
  <2>6. QED
    BY <2>3, <2>4, <2>5 DEF OneList, Partition, Counts
<1>5. ASSUME NEW t \in Threads, StatBufExit(t)
      PROVE  OneList'
  <2>1. <<>> \in Seq(Nodes) /\ Elements(<<>>) = {} /\ Distinct(<<>>)
    BY EmptySeq DEF Elements, Distinct
  <2>2. Partition(<<>>, <<>>, {}, {})
    <3>1. /\ Distinct(<<>>) /\ Distinct(<<>>) /\ Elements(<<>>) \cap Elements(<<>>) = {}
          /\ (Elements(<<>>) \cup Elements(<<>>)) \cap {} = {}
          /\ Elements(<<>>) \cup Elements(<<>>) \cup {} = {}
      BY <2>1
    <3>2. QED
      BY <3>1, <2>1, PartitionParts
  <2>3. QED
    BY <1>5, <2>2 DEF StatBufExit, OneList, Partition
<1>6. ASSUME NEW t \in Threads, StatBufUserGet(t), busy_list # <<>>
      PROVE  OneList'
  <2> DEFINE n == Head(busy_list)
  <2>1. /\ n \in Nodes /\ Tail(busy_list) \in Seq(Nodes)
        /\ Len(Tail(busy_list)) = Len(busy_list) - 1 /\ Len(busy_list) \in Nat \ {0}
        /\ Elements(busy_list) = Elements(Tail(busy_list)) \cup {n}
        /\ Distinct(busy_list) <=> Distinct(Tail(busy_list)) /\ n \notin Elements(Tail(busy_list))
    BY <1>1, <1>6, Rotation
  <2> HIDE DEF n
  <2>2. /\ free_list' = free_list /\ busy_list' = Tail(busy_list)
        /\ user_list' = user_list \cup {n} /\ init' = init
        /\ free_num' = free_num /\ busy_num' = busy_num - 1 /\ user_num' = user_num + 1
    BY <1>6 DEF StatBufUserGet, memory, n
  <2>3. Partition(free_list, Tail(busy_list), user_list \cup {n}, IF init THEN Nodes ELSE {})
    <3>1. /\ Distinct(free_list) /\ Distinct(busy_list) /\ Elements(free_list) \cap Elements(busy_list) = {}
          /\ (Elements(free_list) \cup Elements(busy_list)) \cap user_list = {}
          /\ Elements(free_list) \cup Elements(busy_list) \cup user_list = IF init THEN Nodes ELSE {}
      BY <1>1, PartitionParts
    <3>2. /\ Distinct(Tail(busy_list)) /\ Elements(free_list) \cap Elements(Tail(busy_list)) = {}
          /\ (Elements(free_list) \cup Elements(Tail(busy_list))) \cap (user_list \cup {n}) = {}
          /\ Elements(free_list) \cup Elements(Tail(busy_list)) \cup (user_list \cup {n})
               = IF init THEN Nodes ELSE {}
      BY <3>1, <2>1
    <3> DEFINE all == IF init THEN Nodes ELSE {}
    <3> HIDE DEF all
    <3>3. Elements(free_list) \cup Elements(Tail(busy_list)) \cup (user_list \cup {n}) = all
      BY <3>2 DEF all
    <3> DEFINE b == Tail(busy_list)
               u == user_list \cup {n}
    <3>4. /\ b \in Seq(Nodes) /\ Distinct(b) /\ Elements(free_list) \cap Elements(b) = {}
          /\ (Elements(free_list) \cup Elements(b)) \cap u = {}
          /\ Elements(free_list) \cup Elements(b) \cup u = all
      BY <2>1, <3>2, <3>3
    <3> HIDE DEF b, u
    <3>5. Partition(free_list, b, u, all)
      BY <3>1, <3>4, <1>1, PartitionParts
    <3>6. QED
      BY <3>5 DEF all, b, u
  <2>4. init => Counts(free_list, Tail(busy_list), free_num, busy_num - 1, user_num + 1)
    BY <1>1, <2>1 DEF Counts
  <2>5. QED
    BY <2>2, <2>3, <2>4 DEF OneList, Partition, Counts
<1>7. ASSUME NEW t \in Threads, StatBufUserPut(t), call[t].buf \in {Info(n) : n \in user_list}
      PROVE  OneList'
  <2>1. PICK n \in user_list : call[t].buf.node = n
    BY <1>7 DEF Info
  <2>2. /\ Append(free_list, n) \in Seq(Nodes) /\ Append(free_list, n) = free_list \o <<n>>
        /\ Len(Append(free_list, n)) = Len(free_list) + 1 /\ Len(free_list) \in Nat
    BY <1>1, <2>1, HeadThenTail, AppendProperties, LenProperties
  <2>3. <<n>> \in Seq(Nodes) /\ Elements(<<n>>) = {n} /\ Distinct(<<n>>)
    BY <1>1, <2>1, OneElement
  <2>4. /\ Elements(Append(free_list, n)) = Elements(free_list) \cup {n}
        /\ Distinct(Append(free_list, n)) <=> Distinct(free_list) /\ n \notin Elements(free_list)
    <3>1. /\ Elements(free_list \o <<n>>) = Elements(free_list) \cup Elements(<<n>>)
          /\ Distinct(free_list \o <<n>>) <=> /\ Distinct(free_list) /\ Distinct(<<n>>)
                                             /\ Elements(free_list) \cap Elements(<<n>>) = {}
      BY <1>1, <2>3, ConcatElements
    <3>2. QED
      BY <3>1, <2>2, <2>3
  <2>5. /\ free_list' = Append(free_list, n) /\ busy_list' = busy_list
        /\ user_list' = user_list \ {n} /\ init' = init
        /\ free_num' = free_num + 1 /\ busy_num' = busy_num /\ user_num' = user_num - 1
    BY <1>7, <2>1 DEF StatBufUserPut, memory
  <2>6. Partition(Append(free_list, n), busy_list, user_list \ {n}, IF init THEN Nodes ELSE {})
    <3> DEFINE f == Append(free_list, n)
    <3>1. /\ Distinct(free_list) /\ Distinct(busy_list) /\ Elements(free_list) \cap Elements(busy_list) = {}
          /\ (Elements(free_list) \cup Elements(busy_list)) \cap user_list = {}
          /\ Elements(free_list) \cup Elements(busy_list) \cup user_list = IF init THEN Nodes ELSE {}
      BY <1>1, PartitionParts
    <3>2. f \in Seq(Nodes) /\ Elements(f) = Elements(free_list) \cup {n} /\ Distinct(f)
      BY <2>1, <2>2, <2>4, <3>1
    <3> HIDE DEF f
    <3>3. /\ Elements(f) \cap Elements(busy_list) = {}
          /\ (Elements(f) \cup Elements(busy_list)) \cap (user_list \ {n}) = {}
          /\ Elements(f) \cup Elements(busy_list) \cup (user_list \ {n}) = IF init THEN Nodes ELSE {}
      BY <2>1, <3>1, <3>2
    <3> DEFINE all == IF init THEN Nodes ELSE {}
    <3> HIDE DEF all
    <3>4. Elements(f) \cup Elements(busy_list) \cup (user_list \ {n}) = all
      BY <3>3 DEF all
    <3>5. Partition(f, busy_list, user_list \ {n}, all)
      BY <3>1, <3>2, <3>3, <3>4, <1>1, PartitionParts
    <3>6. QED
      BY <3>5 DEF all, f
  <2>7. init => Counts(Append(free_list, n), busy_list, free_num + 1, busy_num, user_num - 1)
    BY <1>1, <2>2 DEF Counts
  <2>8. QED
    BY <2>5, <2>6, <2>7 DEF OneList, Partition, Counts
<1>8. ASSUME StatBufBusyPut, free_list \o busy_list # <<>>
      PROVE  OneList'
  <2> DEFINE avail == free_list \o busy_list
  <2>1. /\ avail \in Seq(Nodes) /\ Len(avail) = Len(free_list) + Len(busy_list)
        /\ Len(free_list) \in Nat /\ Len(busy_list) \in Nat
    BY <1>1, ConcatProperties, LenProperties
  <2>2. avail # <<>>
    BY <1>8
  <2> HIDE DEF avail
  <2>3. /\ Head(avail) \in Nodes /\ Tail(avail) \in Seq(Nodes)
        /\ Len(Tail(avail)) = Len(avail) - 1
        /\ Elements(Tail(avail) \o <<Head(avail)>>) = Elements(avail)
        /\ Distinct(avail) <=> Distinct(Tail(avail) \o <<Head(avail)>>)
    BY <2>1, <2>2, Rotation
  <2>4. /\ free_list' = Tail(avail) /\ busy_list' = <<Head(avail)>>
        /\ user_list' = user_list /\ user_num' = user_num /\ init' = init
        /\ free_num' = free_num + Len(busy_list) - 1
        /\ busy_num' = busy_num - Len(busy_list) + 1
    BY <1>8 DEF StatBufBusyPut, memory, avail
  <2>5. Distinct(avail) /\ Elements(avail) \cap user_list = {}
        /\ Elements(avail) \cup user_list = IF init THEN Nodes ELSE {}
    BY <1>1 DEF Partition, avail
  <2>6. Partition(Tail(avail), <<Head(avail)>>, user_list, IF init THEN Nodes ELSE {})
    BY <2>3, <2>5 DEF Partition
  <2>7. Len(<<Head(avail)>>) = 1
    BY <2>3, OneElement
  <2>8. init => Counts(Tail(avail), <<Head(avail)>>, free_num + Len(busy_list) - 1,
                       busy_num - Len(busy_list) + 1, user_num)
    <3> SUFFICES ASSUME init
                 PROVE  Counts(Tail(avail), <<Head(avail)>>, free_num + Len(busy_list) - 1,
                               busy_num - Len(busy_list) + 1, user_num)
      OBVIOUS
    <3>1. /\ free_num = Len(free_list) /\ busy_num = Len(busy_list)
          /\ free_num + busy_num + user_num = NumBufs
      BY <1>1 DEF Counts
    <3>2. free_num + Len(busy_list) - 1 = Len(Tail(avail))
      BY <3>1, <2>1, <2>3
    <3>3. busy_num - Len(busy_list) + 1 = 1
      BY <3>1, <2>1
    <3>4. (free_num + Len(busy_list) - 1) + (busy_num - Len(busy_list) + 1) + user_num = NumBufs
      BY <1>1, <3>1, <2>1
    <3>5. QED
      BY <3>2, <3>3, <3>4, <2>7 DEF Counts
  <2>9. QED
    BY <2>4, <2>6, <2>8 DEF OneList, Partition, Counts
<1>9. CASE UNCHANGED vars
  BY <1>3, <1>9 DEF vars, memory
<1>10. ASSUME NEW t \in Threads,
              \/ StatBufInitEnter(t) \/ StatBufExitEnter(t) \/ StatBufFree(t)
              \/ StatBufUserGetEnter(t) \/ StatBufUserCopy(t)
              \/ (\E buf \in Bufs : StatBufUserPutEnter(t, buf))
              \/ GetStatInfoActiveEnter(t) \/ GetStatInfoActive(t)
       PROVE  OneList'
  <2>1. Same
    BY <1>10 DEF memory, StatBufInitEnter, StatBufExitEnter, StatBufFree, StatBufUserGetEnter,
                 StatBufUserCopy, StatBufUserPutEnter, GetStatInfoActiveEnter, GetStatInfoActive
  <2>2. QED
    BY <2>1, <1>3
<1>11. ASSUME \/ StatBufBusyPutEnter
              \/ \E flag \in BOOLEAN : SetIspRunState(flag)
              \/ StatBufBusyPut /\ free_list \o busy_list = <<>>
              \/ \E t \in Threads : StatBufUserGet(t) /\ busy_list = <<>>
              \/ \E t \in Threads : /\ StatBufUserPut(t)
                                    /\ call[t].buf \notin {Info(n) : n \in user_list}
       PROVE  OneList'
  <2>1. Same
    BY <1>11 DEF memory, StatBufBusyPutEnter, SetIspRunState, StatBufBusyPut, StatBufUserGet,
                 StatBufUserPut
  <2>2. QED
    BY <2>1, <1>3
<1>12. QED
  BY <1>4, <1>5, <1>6, <1>7, <1>8, <1>9, <1>10, <1>11 DEF Next

\* No node is on a list before the buffers are created.
LEMMA ListInit == Init => OneList
<1> SUFFICES ASSUME Init PROVE OneList
  OBVIOUS
<1>1. <<>> \in Seq(Nodes) /\ Elements(<<>>) = {} /\ Distinct(<<>>)
  BY EmptySeq DEF Elements, Distinct
<1>2. Partition(<<>>, <<>>, {}, {})
  <2>1. /\ Distinct(<<>>) /\ Distinct(<<>>) /\ Elements(<<>>) \cap Elements(<<>>) = {}
        /\ (Elements(<<>>) \cup Elements(<<>>)) \cap {} = {}
        /\ Elements(<<>>) \cup Elements(<<>>) \cup {} = {}
    BY <1>1
  <2>2. QED
    BY <2>1, <1>1, PartitionParts
<1>3. QED
  BY <1>2 DEF Init, OneList, Partition

\* Whatever calls and interrupts meet, every node is on exactly one list
\* while the buffers exist, and the counters agree. (isp.c:763-959, 1061-1120)
THEOREM OneListAlways == Spec => []OneList
<1>1. TypeOK /\ OneList /\ [Next]_vars => (TypeOK /\ OneList)'
  BY TypeStep, ListStep
<1>2. QED
  BY <1>1, TypeInit, ListInit, PTL DEF Spec

-----------------------------------------------------------------------------
(* The memory *)

\* In the calls c, a thread that creates or has destroyed the buffers has
\* memory of its own.
Holds(c, t) == c[t].op \in {"init", "free"}
Held(c, t) == c[t].buf.addr

\* What a thread is about to install or to free is among the allocated l and
\* neither the pipe's p nor another thread's.
Own(c, l, p) ==
  /\ \A t \in Threads : c[t].op = "init" => Held(c, t) # TD_NULL
  /\ \A t \in Threads : Holds(c, t) /\ Held(c, t) # TD_NULL => Held(c, t) \in l /\ Held(c, t) # p
  /\ \A t, u \in Threads :
       t # u /\ Holds(c, t) /\ Holds(c, u) /\ Held(c, t) # TD_NULL => Held(c, t) # Held(c, u)

\* The buffers of a pipe that has them are in its memory.
MemoryInv ==
  /\ init => phy_addr \in live /\ \A n \in Nodes : node_addr[n] = phy_addr
  /\ ~init => phy_addr = TD_NULL
  /\ Own(call, live, phy_addr)

\* What the interrupt may write to is in allocated memory.
LEMMA WrittenFollows == TypeOK /\ OneList /\ MemoryInv => WrittenIsAllocated
<1> SUFFICES ASSUME TypeOK, OneList, MemoryInv, NEW n \in Elements(free_list \o busy_list)
             PROVE  node_addr[n] \in live
  BY DEF WrittenIsAllocated
<1>1. n \in IF init THEN Nodes ELSE {}
  BY DEF OneList
<1>2. init /\ n \in Nodes
  BY <1>1
<1>3. QED
  BY <1>2 DEF MemoryInv

\* When one thread's call changes, its own memory is what is to be shown.
LEMMA OwnStep ==
  ASSUME NEW c, NEW d, NEW l, NEW m, NEW p, NEW q, NEW t, Own(c, l, p),
         \A u \in Threads : u # t => d[u] = c[u],
         \A u \in Threads : u # t /\ Holds(c, u) /\ Held(c, u) # TD_NULL
           => Held(c, u) \in m /\ Held(c, u) # q,
         t \in Threads /\ d[t].op = "init" => Held(d, t) # TD_NULL,
         t \in Threads /\ Holds(d, t) /\ Held(d, t) # TD_NULL
           => /\ Held(d, t) \in m /\ Held(d, t) # q
              /\ \A u \in Threads : u # t /\ Holds(c, u) => Held(c, u) # Held(d, t)
  PROVE  Own(d, m, q)
<1>1. \A u \in Threads : u # t => /\ Holds(d, u) <=> Holds(c, u)
                                 /\ d[u].op = c[u].op
                                 /\ Held(d, u) = Held(c, u)
  BY DEF Holds, Held
<1>2. ASSUME NEW u \in Threads, d[u].op = "init"
      PROVE  Held(d, u) # TD_NULL
  <2>1. CASE u = t
    BY <2>1, <1>2
  <2>2. CASE u # t
    BY <2>2, <1>1, <1>2 DEF Own
  <2>3. QED
    BY <2>1, <2>2
<1>3. ASSUME NEW u \in Threads, Holds(d, u), Held(d, u) # TD_NULL
      PROVE  Held(d, u) \in m /\ Held(d, u) # q
  BY <1>1, <1>3
<1>4. ASSUME NEW u \in Threads, NEW v \in Threads, u # v, Holds(d, u), Holds(d, v),
             Held(d, u) # TD_NULL
      PROVE  Held(d, u) # Held(d, v)
  <2>1. CASE u # t /\ v # t
    BY <2>1, <1>1, <1>4 DEF Own
  <2>2. CASE u = t
    BY <2>2, <1>1, <1>4
  <2>3. CASE v = t
    BY <2>3, <1>1, <1>4
  <2>4. QED
    BY <2>1, <2>2, <2>3
<1>5. QED
  BY <1>2, <1>3, <1>4 DEF Own

\* Every step keeps the owners of memory apart.
LEMMA MemoryStep ==
  ASSUME TypeOK, MemoryInv, [Next]_vars
  PROVE  MemoryInv'
<1>a. ASSUME UNCHANGED memory, NEW t \in Threads \cup {Irq}, NEW c,
             call' = [call EXCEPT ![t] = c], c.op \notin {"init", "free"}
      PROVE  MemoryInv'
  <2>1. call'[t].op \notin {"init", "free"} /\ \A u \in Threads : u # t => call'[u] = call[u]
    BY <1>a DEF TypeOK
  <2>2. Own(call', live, phy_addr)
    <3>1. ~Holds(call', t) /\ call'[t].op # "init"
      BY <2>1 DEF Holds
    <3>2. Own(call, live, phy_addr)
      BY DEF MemoryInv
    <3>3. \A u \in Threads : u # t /\ Holds(call, u) /\ Held(call, u) # TD_NULL
            => Held(call, u) \in live /\ Held(call, u) # phy_addr
      BY <3>2 DEF Own
    <3>4. QED
      BY <2>1, <3>1, <3>2, <3>3, OwnStep
  <2>3. QED
    BY <1>a, <2>2 DEF MemoryInv, memory
<1>1. ASSUME UNCHANGED memory, NEW t \in Threads \cup {Irq}, NEW buf,
             \/ call' = [call EXCEPT ![t] = Done(buf)]
             \/ \E op \in Ops \ {"init", "free"} : call' = [call EXCEPT ![t] = Inside(op, buf)]
      PROVE  MemoryInv'
  <2>1. Done(buf).op \notin {"init", "free"}
    BY DEF Done
  <2>2. \A op : Inside(op, buf).op = op
    BY DEF Inside
  <2>3. QED
    BY <1>1, <1>a, <2>1, <2>2
<1>2. ASSUME NEW t \in Threads, StatBufInitEnter(t)
      PROVE  MemoryInv'
  <2>1. PICK a \in Addrs \ live : /\ call' = [call EXCEPT ![t] = Inside("init", [NoBuf EXCEPT !.addr = a])]
                                   /\ live' = live \cup {a}
    BY <1>2 DEF StatBufInitEnter, Enter
  <2>2. a # TD_NULL /\ a # phy_addr
    BY <2>1, NullAssumption DEF MemoryInv, TypeOK, TD_NULL
  <2>3. Held(call', t) = a
    BY <2>1 DEF Held, Inside, NoBuf, TypeOK
  <2>5. \A u \in Threads : u # t /\ Holds(call, u) /\ Held(call, u) # TD_NULL => Held(call, u) # a
    BY <2>1 DEF MemoryInv, Own
  <2>6. Own(call', live', phy_addr)
    <3>1. \A u \in Threads : u # t => call'[u] = call[u]
      BY <2>1 DEF TypeOK
    <3>2. \A u \in Threads : u # t /\ Holds(call, u) /\ Held(call, u) # TD_NULL
            => Held(call, u) \in live' /\ Held(call, u) # phy_addr
      BY <2>1 DEF MemoryInv, Own
    <3>3. \A u \in Threads : u # t /\ Holds(call, u) => Held(call, u) # a
      BY <2>2, <2>5
    <3>4. a \in live'
      BY <2>1
    <3>5. Own(call, live, phy_addr)
      BY DEF MemoryInv
    <3>6. QED
      BY <3>1, <3>2, <3>3, <3>4, <3>5, <2>2, <2>3, OwnStep
  <2>7. QED
    BY <1>2, <2>1, <2>6 DEF MemoryInv, StatBufInitEnter
<1>3. ASSUME NEW t \in Threads, StatBufInit(t)
      PROVE  MemoryInv'
  <2>1. /\ Holds(call, t) /\ Held(call, t) # TD_NULL /\ Held(call, t) \in live /\ Held(call, t) # phy_addr
    BY <1>3 DEF MemoryInv, Own, Holds, StatBufInit, In
  <2>2. /\ phy_addr' = Held(call, t) /\ init' = TRUE /\ live' = live
        /\ node_addr' = [n \in Nodes |-> Held(call, t)]
        /\ call' = [call EXCEPT ![t] = Done(call[t].buf)]
    BY <1>3 DEF StatBufInit, Held, Return
  <2>3. ~Holds(call', t) /\ call'[t].op # "init"
    BY <2>2 DEF Holds, In, Done, TypeOK
  <2>5. Own(call', live, phy_addr')
    <3>1. \A u \in Threads : u # t => call'[u] = call[u]
      BY <2>2 DEF TypeOK
    <3>2. \A u \in Threads : u # t /\ Holds(call, u) /\ Held(call, u) # TD_NULL
            => Held(call, u) \in live /\ Held(call, u) # phy_addr'
      BY <2>1, <2>2 DEF MemoryInv, Own
    <3>3. Own(call, live, phy_addr)
      BY DEF MemoryInv
    <3>4. QED
      BY <3>1, <3>2, <3>3, <2>3, OwnStep
  <2>6. QED
    BY <2>1, <2>2, <2>5 DEF MemoryInv
<1>4. ASSUME NEW t \in Threads, StatBufExit(t)
      PROVE  MemoryInv'
  <2>1. /\ phy_addr' = TD_NULL /\ init' = FALSE /\ live' = live
        /\ call' = [call EXCEPT ![t] = Inside("free", [NoBuf EXCEPT !.addr = phy_addr])]
    BY <1>4 DEF StatBufExit
  <2>2. Holds(call', t) /\ Held(call', t) = phy_addr /\ call'[t].op # "init"
    BY <2>1 DEF Holds, Held, In, Inside, NoBuf, TypeOK
  <2>4. phy_addr # TD_NULL => phy_addr \in live
    BY DEF MemoryInv
  <2>5. Own(call', live, phy_addr')
    <3>1. \A u \in Threads : u # t => call'[u] = call[u]
      BY <2>1 DEF TypeOK
    <3>2. \A u \in Threads : u # t /\ Holds(call, u) /\ Held(call, u) # TD_NULL
            => Held(call, u) \in live /\ Held(call, u) # phy_addr'
      BY <2>1 DEF MemoryInv, Own
    <3>3. \A u \in Threads : u # t /\ Holds(call, u) /\ Held(call', t) # TD_NULL
            => Held(call, u) # Held(call', t)
      BY <2>2, <2>4 DEF MemoryInv, Own
    <3>4. Own(call, live, phy_addr)
      BY DEF MemoryInv
    <3>5. Held(call', t) # TD_NULL => Held(call', t) \in live /\ Held(call', t) # phy_addr'
      BY <2>1, <2>2, <2>4
    <3>6. QED
      BY <3>1, <3>2, <3>3, <3>4, <3>5, <2>2, OwnStep
  <2>6. QED
    BY <2>1, <2>5 DEF MemoryInv
<1>5. ASSUME NEW t \in Threads, StatBufFree(t)
      PROVE  MemoryInv'
  <2>1. Holds(call, t)
    BY <1>5 DEF Holds, StatBufFree, In
  <2>2. /\ live' = live \ {Held(call, t)} /\ UNCHANGED <<init, phy_addr, node_addr>>
        /\ call' = [call EXCEPT ![t] = Done(NoBuf)]
    BY <1>5 DEF StatBufFree, Held, Return
  <2>3. ~Holds(call', t) /\ call'[t].op # "init"
    BY <2>2 DEF Holds, In, Done, TypeOK
  <2>5. \A u \in Threads : u # t /\ Holds(call, u) /\ Held(call, u) # TD_NULL => Held(call, u) # Held(call, t)
    BY <2>1 DEF MemoryInv, Own
  <2>6. init => phy_addr # Held(call, t)
    <3>1. TD_NULL \notin live
      BY NullAssumption DEF TypeOK, TD_NULL
    <3>2. QED
      BY <2>1, <3>1 DEF MemoryInv, Own
  <2>7. Own(call', live', phy_addr)
    <3>1. \A u \in Threads : u # t => call'[u] = call[u]
      BY <2>2 DEF TypeOK
    <3>2. \A u \in Threads : u # t /\ Holds(call, u) /\ Held(call, u) # TD_NULL
            => Held(call, u) \in live' /\ Held(call, u) # phy_addr
      BY <2>2, <2>5 DEF MemoryInv, Own
    <3>3. Own(call, live, phy_addr)
      BY DEF MemoryInv
    <3>4. QED
      BY <3>1, <3>2, <3>3, <2>3, OwnStep
  <2>8. QED
    BY <2>2, <2>6, <2>7 DEF MemoryInv
<1>6. ASSUME NEW t \in Threads,
             \/ StatBufExitEnter(t) \/ StatBufUserGetEnter(t) \/ StatBufUserGet(t)
             \/ StatBufUserCopy(t) \/ (\E buf \in Bufs : StatBufUserPutEnter(t, buf))
             \/ StatBufUserPut(t) \/ GetStatInfoActiveEnter(t) \/ GetStatInfoActive(t)
      PROVE  MemoryInv'
  <2> USE DEF Enter, Return, Ops
  <2>1. CASE StatBufExitEnter(t)
    BY <2>1, <1>1 DEF StatBufExitEnter
  <2>2. CASE StatBufUserGetEnter(t)
    BY <2>2, <1>1 DEF StatBufUserGetEnter
  <2>3. CASE StatBufUserGet(t)
    BY <2>3, <1>1 DEF StatBufUserGet
  <2>4. CASE StatBufUserCopy(t)
    BY <2>4, <1>1 DEF StatBufUserCopy
  <2>5. ASSUME NEW buf \in Bufs, StatBufUserPutEnter(t, buf)
        PROVE  MemoryInv'
    BY <2>5, <1>1 DEF StatBufUserPutEnter
  <2>6. CASE StatBufUserPut(t)
    BY <2>6, <1>1 DEF StatBufUserPut
  <2>7. CASE GetStatInfoActiveEnter(t)
    BY <2>7, <1>1 DEF GetStatInfoActiveEnter
  <2>8. CASE GetStatInfoActive(t)
    BY <2>8, <1>1 DEF GetStatInfoActive
  <2>9. QED
    BY <1>6, <2>1, <2>2, <2>3, <2>4, <2>5, <2>6, <2>7, <2>8
<1>7. ASSUME UNCHANGED <<memory, call>>
      PROVE  MemoryInv'
  BY <1>7 DEF MemoryInv, Own, memory, Holds, Held, In
<1>8. ASSUME StatBufBusyPutEnter
      PROVE  MemoryInv'
  <2>1. CASE init
    <3>1. call' = [call EXCEPT ![Irq] = Inside("busy", NoBuf)] /\ "busy" \in Ops \ {"init", "free"}
      BY <1>8, <2>1 DEF StatBufBusyPutEnter, Enter, Ops
    <3>2. QED
      BY <1>8, <3>1, <1>1 DEF StatBufBusyPutEnter
  <2>2. CASE ~init
    BY <1>8, <2>2, <1>7 DEF StatBufBusyPutEnter
  <2>3. QED
    BY <2>1, <2>2
<1>9. ASSUME StatBufBusyPut
      PROVE  MemoryInv'
  <2>1. call' = [call EXCEPT ![Irq] = Done(NoBuf)]
    BY <1>9 DEF StatBufBusyPut, Return
  <2>2. QED
    BY <1>9, <2>1, <1>1 DEF StatBufBusyPut
<1>10. ASSUME NEW flag \in BOOLEAN, SetIspRunState(flag)
       PROVE  MemoryInv'
  BY <1>10, <1>7 DEF SetIspRunState
<1>11. CASE UNCHANGED vars
  BY <1>11, <1>7 DEF vars
<1>12. QED
  BY <1>2, <1>3, <1>4, <1>5, <1>6, <1>8, <1>9, <1>10, <1>11 DEF Next

\* Nothing is allocated at first.
LEMMA MemoryInit == Init => MemoryInv
BY DEF Init, MemoryInv, Own, Holds, In, Idle

\* An interrupt that tested init before the buffers were destroyed writes to
\* no freed memory, whoever creates and destroys buffers at the same time.
\* (isp.c:825-861, 1061-1120)
THEOREM WrittenIsAllocatedAlways == Spec => []WrittenIsAllocated
<1>1. TypeOK /\ OneList /\ MemoryInv /\ [Next]_vars => (TypeOK /\ OneList /\ MemoryInv)'
  BY TypeStep, ListStep, MemoryStep
<1>2. QED
  BY <1>1, TypeInit, ListInit, MemoryInit, WrittenFollows, PTL DEF Spec

-----------------------------------------------------------------------------
(* The mailbox *)

\* The values the abstract mailbox has.
Slot == IF busy_list = <<>> THEN 0 ELSE data[Head(busy_list)]
Lent == {data[n] : n \in user_list}

\* The busy list holds one frame at most, newer than every frame handed out;
\* those the user has are different ones; and the frame the interrupt is about
\* to put is newer than all of them.
MailInv ==
  /\ busy_list = <<>> \/ \E n \in Nodes : busy_list = <<n>>
  /\ newest <= frame /\ \A n \in Nodes : data[n] <= frame
  /\ call[Irq].op = "busy" => /\ frame \in 1..MaxFrame /\ newest < frame
                              /\ \A n \in Nodes : data[n] < frame
  /\ busy_list # <<>> => newest < data[Head(busy_list)]
  /\ \A n \in user_list : data[n] <= newest
  /\ \A m, n \in user_list : m # n => data[m] # data[n]

\* A step that changes no list and no data is none of the mailbox.
LEMMA MailQuiet ==
  ASSUME MailInv, UNCHANGED <<busy_list, user_list, data, newest, frame>>,
         call'[Irq].op = "busy" => call[Irq].op = "busy"
  PROVE  MailInv' /\ UNCHANGED <<Slot, Lent, newest>>
BY DEF MailInv, Slot, Lent

\* Every step is a step of the mailbox or none, and keeps its invariant.
LEMMA MailStep ==
  ASSUME TypeOK, OneList, MailInv, [Next]_vars
  PROVE  MailInv' /\ (Mailbox!Next \/ UNCHANGED <<Slot, Lent, newest>>)
<1> DEFINE Goal == MailInv' /\ (Mailbox!Next \/ UNCHANGED <<Slot, Lent, newest>>)
<1>a. ASSUME NEW t \in Threads, NEW c, call' = [call EXCEPT ![t] = c]
      PROVE  call'[Irq].op = call[Irq].op
  BY <1>a, IrqAssumption DEF TypeOK
<1>b. ASSUME NEW t \in Threads, NEW c, call' = [call EXCEPT ![t] = c],
             UNCHANGED <<busy_list, user_list, data, newest, frame>>
      PROVE  Goal
  BY <1>a, <1>b, MailQuiet
<1>c. /\ frame \in 0..MaxFrame /\ newest \in 0..MaxFrame /\ MaxFrame \in Nat
      /\ \A n \in Nodes : data[n] \in 0..MaxFrame
      /\ user_list \subseteq Nodes
  BY BufsAssumption DEF TypeOK
<1>d. ASSUME busy_list' = <<>>, user_list' = {}, newest' = newest, frame' = frame,
             \A n \in Nodes : data'[n] = 0 \/ data'[n] = data[n],
             call'[Irq].op = call[Irq].op
      PROVE  Goal
  <2>1. MailInv'
    BY <1>c, <1>d DEF MailInv
  <2>2. Slot' = 0 /\ Lent' = {}
    BY <1>d DEF Slot, Lent
  <2>3. Mailbox!TakeAway
    BY <1>d, <2>2 DEF Mailbox!TakeAway, Slot, Lent
  <2>4. QED
    BY <2>1, <2>3 DEF Mailbox!Next
<1> HIDE DEF Goal
<1>1. ASSUME NEW t \in Threads, StatBufInit(t)
      PROVE  Goal
  <2>1. /\ busy_list' = <<>> /\ user_list' = {} /\ newest' = newest /\ frame' = frame
        /\ data' = [n \in Nodes |-> 0] /\ call' = [call EXCEPT ![t] = Done(call[t].buf)]
    BY <1>1 DEF StatBufInit, Return
  <2>2. QED
    BY <2>1, <1>a, <1>d
<1>2. ASSUME NEW t \in Threads, StatBufExit(t)
      PROVE  Goal
  <2>1. /\ busy_list' = <<>> /\ user_list' = {} /\ newest' = newest /\ frame' = frame
        /\ data' = data
        /\ call' = [call EXCEPT ![t] = Inside("free", [NoBuf EXCEPT !.addr = phy_addr])]
    BY <1>2 DEF StatBufExit
  <2>2. QED
    BY <2>1, <1>a, <1>d
<1>3. ASSUME NEW t \in Threads, StatBufUserGet(t)
      PROVE  Goal
  <2>1. CASE busy_list = <<>>
    BY <1>3, <2>1, <1>b DEF StatBufUserGet, Return, lists
  <2>2. CASE busy_list # <<>>
    <3>1. PICK n \in Nodes : busy_list = <<n>>
      BY <2>2 DEF MailInv
    <3>2. Head(busy_list) = n /\ Tail(busy_list) = <<>>
      BY <3>1
    <3>3. /\ busy_list' = <<>> /\ user_list' = user_list \cup {n} /\ newest' = data[n]
          /\ data' = data /\ frame' = frame
          /\ call' = [call EXCEPT ![t] = Inside("copy", Info(n))]
      BY <1>3, <2>2, <3>2 DEF StatBufUserGet
    <3>4. call'[Irq].op = call[Irq].op
      BY <3>3, <1>a
    <3>5. newest < data[n] /\ data[n] <= frame
      BY <2>2, <3>2 DEF MailInv
    <3>6. MailInv'
      BY <1>c, <3>3, <3>4, <3>5 DEF MailInv
    <3>7. /\ Slot = data[n] /\ Slot' = 0 /\ Lent' = Lent \cup {data[n]}
      BY <2>2, <3>2, <3>3 DEF Slot, Lent
    <3>8. Mailbox!Take
      BY <3>3, <3>5, <3>7 DEF Mailbox!Take, Slot, Lent
    <3>9. QED
      BY <3>6, <3>8 DEF Mailbox!Next, Goal
  <2>3. QED
    BY <2>1, <2>2
<1>4. ASSUME NEW t \in Threads, StatBufUserPut(t)
      PROVE  Goal
  <2>1. CASE call[t].buf \notin {Info(n) : n \in user_list}
    BY <1>4, <2>1, <1>b DEF StatBufUserPut, Return, lists, memory
  <2>2. CASE call[t].buf \in {Info(n) : n \in user_list}
    <3>1. PICK n \in user_list : call[t].buf = Info(n)
      BY <2>2
    <3>2. call[t].buf.node = n
      BY <3>1 DEF Info
    <3>3. /\ busy_list' = busy_list /\ user_list' = user_list \ {n} /\ newest' = newest
          /\ data' = data /\ frame' = frame /\ call' = [call EXCEPT ![t] = Done(NoBuf)]
      BY <1>4, <2>2, <3>2 DEF StatBufUserPut, Return
    <3>4. call'[Irq].op = call[Irq].op
      BY <3>3, <1>a
    <3>5. MailInv'
      BY <3>3, <3>4 DEF MailInv
    <3>6. Slot' = Slot /\ data[n] \in Lent /\ Lent' = Lent \ {data[n]}
      BY <3>3 DEF Slot, Lent, MailInv
    <3>7. Mailbox!GiveBack
      BY <3>3, <3>6 DEF Mailbox!GiveBack, Slot, Lent
    <3>8. QED
      BY <3>5, <3>7 DEF Mailbox!Next, Goal
  <2>3. QED
    BY <2>1, <2>2
<1>5. ASSUME StatBufBusyPutEnter
      PROVE  Goal
  <2>1. /\ frame < MaxFrame /\ frame' = frame + 1
        /\ UNCHANGED <<busy_list, user_list, data, newest>>
    BY <1>5 DEF StatBufBusyPutEnter, lists
  <2>2. frame + 1 \in 1..MaxFrame /\ newest < frame + 1 /\ \A n \in Nodes : data[n] < frame + 1
    BY <2>1, <1>c DEF MailInv
  <2>3. MailInv'
    BY <1>c, <2>1, <2>2 DEF MailInv
  <2>4. QED
    BY <2>1, <2>3 DEF Slot, Lent, Goal
<1>6. ASSUME StatBufBusyPut
      PROVE  Goal
  <2> DEFINE avail == free_list \o busy_list
  <2>1. /\ call[Irq].op = "busy" /\ call' = [call EXCEPT ![Irq] = Done(NoBuf)]
        /\ UNCHANGED <<user_list, newest, frame>>
    BY <1>6 DEF StatBufBusyPut, Return, In, lists
  <2>2. call'[Irq].op # "busy"
    BY <2>1 DEF Done, TypeOK
  <2>3. CASE avail = <<>>
    <3>1. UNCHANGED <<busy_list, data>>
      BY <1>6, <2>3 DEF StatBufBusyPut, lists
    <3>2. QED
      BY <2>1, <2>2, <3>1, MailQuiet DEF Goal
  <2>4. CASE avail # <<>>
    <3>1. avail \in Seq(Nodes)
      BY ConcatProperties DEF TypeOK
    <3>2. Elements(avail) \cap user_list = {}
      BY DEF OneList
    <3>3. busy_list' = <<Head(avail)>> /\ data' = [data EXCEPT ![Head(avail)] = frame]
      BY <1>6, <2>4 DEF StatBufBusyPut
    <3> HIDE DEF avail
    <3>4. Head(avail) \in Nodes /\ Head(avail) \in Elements(avail)
      BY <2>4, <3>1, Rotation
    <3>5. PICK h \in Nodes \ user_list : h = Head(avail)
      BY <3>2, <3>4
    <3>6. busy_list' = <<h>> /\ Head(busy_list') = h /\ busy_list' # <<>>
      BY <3>3, <3>5
    <3>7. /\ data'[h] = frame
          /\ \A n \in Nodes : n # h => data'[n] = data[n]
      BY <3>3, <3>5 DEF TypeOK
    <3>8. frame \in 1..MaxFrame /\ newest < frame /\ \A n \in Nodes : data[n] < frame
      BY <2>1 DEF MailInv
    <3>9. MailInv'
      BY <1>c, <2>1, <2>2, <3>6, <3>7, <3>8 DEF MailInv
    <3>10. Slot' = frame /\ Slot < frame
      <4>1. busy_list = <<>> \/ Head(busy_list) \in Nodes
        BY DEF MailInv
      <4>2. QED
        BY <3>6, <3>7, <3>8, <4>1 DEF Slot
    <3>11. Lent' = Lent
      BY <1>c, <2>1, <3>5, <3>7 DEF Lent
    <3>12. Mailbox!Deposit
      BY <2>1, <3>8, <3>10, <3>11 DEF Mailbox!Deposit, Slot, Lent
    <3>13. QED
      BY <3>9, <3>12 DEF Mailbox!Next, Goal
  <2>5. QED
    BY <2>3, <2>4
<1>7. ASSUME NEW t \in Threads,
             \/ StatBufInitEnter(t) \/ StatBufExitEnter(t) \/ StatBufFree(t)
             \/ StatBufUserGetEnter(t) \/ StatBufUserCopy(t)
             \/ (\E buf \in Bufs : StatBufUserPutEnter(t, buf))
             \/ GetStatInfoActiveEnter(t) \/ GetStatInfoActive(t)
      PROVE  Goal
  <2>1. UNCHANGED <<busy_list, user_list, data, newest, frame>>
    BY <1>7 DEF StatBufInitEnter, StatBufExitEnter, StatBufFree, StatBufUserGetEnter, StatBufUserCopy,
                StatBufUserPutEnter, GetStatInfoActiveEnter, GetStatInfoActive, lists
  <2>2. \E c : call' = [call EXCEPT ![t] = c]
    BY <1>7 DEF StatBufInitEnter, StatBufExitEnter, StatBufFree, StatBufUserGetEnter, StatBufUserCopy,
                StatBufUserPutEnter, GetStatInfoActiveEnter, GetStatInfoActive, Enter, Return
  <2>3. QED
    BY <2>1, <2>2, <1>b
<1>8. ASSUME NEW flag \in BOOLEAN, SetIspRunState(flag)
      PROVE  Goal
  BY <1>8, MailQuiet DEF SetIspRunState, lists, Goal
<1>9. CASE UNCHANGED vars
  BY <1>9, MailQuiet DEF vars, lists, Goal
<1>10. QED
  BY <1>1, <1>2, <1>3, <1>4, <1>5, <1>6, <1>7, <1>8, <1>9 DEF Next, Goal

\* The mailbox begins empty.
LEMMA MailInit == Init => MailInv /\ Mailbox!Init
BY BufsAssumption DEF Init, MailInv, Mailbox!Init, Idle

\* The lists implement the mailbox for the newest frame, whatever calls and
\* interrupts meet: a frame is handed out at most once and never after a newer
\* one, and what a user has does not change. (isp.c:863-959, 1061-1120)
THEOREM ListsAreAMailbox == Spec => MailboxSpec
<1>1. TypeOK /\ OneList /\ MailInv /\ [Next]_vars => (TypeOK /\ OneList /\ MailInv)'
  BY TypeStep, ListStep, MailStep
<1>2. TypeOK /\ OneList /\ MailInv /\ [Next]_vars
        => Mailbox!Next \/ UNCHANGED <<Slot, Lent, newest>>
  BY MailStep
<1>3. QED
  BY <1>1, <1>2, TypeInit, ListInit, MailInit, PTL DEF Spec, MailboxSpec, Mailbox!Spec, Slot, Lent

-----------------------------------------------------------------------------
(* The firmware *)

\* Every step of the firmware is a step of the buffers or none.
LEMMA FirmwareStep ==
  ASSUME TypeOK, stat_info \in Bufs, [FwNext]_fwVars
  PROVE  [Next]_vars /\ stat_info' \in Bufs
<1>1. Run \in Threads /\ Ctl \in Threads
  BY ThreadsAssumption
<1>2. ASSUME TypeOK'
      PROVE  call'[Run].buf \in Bufs /\ NoBuf \in Bufs
  BY <1>1, <1>2, InfoTypes DEF TypeOK
<1>3. ASSUME NEW t \in Threads,
             \/ StatBufInitEnter(t) \/ StatBufInit(t)
             \/ StatBufExitEnter(t) \/ StatBufExit(t) \/ StatBufFree(t)
             \/ StatBufUserGetEnter(t) \/ StatBufUserGet(t) \/ StatBufUserCopy(t)
             \/ (\E buf \in Bufs : StatBufUserPutEnter(t, buf)) \/ StatBufUserPut(t)
             \/ GetStatInfoActiveEnter(t) \/ GetStatInfoActive(t)
      PROVE  Next
  BY <1>3 DEF Next
<1>4. ASSUME RunNext
      PROVE  [Next]_vars /\ (stat_info' = stat_info \/ stat_info' = call'[Run].buf)
  <2>1. CASE \/ RunEnter \/ RunEnableInterrupt \/ RunBegin \/ RunLoop \/ RunSwitchMode
             \/ RunGetFrameEdge \/ RunWoken \/ RunLock \/ RunReturnEarly \/ RunUnlock \/ RunLeave
             \/ GetBufAgain
    BY <2>1 DEF RunEnter, RunEnableInterrupt, RunBegin, RunLoop, RunSwitchMode, RunGetFrameEdge, RunWoken,
                RunLock, RunReturnEarly, RunUnlock, RunLeave, GetBufAgain, user
  <2>2. CASE GetBuf
    BY <2>2, <1>1, <1>3 DEF GetBuf, user
  <2>3. CASE GetBufBusy
    BY <2>3, <1>1, <1>3 DEF GetBufBusy, user
  <2>4. CASE GetBufDone
    BY <2>4, <1>1, <1>3 DEF GetBufDone
  <2>5. CASE GetBufActive
    BY <2>5, <1>1, <1>3 DEF GetBufActive, user
  <2>6. CASE GetBufActiveDone
    BY <2>6, <1>1, <1>3 DEF GetBufActiveDone
  <2>7. CASE PutBuf
    BY <2>7, <1>1, <1>3 DEF PutBuf, user
  <2>8. CASE PutBufDone
    BY <2>8, <1>1, <1>3 DEF PutBufDone
  <2>9. QED
    BY <1>4, <2>1, <2>2, <2>3, <2>4, <2>5, <2>6, <2>7, <2>8 DEF RunNext
<1>5. ASSUME CtlNext
      PROVE  [Next]_vars /\ (stat_info' = stat_info \/ stat_info' = NoBuf)
  <2>1. CASE \/ MemInit \/ MemInfoSet \/ IspInitFail \/ ExitDisableInterrupt \/ StopRunThread
             \/ WaitRunThreadExit \/ ExitLock \/ ResetCtx \/ ExitUnlock \/ Join
    BY <2>1 DEF MemInit, MemInfoSet, IspInitFail, ExitDisableInterrupt, StopRunThread, WaitRunThreadExit,
                ExitLock, ResetCtx, ExitUnlock, Join, user
  <2>2. CASE StatisticsInit
    BY <2>2, <1>1, <1>3 DEF StatisticsInit, user
  <2>3. CASE StatisticsInitDone
    BY <2>3, <1>1, <1>3 DEF StatisticsInitDone
  <2>4. CASE StatisticsInitMap
    BY <2>4, <1>1, <1>3 DEF StatisticsInitMap
  <2>5. CASE InitGlobalInfo \/ IspExit
    BY <2>5 DEF InitGlobalInfo, IspExit, Next
  <2>6. CASE StatisticsExit
    BY <2>6, <1>1, <1>3 DEF StatisticsExit
  <2>7. CASE StatisticsExitDestroy
    BY <2>7, <1>1, <1>3 DEF StatisticsExitDestroy, user
  <2>8. CASE StatisticsExitFree
    BY <2>8, <1>1, <1>3 DEF StatisticsExitFree, user
  <2>9. QED
    BY <1>5, <2>1, <2>2, <2>3, <2>4, <2>5, <2>6, <2>7, <2>8 DEF CtlNext
<1>6. ASSUME InterruptEnter \/ Interrupt
      PROVE  Next /\ stat_info' = stat_info
  BY <1>6 DEF InterruptEnter, Interrupt, Next, user
<1>7. ASSUME Crash
      PROVE  UNCHANGED vars /\ stat_info' = NoBuf
  BY <1>7 DEF Crash
<1>8. CASE UNCHANGED fwVars
  BY <1>8 DEF fwVars, user
<1>9. ASSUME FwNext
      PROVE  [Next]_vars /\ (stat_info' = stat_info \/ stat_info' = call'[Run].buf \/ stat_info' = NoBuf)
  BY <1>4, <1>5, <1>6, <1>7, <1>9 DEF FwNext
<1>10. QED
  BY <1>2, <1>8, <1>9, TypeStep

\* Whatever the firmware does, with a process that dies between any two calls
\* and starts again, the buffers see a client they allow, so that the theorems
\* above hold of it. (isp_statistics.c:25-145, mpi_isp_entry.c:156-502)
THEOREM FirmwareIsAClient == FwSpec => Spec
<1>1. FwInit => Init /\ stat_info \in Bufs
  BY TypeInit, InfoTypes DEF FwInit
<1>2. TypeOK /\ stat_info \in Bufs /\ [FwNext]_fwVars
        => (TypeOK /\ stat_info \in Bufs)' /\ [Next]_vars
  BY FirmwareStep, TypeStep
<1>3. QED
  BY <1>1, <1>2, TypeInit, PTL DEF FwSpec, Spec

\* The firmware's lists, its memory and its mailbox.
THEOREM FirmwareIsSafe == FwSpec => [](OneList /\ WrittenIsAllocated) /\ MailboxSpec
<1>1. [](OneList /\ WrittenIsAllocated) <=> []OneList /\ []WrittenIsAllocated
  BY PTL
<1>2. QED
  BY <1>1, FirmwareIsAClient, OneListAlways, WrittenIsAllocatedAlways, ListsAreAMailbox

-----------------------------------------------------------------------------
(* The two threads of the firmware and the kernel's buffers: the inductive *)
(* invariant                                                               *)

\* Where the run thread has the lock, if there is one
Holding == {"run", "get", "copy", "fallback", "active", "use", "put", "unlock"}

\* Where the run thread may be, and where the controlling thread is in an exit
Serving == {"up", "stop", "waiting", "stopped"}
Leaving == {"exit", "statistics", "destroy", "free", "reset", "unlock"}

Places ==
  /\ lock \in {"free", "none", Run, Ctl}
  /\ after \in {"set", "mem", "unlock"}
  /\ ctl \in Serving \cup Leaving \cup {"down", "set", "mem", "init", "map", "made", "join"}
  /\ stat_info \in Bufs /\ read \in BOOLEAN

\* What keeps the two threads apart: the lock while it is there, and afterwards
\* the join.
Apart ==
  /\ run \in Holding => lock = Run \/ ctl = "join"
  /\ run # "out" => ctl \in Serving \cup {"join"} \/ (ctl \in Leaving /\ after = "unlock")
  /\ para_init => ctl \in Serving \/ (ctl = "exit" /\ after = "unlock")
  /\ ctl \in Serving => lock = "free" \/ (lock = Run /\ run \in Holding)
  /\ ctl \in Leaving => lock = IF after = "unlock" THEN Ctl ELSE "none"
  /\ ctl \notin Serving \cup Leaving => lock = "none"
  /\ ctl = "unlock" => after = "unlock"

\* A thread is inside the call its place says.
Calls ==
  /\ call[Run].op = IF run \in {"get", "copy", "put", "active"} THEN run ELSE "none"
  /\ call[Ctl].op = IF ctl \in {"init", "free"} THEN ctl
                    ELSE IF ctl = "destroy" THEN "exit" ELSE "none"

Whole == init /\ live = {phy_addr} /\ node_addr = [n \in Nodes |-> phy_addr]
Gone == ~init /\ live = {}

\* What there is of the memory
Memory ==
  /\ ctl \in {"set", "mem", "reset", "unlock", "join"} => Gone
  /\ ctl \in {"init", "free"} => ~init /\ live = {call[Ctl].buf.addr}
  /\ ctl \in {"map", "made", "destroy"} \cup Serving => Whole
  /\ ctl \in {"down", "exit", "statistics"} => Whole \/ Gone
  /\ ctl = "map" => call[Ctl].buf.addr = phy_addr
  /\ ctl = "statistics" /\ after = "mem" => Whole
  /\ ctl \in {"exit", "reset"} => after # "mem"
  /\ ~mem_init => ctl \in {"set", "unlock", "join"} \/ (ctl = "down" /\ Gone)

\* Where it is mapped
Mapping ==
  /\ ctl \in {"made"} \cup Serving => stat_virt_addr = phy_addr
  /\ ctl \notin Serving \cup {"made", "exit", "statistics"} => stat_virt_addr = TD_NULL
  /\ run \in {"get", "copy", "use", "put"} => ctl \in Serving

\* What the kernel lends is what the run thread remembers.
Lending ==
  /\ run = "use" => stat_info.addr = phy_addr
  /\ ctl \in {"map", "made"} \cup Serving =>
       /\ read => stat_info.node \in Nodes /\ stat_info.addr = phy_addr
       /\ run \in {"get", "copy", "fallback", "active"} => ~read
       /\ run = "put" => read /\ call[Run].buf = stat_info
       /\ user_list = IF run = "copy" THEN {call[Run].buf.node}
                      ELSE IF read THEN {stat_info.node} ELSE {}

FInv == Places /\ Apart /\ Calls /\ Memory /\ Mapping /\ Lending

\* A call of one thread leaves the other's alone.
LEMMA CallChanges ==
  ASSUME TypeOK, NEW t \in Threads \cup {Irq}, NEW c, call' = [call EXCEPT ![t] = c]
  PROVE  call'[t] = c /\ \A u \in Threads : u # t => call'[u] = call[u]
  BY DEF TypeOK

-----------------------------------------------------------------------------
(* Every step preserves it *)

LEMMA RunStep ==
  ASSUME TypeOK, FInv, RunNext
  PROVE  FInv'
<1> USE ThreadsAssumption, IrqAssumption, NullAssumption
    DEF FInv, Places, Apart, Calls, Memory, Mapping, Lending, Whole, Gone, Holding, Serving,
        Leaving, RunGoes, CtlGoes, In, Inside, Done, Info, NoBuf, Bufs, Nodes, TD_NULL, TypeOK,
        vars, memory, lists, user, kernel
<1>1. CASE RunEnter
  BY <1>1 DEF RunEnter
<1>2. CASE RunEnableInterrupt
  BY <1>2 DEF RunEnableInterrupt, Acquirable
<1>3. CASE RunBegin
  BY <1>3 DEF RunBegin
<1>4. CASE RunLoop
  BY <1>4 DEF RunLoop
<1>5. CASE RunSwitchMode
  BY <1>5 DEF RunSwitchMode, Acquirable
<1>6. CASE RunGetFrameEdge
  BY <1>6 DEF RunGetFrameEdge
<1>7. CASE RunWoken
  BY <1>7 DEF RunWoken
<1>8. CASE RunLock
  BY <1>8 DEF RunLock, Acquire, Acquirable
<1>9. CASE RunReturnEarly
  BY <1>9 DEF RunReturnEarly
<1>10. CASE RunUnlock
  BY <1>10 DEF RunUnlock, Release
<1>11. CASE RunLeave
  BY <1>11 DEF RunLeave
<1>12. CASE GetBufAgain
  BY <1>12 DEF GetBufAgain
<1>13. CASE GetBuf
  <2> USE <1>13 DEF GetBuf
  <2>1. CASE StatBufUserGetEnter(Run) /\ RunGoes("run", "get")
    <3>1. call' = [call EXCEPT ![Run] = Inside("get", NoBuf)]
      BY <2>1 DEF StatBufUserGetEnter, Enter
    <3>2. QED
      BY <2>1, <3>1, CallChanges, SMTT(60) DEF StatBufUserGetEnter
  <2>2. CASE ~init /\ RunGoes("run", "fallback") /\ UNCHANGED vars
    <3>1. Calls' /\ Memory' /\ Places' /\ Mapping'
      BY <2>2
    <3>2. Apart'
      BY <2>2
    <3>3. Lending'
      BY <2>2
    <3>4. QED
      BY <3>1, <3>2, <3>3
  <2>3. QED
    BY <2>1, <2>2
<1>14. CASE GetBufBusy
  <2> USE <1>14 DEF GetBufBusy
  <2>1. CASE busy_list = <<>>
    <3>1. call' = [call EXCEPT ![Run] = Done(NoBuf)]
      BY <2>1 DEF StatBufUserGet, Return
    <3>2. QED
      BY <2>1, <3>1, CallChanges, SMTT(60) DEF StatBufUserGet
  <2>2. CASE busy_list # <<>>
    <3>1. call' = [call EXCEPT ![Run] = Inside("copy", Info(Head(busy_list)))]
      BY <2>2 DEF StatBufUserGet, Return
    <3>2. call'[Run] = Inside("copy", Info(Head(busy_list))) /\ call'[Ctl] = call[Ctl]
      BY <3>1, CallChanges
    <3>3. UNCHANGED memory /\ user_list' = user_list \cup {Head(busy_list)}
      BY <2>2 DEF StatBufUserGet
    <3>4. run' = "copy" /\ user_list = {}
      BY <2>2
    <3>5. Places' /\ Apart' /\ Calls'
      BY <3>2, <3>4
    <3>6. Memory' /\ Mapping' /\ Lending'
      BY <3>2, <3>3, <3>4
    <3>7. QED
      BY <3>5, <3>6
  <2>3. QED
    BY <2>1, <2>2
<1>15. CASE GetBufDone
  BY <1>15, SMTT(60) DEF GetBufDone, StatBufUserCopy, Return
<1>16. CASE GetBufActive
  <2> USE <1>16 DEF GetBufActive
  <2>1. CASE GetStatInfoActiveEnter(Run) /\ RunGoes("fallback", "active")
    <3>1. call' = [call EXCEPT ![Run] = Inside("active", NoBuf)]
      BY <2>1 DEF GetStatInfoActiveEnter, Enter
    <3>2. QED
      BY <2>1, <3>1, CallChanges, SMTT(60) DEF GetStatInfoActiveEnter
  <2>2. CASE act_stat = TD_NULL /\ RunGoes("fallback", "unlock") /\ UNCHANGED vars
    BY <2>2
  <2>3. \/ GetStatInfoActiveEnter(Run) /\ RunGoes("fallback", "active")
        \/ act_stat = TD_NULL /\ RunGoes("fallback", "unlock") /\ UNCHANGED vars
    BY ONLY <1>16 DEF GetBufActive
  <2>4. QED
    BY ONLY <2>1, <2>2, <2>3
<1>17. CASE GetBufActiveDone
  <2> USE <1>17 DEF GetBufActiveDone
  <2>1. call' = [call EXCEPT ![Run] = Done(Info(act_stat))]
    BY DEF GetStatInfoActive, Return
  <2>2. call'[Run] = Done(Info(act_stat)) /\ call'[Ctl] = call[Ctl]
    BY <2>1, CallChanges
  <2>3. UNCHANGED <<memory, lists>>
    BY DEF GetStatInfoActive
  <2>4. Places'
    <3>1. act_stat \in Nodes \cup {TD_NULL} /\ act_stat # TD_NULL
      BY DEF GetStatInfoActive
    <3>2. Info(act_stat) \in Bufs
      BY ONLY <3>1, TypeOK, InfoTypes
    <3>3. stat_info' = Info(act_stat) /\ read' = FALSE
      BY <2>2
    <3>4. UNCHANGED <<lock, after, ctl>>
      OBVIOUS
    <3>5. QED
      BY <3>2, <3>3, <3>4
  <2>5. Apart'
    BY <2>2
  <2>6. Calls'
    BY <2>2
  <2>7. Memory' /\ Mapping' /\ Lending'
    BY <2>2, <2>3
  <2>8. QED
    BY <2>4, <2>5, <2>6, <2>7
<1>18. CASE PutBuf
  <2> USE <1>18 DEF PutBuf
  <2>1. CASE read /\ StatBufUserPutEnter(Run, stat_info) /\ RunGoes("use", "put")
    <3>1. call' = [call EXCEPT ![Run] = Inside("put", stat_info)]
      BY <2>1 DEF StatBufUserPutEnter, Enter
    <3>2. QED
      BY <2>1, <3>1, CallChanges, SMTT(60) DEF StatBufUserPutEnter
  <2>2. CASE ~read /\ RunGoes("use", "unlock") /\ UNCHANGED vars
    BY <2>2
  <2>3. QED
    BY <2>1, <2>2
<1>19. CASE PutBufDone
  <2> USE <1>19 DEF PutBufDone
  <2>1. call' = [call EXCEPT ![Run] = Done(NoBuf)]
    BY DEF StatBufUserPut, Return
  <2>2. call[Run].buf = Info(stat_info.node) /\ user_list = {stat_info.node}
    OBVIOUS
  <2>3. user_list' = {}
    BY <2>2 DEF StatBufUserPut
  <2>4. call'[Run] = Done(NoBuf) /\ call'[Ctl] = call[Ctl]
    BY <2>1, CallChanges
  <2>5. UNCHANGED memory
    BY DEF StatBufUserPut
  <2>6. Places' /\ Apart' /\ Calls'
    <3>1. ctl \in Serving /\ run = "put" /\ run' = "unlock" /\ ctl' = ctl /\ lock' = lock
      OBVIOUS
    <3>2. Places'
      BY <2>4
    <3>3. Apart'
      BY <3>1
    <3>4. Calls'
      BY <2>4, <3>1
    <3>5. QED
      BY <3>2, <3>3, <3>4
  <2>7. Memory' /\ Mapping' /\ Lending'
    BY <2>3, <2>4, <2>5
  <2>8. QED
    BY <2>6, <2>7
<1>20. QED
  BY <1>1, <1>2, <1>3, <1>4, <1>5, <1>6, <1>7, <1>8, <1>9, <1>10, <1>11, <1>12, <1>13, <1>14, <1>15, <1>16, <1>17, <1>18, <1>19 DEF RunNext

LEMMA CtlStep ==
  ASSUME TypeOK, FInv, CtlNext
  PROVE  FInv'
<1> USE ThreadsAssumption, IrqAssumption, NullAssumption
    DEF FInv, Places, Apart, Calls, Memory, Mapping, Lending, Whole, Gone, Holding, Serving,
        Leaving, RunGoes, CtlGoes, In, Inside, Done, Info, NoBuf, Bufs, Nodes, TD_NULL, TypeOK,
        vars, memory, lists, user, kernel
<1>1. CASE MemInit
  BY <1>1 DEF MemInit
<1>2. CASE MemInfoSet
  BY <1>2 DEF MemInfoSet
<1>3. CASE StatisticsInit
  BY <1>3 DEF StatisticsInit, StatBufInitEnter, Enter
<1>4. CASE StatisticsInitDone
  BY <1>4 DEF StatisticsInitDone, StatBufInit, Return
<1>5. CASE StatisticsInitMap
  <2> USE <1>5 DEF StatisticsInitMap
  <2>1. CASE CtlGoes("map", "made") /\ UNCHANGED <<vars, after>> /\ stat_virt_addr' = call[Ctl].buf.addr
    BY <2>1
  <2>2. CASE StatBufExitEnter(Ctl) /\ CtlGoes("map", "destroy") /\ after' = "mem" /\ UNCHANGED stat_virt_addr
    <3>1. call' = [call EXCEPT ![Ctl] = Inside("exit", NoBuf)]
      BY <2>2 DEF StatBufExitEnter, Enter
    <3>2. QED
      BY <2>2, <3>1, CallChanges DEF StatBufExitEnter
  <2>3. QED
    BY <2>1, <2>2
<1>6. CASE IspInitFail
  BY <1>6 DEF IspInitFail
<1>7. CASE InitGlobalInfo
  BY <1>7 DEF InitGlobalInfo, SetIspRunState
<1>8. CASE ExitDisableInterrupt
  BY <1>8 DEF ExitDisableInterrupt
<1>9. CASE StopRunThread
  BY <1>9 DEF StopRunThread
<1>10. CASE WaitRunThreadExit
  BY <1>10 DEF WaitRunThreadExit
<1>11. CASE ExitLock
  BY <1>11 DEF ExitLock, Acquire, Acquirable
<1>12. CASE IspExit
  BY <1>12 DEF IspExit, SetIspRunState
<1>13. CASE StatisticsExit
  <2> USE <1>13 DEF StatisticsExit
  <2>1. stat_virt_addr' = TD_NULL /\ stat_info' \in Bufs /\ read' \in BOOLEAN
    <3>1. NoBuf \in Bufs /\ stat_info \in Bufs /\ read \in BOOLEAN
      OBVIOUS
    <3>2. CASE stat_virt_addr # TD_NULL
      BY <3>1, <3>2
    <3>3. CASE stat_virt_addr = TD_NULL
      BY <3>1, <3>3
    <3>4. QED
      BY <3>2, <3>3
  <2>2. CASE StatBufExitEnter(Ctl) /\ CtlGoes("statistics", "destroy")
    <3>1. call' = [call EXCEPT ![Ctl] = Inside("exit", NoBuf)]
      BY <2>2 DEF StatBufExitEnter, Enter
    <3>2. QED
      BY <2>1, <2>2, <3>1, CallChanges, SMTT(60) DEF StatBufExitEnter
  <2>3. CASE ~init /\ CtlGoes("statistics", "reset") /\ UNCHANGED vars
    BY <2>1, <2>3
  <2>4. QED
    BY <2>2, <2>3
<1>14. CASE StatisticsExitDestroy
  BY <1>14 DEF StatisticsExitDestroy, StatBufExit
<1>15. CASE StatisticsExitFree
  BY <1>15 DEF StatisticsExitFree, StatBufFree, Return
<1>16. CASE ResetCtx
  BY <1>16 DEF ResetCtx
<1>17. CASE ExitUnlock
  BY <1>17 DEF ExitUnlock
<1>18. CASE Join
  BY <1>18 DEF Join
<1>19. QED
  BY <1>1, <1>2, <1>3, <1>4, <1>5, <1>6, <1>7, <1>8, <1>9, <1>10, <1>11, <1>12, <1>13, <1>14, <1>15, <1>16, <1>17, <1>18 DEF CtlNext

LEMMA InterruptStep ==
  ASSUME TypeOK, FInv, InterruptEnter \/ Interrupt
  PROVE  FInv'
<1> USE ThreadsAssumption, IrqAssumption, NullAssumption
    DEF FInv, Places, Apart, Calls, Memory, Mapping, Lending, Whole, Gone, Holding, Serving,
        Leaving, RunGoes, CtlGoes, In, Inside, Done, Info, NoBuf, Bufs, Nodes, TD_NULL, TypeOK,
        vars, memory, lists, user, kernel
<1>1. CASE InterruptEnter
  BY <1>1 DEF InterruptEnter, StatBufBusyPutEnter, Enter
<1>2. CASE Interrupt
  <2>1. call' = [call EXCEPT ![Irq] = Done(NoBuf)]
    BY <1>2 DEF Interrupt, StatBufBusyPut, Return
  <2>2. user_list' = user_list
    BY <1>2 DEF Interrupt, StatBufBusyPut
  <2>3. call'[Run] = call[Run] /\ call'[Ctl] = call[Ctl]
    BY <2>1, CallChanges
  <2>4. UNCHANGED <<memory, lock, after, ctl, run, para_init, stat_virt_addr, mem_init,
                    stat_info, read>>
    BY <1>2 DEF Interrupt, StatBufBusyPut
  <2>5. QED
    BY <2>2, <2>3, <2>4
<1>3. QED
  BY <1>1, <1>2

LEMMA CrashStep ==
  ASSUME TypeOK, FInv, Crash
  PROVE  FInv'
<1> USE ThreadsAssumption, IrqAssumption, NullAssumption
    DEF FInv, Places, Apart, Calls, Memory, Mapping, Lending, Whole, Gone, Holding, Serving,
        Leaving, RunGoes, CtlGoes, In, Inside, Done, Info, NoBuf, Bufs, Nodes, TD_NULL, TypeOK,
        vars, memory, lists, user, kernel
<1>1. QED
  BY DEF Crash

LEMMA StutterStep ==
  ASSUME FInv, UNCHANGED fwVars
  PROVE  FInv'
<1> USE ThreadsAssumption, IrqAssumption, NullAssumption
    DEF FInv, Places, Apart, Calls, Memory, Mapping, Lending, Whole, Gone, Holding, Serving,
        Leaving, RunGoes, CtlGoes, In, Inside, Done, Info, NoBuf, Bufs, Nodes, TD_NULL, TypeOK,
        vars, memory, lists, user, kernel
<1>1. QED
  BY DEF fwVars

LEMMA FInvStep ==
  ASSUME TypeOK, FInv, [FwNext]_fwVars
  PROVE  TypeOK' /\ FInv'
<1>1. stat_info \in Bufs
  BY DEF FInv, Places
<1>2. TypeOK'
  BY <1>1, FirmwareStep, TypeStep
<1>3. FInv'
  BY RunStep, CtlStep, InterruptStep, CrashStep, StutterStep DEF FwNext
<1>4. QED
  BY <1>2, <1>3

LEMMA FInvInit == FwInit => TypeOK /\ FInv
<1> SUFFICES ASSUME FwInit PROVE TypeOK /\ FInv
  OBVIOUS
<1>1. Run \in Threads /\ Ctl \in Threads
  BY ThreadsAssumption
<1>2. call[Run].op = "none" /\ call[Ctl].op = "none"
  BY <1>1 DEF FwInit, Init, Idle
<1>3. NoBuf \in Bufs
  BY DEF NoBuf, Bufs, Nodes
<1>4. QED
  BY <1>2, <1>3, TypeInit DEF FwInit, Init, FInv, Places, Apart, Calls, Memory, Mapping, Lending, Gone, Holding, Serving, Leaving

LEMMA FInvAlways == FwSpec => [](TypeOK /\ FInv)
<1>1. TypeOK /\ FInv /\ [FwNext]_fwVars => (TypeOK /\ FInv)'
  BY FInvStep
<1>2. QED
  BY <1>1, FInvInit, PTL DEF FwSpec

-----------------------------------------------------------------------------
(* What follows *)

\* The run thread never computes on statistics in memory that is not mapped,
\* or freed: not when an exit gives up waiting for it, nor when the process has
\* died and started again. (isp_statistics.c:80-120, mpi_isp_entry.c:437-502)
THEOREM UsesWhatIsMappedAlways == FwSpec => []UsesWhatIsMapped
<1>1. TypeOK /\ FInv => UsesWhatIsMapped
  BY ThreadsAssumption
     DEF UsesWhatIsMapped, FInv, Places, Apart, Memory, Mapping, Lending, Whole, Holding, Serving,
         Leaving
<1>2. QED
  BY <1>1, FInvAlways, PTL

\* Between frames the kernel lends the buffer that the run thread remembers and no
\* other, and a process that creates buffers finds none left over.
\* (isp_statistics.c:80-145, mpi_isp_entry.c:167-178)
THEOREM BuffersComeBackAlways == FwSpec => []BuffersComeBack
<1>1. TypeOK /\ FInv => BuffersComeBack
  BY DEF BuffersComeBack, FInv, Calls, Memory, Lending, Gone, Serving, In
<1>2. QED
  BY <1>1, FInvAlways, PTL

-----------------------------------------------------------------------------
(* The statistics the run thread falls back on *)

\* The newest frame the interrupt is done with
Seen == IF In(Irq, "busy") THEN frame - 1 ELSE frame
Latest(n) == data[n] = Seen /\ Seen > 0

\* The buffer with the statistics of the newest frame, once it is free again, is
\* the last one the interrupt would take, and all the others are free.
LatestInv ==
  /\ act_stat # TD_NULL => Seen > 0
  /\ \A n \in Elements(free_list) : Latest(n) =>
       busy_list = <<>> /\ user_list = {} /\ n = free_list[Len(free_list)]

\* A buffer is given back by the only one who has any.
OneUser == \A t \in Threads : In(t, "put") => \A m, n \in user_list : m = n

\* A step of a thread that leaves the lists, the data and the frame alone
LEMMA LatestQuiet ==
  ASSUME LatestInv, UNCHANGED <<free_list, busy_list, user_list, data, frame, act_stat>>,
         In(Irq, "busy")' <=> In(Irq, "busy")
  PROVE  LatestInv'
<1>1. Seen' = Seen
  BY DEF Seen
<1>2. QED
  BY <1>1 DEF LatestInv, Latest

LEMMA LatestStep ==
  ASSUME TypeOK, OneList, MailInv, LatestInv, OneUser, [Next]_vars
  PROVE  LatestInv'
<1>a. ASSUME NEW t \in Threads, NEW c, call' = [call EXCEPT ![t] = c]
      PROVE  In(Irq, "busy")' <=> In(Irq, "busy")
  BY <1>a, IrqAssumption DEF TypeOK, In
<1>b. ASSUME NEW t \in Threads, NEW c, call' = [call EXCEPT ![t] = c],
             UNCHANGED <<free_list, busy_list, user_list, data, frame, act_stat>>
      PROVE  LatestInv'
  BY <1>a, <1>b, LatestQuiet
<1>c. /\ frame \in 0..MaxFrame /\ MaxFrame \in Nat
      /\ \A n \in Nodes : data[n] \in 0..MaxFrame
      /\ free_list \in Seq(Nodes) /\ user_list \subseteq Nodes
  BY BufsAssumption DEF TypeOK
<1>d. Elements(<<>>) = {}
  BY DEF Elements
<1>e. \A n \in Nodes : data[n] <= Seen
  BY <1>c DEF MailInv, Seen, In
<1>1. ASSUME NEW t \in Threads, StatBufInit(t)
      PROVE  LatestInv'
  <2>1. /\ frame' = frame /\ act_stat' = act_stat /\ free_list' = [i \in 1..NumBufs |-> i]
        /\ data' = [n \in Nodes |-> 0] /\ call' = [call EXCEPT ![t] = Done(call[t].buf)]
    BY <1>1 DEF StatBufInit, Return
  <2>2. Seen' = Seen
    BY <2>1, <1>a DEF Seen
  <2>3. Elements(free_list') \subseteq Nodes
    BY <2>1 DEF Elements, Nodes
  <2>4. \A n \in Nodes : data'[n] = 0
    BY <2>1
  <2>5. QED
    BY <2>1, <2>2, <2>3, <2>4 DEF LatestInv, Latest
<1>2. ASSUME NEW t \in Threads, StatBufExit(t)
      PROVE  LatestInv'
  <2>1. /\ frame' = frame /\ act_stat' = act_stat /\ free_list' = <<>>
        /\ call' = [call EXCEPT ![t] = Inside("free", [NoBuf EXCEPT !.addr = phy_addr])]
    BY <1>2 DEF StatBufExit
  <2>2. Seen' = Seen
    BY <2>1, <1>a DEF Seen
  <2>3. QED
    BY <2>1, <2>2, <1>d DEF LatestInv
<1>3. ASSUME NEW t \in Threads, StatBufUserGet(t)
      PROVE  LatestInv'
  <2>1. CASE busy_list = <<>>
    BY <1>3, <2>1, <1>b DEF StatBufUserGet, Return, lists
  <2>2. CASE busy_list # <<>>
    <3>1. /\ UNCHANGED <<free_list, data, frame, act_stat>>
          /\ call' = [call EXCEPT ![t] = Inside("copy", Info(Head(busy_list)))]
      BY <1>3, <2>2 DEF StatBufUserGet
    <3>2. Seen' = Seen
      BY <3>1, <1>a DEF Seen
    <3>3. \A n \in Elements(free_list) : ~Latest(n)
      BY <2>2 DEF LatestInv
    <3>4. QED
      BY <3>1, <3>2, <3>3 DEF LatestInv, Latest
  <2>3. QED
    BY <2>1, <2>2
<1>4. ASSUME NEW t \in Threads, StatBufUserPut(t)
      PROVE  LatestInv'
  <2>1. CASE call[t].buf \notin {Info(n) : n \in user_list}
    BY <1>4, <2>1, <1>b DEF StatBufUserPut, Return, lists, memory
  <2>2. CASE call[t].buf \in {Info(n) : n \in user_list}
    <3>1. PICK u \in user_list : call[t].buf = Info(u)
      BY <2>2
    <3>2. call[t].buf.node = u
      BY <3>1 DEF Info
    <3>3. /\ busy_list' = busy_list /\ user_list' = user_list \ {u} /\ act_stat' = act_stat
          /\ free_list' = Append(free_list, u) /\ data' = data /\ frame' = frame
          /\ call' = [call EXCEPT ![t] = Done(NoBuf)]
      BY <1>4, <2>2, <3>2 DEF StatBufUserPut, Return
    <3>4. Seen' = Seen
      BY <3>3, <1>a DEF Seen
    <3>5. user_list' = {}
      BY <1>4, <3>3 DEF StatBufUserPut, OneUser
    <3>6. u \in Nodes /\ data[u] <= newest
      BY <1>c DEF MailInv
    <3>7. Elements(free_list') = Elements(free_list) \cup {u}
      <4>1. /\ <<u>> \in Seq(Nodes) /\ Elements(<<u>>) = {u}
            /\ Append(free_list, u) = free_list \o <<u>>
        BY <1>c, <3>6, OneElement, HeadThenTail
      <4>2. QED
        BY <1>c, <3>3, <4>1, ConcatElements
    <3>8. free_list'[Len(free_list')] = u
      BY <1>c, <3>3, <3>6, AppendProperties
    <3>9. ASSUME NEW n \in Elements(free_list'), Latest(n)'
          PROVE  busy_list' = <<>> /\ n = u
      <4>1. Latest(n)
        BY <3>3, <3>4, <3>9 DEF Latest
      <4>2. n = u
        BY <3>7, <4>1 DEF LatestInv
      <4>3. CASE busy_list # <<>>
        <5>1. Head(busy_list) \in Nodes /\ newest < data[Head(busy_list)]
          BY <4>3 DEF MailInv
        <5>2. data[Head(busy_list)] <= data[u]
          BY <1>e, <4>1, <4>2, <5>1 DEF Latest
        <5>3. newest \in Nat /\ data[u] \in Nat /\ data[Head(busy_list)] \in Nat
          BY <1>c, <3>6, <5>1 DEF TypeOK
        <5>4. QED
          BY <3>6, <5>1, <5>2, <5>3
      <4>4. QED
        BY <3>3, <4>2, <4>3
    <3>10. QED
      BY <3>3, <3>4, <3>5, <3>8, <3>9 DEF LatestInv
  <2>3. QED
    BY <2>1, <2>2
<1>5. ASSUME StatBufBusyPutEnter
      PROVE  LatestInv'
  <2>1. /\ frame < MaxFrame /\ frame' = frame + 1 /\ ~In(Irq, "busy")
        /\ UNCHANGED <<free_list, busy_list, user_list, data, act_stat>>
    BY <1>5 DEF StatBufBusyPutEnter, lists, Enter, In
  <2>2. CASE init
    <3>1. call' = [call EXCEPT ![Irq] = Inside("busy", NoBuf)]
      BY <1>5, <2>2 DEF StatBufBusyPutEnter, Enter
    <3>2. In(Irq, "busy")'
      BY <3>1 DEF In, Inside, TypeOK
    <3>3. Seen' = Seen
      BY <1>c, <2>1, <3>2 DEF Seen
    <3>4. QED
      BY <2>1, <3>3 DEF LatestInv, Latest
  <2>3. CASE ~init
    <3>1. UNCHANGED call
      BY <1>5, <2>3 DEF StatBufBusyPutEnter
    <3>2. Seen' = frame + 1 /\ Seen = frame
      BY <2>1, <3>1 DEF Seen, In
    <3>3. Elements(free_list) \subseteq Nodes
      BY <1>c DEF Elements
    <3>4. QED
      BY <1>c, <1>e, <2>1, <3>2, <3>3 DEF LatestInv, Latest
  <2>4. QED
    BY <2>2, <2>3
<1>6. ASSUME StatBufBusyPut
      PROVE  LatestInv'
  <2> DEFINE avail == free_list \o busy_list
  <2>1. /\ In(Irq, "busy") /\ call' = [call EXCEPT ![Irq] = Done(NoBuf)]
        /\ frame' = frame
    BY <1>6 DEF StatBufBusyPut, Return
  <2>2. ~In(Irq, "busy")'
    BY <2>1 DEF Done, TypeOK, In
  <2>3. Seen' = frame /\ frame > 0 /\ \A n \in Nodes : data[n] < frame
    BY <2>1, <2>2 DEF Seen, MailInv, In
  <2>4. CASE avail = <<>>
    <3>1. UNCHANGED <<lists, act_stat, data>>
      BY <1>6, <2>4 DEF StatBufBusyPut
    <3>2. Elements(free_list) \subseteq Nodes
      BY <1>c DEF Elements
    <3>3. QED
      BY <1>c, <2>3, <3>1, <3>2 DEF LatestInv, Latest, lists
  <2>5. CASE avail # <<>>
    <3>1. avail \in Seq(Nodes) /\ Distinct(avail)
      BY ConcatProperties DEF TypeOK, OneList
    <3>2. free_list' = Tail(avail) /\ data' = [data EXCEPT ![Head(avail)] = frame]
      BY <1>6, <2>5 DEF StatBufBusyPut
    <3> HIDE DEF avail
    <3>3. /\ Tail(avail) \in Seq(Nodes) /\ Head(avail) \notin Elements(Tail(avail))
      BY <2>5, <3>1, Rotation
    <3>4. \A n \in Elements(free_list') : n \in Nodes /\ n # Head(avail)
      <4>1. Elements(Tail(avail)) \subseteq Nodes
        BY <3>3 DEF Elements
      <4>2. QED
        BY <3>2, <3>3, <4>1
    <3>5. \A n \in Elements(free_list') : data'[n] = data[n]
      BY <3>2, <3>4 DEF TypeOK
    <3>6. \A n \in Elements(free_list') : data'[n] < Seen'
      BY <2>3, <3>4, <3>5
    <3>7. \A n \in Elements(free_list') : data'[n] \in Nat
      BY <1>c, <3>4, <3>5
    <3>8. \A n \in Elements(free_list') : ~Latest(n)'
      BY <1>c, <2>3, <3>6, <3>7 DEF Latest
    <3>9. Seen' > 0
      BY <2>3
    <3>10. QED
      BY <3>8, <3>9 DEF LatestInv
  <2>6. QED
    BY <2>4, <2>5
<1>7. ASSUME NEW t \in Threads,
             \/ StatBufInitEnter(t) \/ StatBufExitEnter(t) \/ StatBufFree(t)
             \/ StatBufUserGetEnter(t) \/ StatBufUserCopy(t)
             \/ (\E buf \in Bufs : StatBufUserPutEnter(t, buf))
             \/ GetStatInfoActiveEnter(t) \/ GetStatInfoActive(t)
      PROVE  LatestInv'
  <2>1. UNCHANGED <<free_list, busy_list, user_list, data, frame, act_stat>>
    BY <1>7 DEF StatBufInitEnter, StatBufExitEnter, StatBufFree, StatBufUserGetEnter, StatBufUserCopy,
                StatBufUserPutEnter, GetStatInfoActiveEnter, GetStatInfoActive, lists
  <2>2. \E c : call' = [call EXCEPT ![t] = c]
    BY <1>7 DEF StatBufInitEnter, StatBufExitEnter, StatBufFree, StatBufUserGetEnter, StatBufUserCopy,
                StatBufUserPutEnter, GetStatInfoActiveEnter, GetStatInfoActive, Enter, Return
  <2>3. QED
    BY <2>1, <2>2, <1>b
<1>8. ASSUME NEW flag \in BOOLEAN, SetIspRunState(flag)
      PROVE  LatestInv'
  BY <1>8, LatestQuiet DEF SetIspRunState, lists, In
<1>9. CASE UNCHANGED vars
  BY <1>9, LatestQuiet DEF vars, lists, In
<1>10. QED
  BY <1>1, <1>2, <1>3, <1>4, <1>5, <1>6, <1>7, <1>8, <1>9 DEF Next

\* The run thread gives back the one buffer it has.
LEMMA RunIsTheUser == TypeOK /\ FInv => OneUser
BY ThreadsAssumption
   DEF FInv, Calls, Mapping, Lending, OneUser, In, Serving

\* What is used for want of new statistics was the newest once.
FallbackInv == run = "use" /\ ~read => stat_info.node \in Nodes /\ Seen > 0

\* No step goes back to an older frame.
LEMMA SeenGrows ==
  ASSUME TypeOK, [Next]_vars
  PROVE  Seen \in Int /\ Seen' \in Int /\ Seen <= Seen'
<1>1. frame \in Int
  BY DEF TypeOK
<1>2. ASSUME NEW t \in Threads, NEW c, call' = [call EXCEPT ![t] = c], frame' = frame
      PROVE  Seen' = Seen
  BY <1>2, IrqAssumption DEF TypeOK, In, Seen
<1>3. ASSUME call' = call, frame' = frame
      PROVE  Seen' = Seen
  BY <1>3 DEF Seen, In
<1>4. ASSUME NEW t \in Threads,
             \/ StatBufInitEnter(t) \/ StatBufInit(t) \/ StatBufExitEnter(t) \/ StatBufExit(t)
             \/ StatBufFree(t) \/ StatBufUserGetEnter(t) \/ StatBufUserGet(t) \/ StatBufUserCopy(t)
             \/ (\E buf \in Bufs : StatBufUserPutEnter(t, buf)) \/ StatBufUserPut(t)
             \/ GetStatInfoActiveEnter(t) \/ GetStatInfoActive(t)
      PROVE  Seen' = Seen
  <2>1. frame' = frame
    BY <1>4 DEF StatBufInitEnter, StatBufInit, StatBufExitEnter, StatBufExit, StatBufFree,
                StatBufUserGetEnter, StatBufUserGet, StatBufUserCopy, StatBufUserPutEnter,
                StatBufUserPut, GetStatInfoActiveEnter, GetStatInfoActive
  <2>2. \E c : call' = [call EXCEPT ![t] = c]
    BY <1>4 DEF StatBufInitEnter, StatBufInit, StatBufExitEnter, StatBufExit, StatBufFree,
                StatBufUserGetEnter, StatBufUserGet, StatBufUserCopy, StatBufUserPutEnter,
                StatBufUserPut, GetStatInfoActiveEnter, GetStatInfoActive, Enter, Return
  <2>3. QED
    BY <1>2, <2>1, <2>2
<1>5. ASSUME StatBufBusyPutEnter
      PROVE  Seen' = Seen \/ Seen' = Seen + 1
  <2>1. frame' = frame + 1 /\ ~In(Irq, "busy")
    BY <1>5 DEF StatBufBusyPutEnter, Enter, In
  <2>2. QED
    BY <1>1, <2>1 DEF Seen
<1>6. ASSUME StatBufBusyPut
      PROVE  Seen' = Seen + 1
  <2>1. In(Irq, "busy") /\ frame' = frame /\ call' = [call EXCEPT ![Irq] = Done(NoBuf)]
    BY <1>6 DEF StatBufBusyPut, Return
  <2>2. ~In(Irq, "busy")'
    BY <2>1 DEF Done, TypeOK, In
  <2>3. QED
    BY <1>1, <2>1, <2>2 DEF Seen
<1>7. ASSUME NEW flag \in BOOLEAN, SetIspRunState(flag)
      PROVE  Seen' = Seen
  BY <1>7, <1>3 DEF SetIspRunState
<1>8. Seen \in Int
  BY <1>1 DEF Seen
<1>9. CASE UNCHANGED vars
  <2>1. Seen' = Seen
    BY <1>9, <1>3 DEF vars
  <2>2. QED
    BY <1>8, <2>1
<1>10. CASE Next
  <2>1. Seen' = Seen \/ Seen' = Seen + 1
    BY <1>10, <1>4, <1>5, <1>6, <1>7, Zenon DEF Next
  <2>2. QED
    BY <1>8, <2>1
<1>11. QED
  BY <1>9, <1>10

LEMMA FallbackStep ==
  ASSUME TypeOK, FInv, LatestInv, FallbackInv, [FwNext]_fwVars
  PROVE  FallbackInv'
<1>1. Seen \in Int /\ Seen' \in Int /\ Seen <= Seen'
  <2>1. stat_info \in Bufs
    BY DEF FInv, Places
  <2>2. [Next]_vars
    BY <2>1, FirmwareStep
  <2>3. QED
    BY <2>2, SeenGrows
<1> SUFFICES ASSUME run' = "use", ~read'
             PROVE  stat_info'.node \in Nodes /\ Seen' > 0
  BY DEF FallbackInv
<1>2. CASE run = "use" /\ UNCHANGED <<read, stat_info>>
  BY <1>1, <1>2 DEF FallbackInv
<1>3. CASE GetBufActiveDone
  <2>1. In(Run, "active") /\ call' = [call EXCEPT ![Run] = Done(Info(act_stat))]
        /\ stat_info' = call'[Run].buf
    BY <1>3 DEF GetBufActiveDone, GetStatInfoActive, Return
  <2>2. Run \in Threads
    BY ThreadsAssumption
  <2>3. act_stat \in Nodes /\ act_stat # TD_NULL
    BY <2>1, <2>2 DEF TypeOK
  <2>4. stat_info'.node = act_stat
    <3>1. call'[Run] = Done(Info(act_stat))
      BY <2>1, <2>2, CallChanges
    <3>2. QED
      BY <2>1, <3>1 DEF Done, Info
  <2>5. Seen > 0
    BY <2>3 DEF LatestInv
  <2>6. QED
    BY <1>1, <2>3, <2>4, <2>5
<1>4. CASE RunNext /\ ~GetBufActiveDone
  BY <1>4, <1>2
     DEF RunNext, RunGoes, user, RunEnter, RunEnableInterrupt, RunBegin, RunLoop, RunSwitchMode,
         RunGetFrameEdge, RunWoken, RunLock, RunReturnEarly, RunUnlock, RunLeave, GetBufAgain,
         GetBuf, GetBufBusy, GetBufDone, GetBufActive, PutBuf, PutBufDone
<1>5. CASE CtlNext
  <2>1. run = "use"
    BY <1>5
       DEF CtlNext, CtlGoes, MemInit, MemInfoSet, StatisticsInit, StatisticsInitDone,
           StatisticsInitMap, IspInitFail, InitGlobalInfo, ExitDisableInterrupt, StopRunThread,
           WaitRunThreadExit, ExitLock, IspExit, StatisticsExit, StatisticsExitDestroy,
           StatisticsExitFree, ResetCtx, ExitUnlock, Join
  <2>2. ctl \in Serving
    BY <2>1 DEF FInv, Mapping
  <2>3. UNCHANGED <<read, stat_info>>
    BY <1>5, <2>2
       DEF CtlNext, CtlGoes, user, Serving, MemInit, MemInfoSet, StatisticsInit, StatisticsInitDone,
           StatisticsInitMap, IspInitFail, InitGlobalInfo, ExitDisableInterrupt, StopRunThread,
           WaitRunThreadExit, ExitLock, IspExit, StatisticsExit, StatisticsExitDestroy,
           StatisticsExitFree, ResetCtx, ExitUnlock, Join
  <2>4. QED
    BY <1>2, <2>1, <2>3
<1>6. CASE InterruptEnter \/ Interrupt \/ UNCHANGED fwVars
  BY <1>6, <1>2 DEF InterruptEnter, Interrupt, user, fwVars
<1>7. CASE Crash
  BY <1>7 DEF Crash
<1>8. QED
  BY <1>3, <1>4, <1>5, <1>6, <1>7 DEF FwNext

\* The interrupt takes another buffer than the one that is used.
LEMMA OtherTaken ==
  ASSUME TypeOK, OneList, MailInv, FInv, LatestInv, FallbackInv,
         Interrupt, run = "use", ~read, data[stat_info.node] = frame - 1
  PROVE  data'[stat_info.node] = data[stat_info.node]
<1> DEFINE n == stat_info.node
           avail == free_list \o busy_list
<1>1. n \in Nodes /\ Seen > 0
  BY DEF FallbackInv
<1>2. In(Irq, "busy")
  BY DEF Interrupt, StatBufBusyPut
<1>3. Latest(n)
  BY <1>1, <1>2 DEF Latest, Seen
<1>4. init /\ user_list = {}
  BY DEF FInv, Mapping, Memory, Whole, Lending
<1>5. /\ free_list \in Seq(Nodes) /\ busy_list \in Seq(Nodes)
      /\ Elements(avail) = Nodes /\ Distinct(avail) /\ avail \in Seq(Nodes)
  BY <1>4, ConcatProperties DEF TypeOK, OneList
<1>6. 1 \in Nodes /\ 2 \in Nodes
  BY SpareAssumption, BufsAssumption DEF Nodes
<1>7. /\ Elements(avail) = Elements(free_list) \cup Elements(busy_list)
      /\ Elements(free_list) \cap Elements(busy_list) = {} /\ Distinct(free_list)
  BY <1>5, ConcatElements
<1>8. avail # <<>>
  BY <1>5, <1>6 DEF Elements
<1>9. data' = [data EXCEPT ![Head(avail)] = frame]
  BY <1>8 DEF Interrupt, StatBufBusyPut
<1>10. Head(avail) # n
  <2>1. CASE n \in Elements(free_list)
    <3>1. busy_list = <<>> /\ n = free_list[Len(free_list)]
      BY <1>3, <2>1 DEF LatestInv
    <3>2. avail = free_list
      BY <1>5, <3>1, ConcatEmptySeq
    <3>3. Len(free_list) \in Nat /\ DOMAIN free_list = 1..Len(free_list)
      BY <1>5
    <3>4. Len(free_list) # 1
      <4>1. ASSUME Len(free_list) = 1
            PROVE  FALSE
        <5>1. Elements(free_list) = {free_list[1]}
          BY <3>3, <4>1 DEF Elements
        <5>2. QED
          BY <1>5, <1>6, <3>2, <5>1
      <4>2. QED
        BY <4>1
    <3>5. Len(free_list) > 1
      BY <1>5, <1>8, <3>2, <3>3, <3>4, EmptySeq
    <3>6. free_list[1] # free_list[Len(free_list)]
      BY <1>7, <3>3, <3>5 DEF Distinct
    <3>7. Head(avail) = free_list[1]
      BY <3>2, <3>5, <1>5
    <3>8. QED
      BY <3>1, <3>6, <3>7
  <2>2. CASE n \notin Elements(free_list)
    <3>1. n \in Elements(busy_list)
      BY <1>1, <1>5, <1>7, <2>2
    <3>2. free_list # <<>>
      <4>1. ASSUME free_list = <<>>
            PROVE  FALSE
        <5>1. Elements(free_list) = {}
          BY <4>1 DEF Elements
        <5>2. Elements(busy_list) = Nodes
          BY <1>5, <1>7, <5>1
        <5>3. PICK b \in Nodes : busy_list = <<b>>
          BY <3>1 DEF MailInv, Elements
        <5>4. Elements(busy_list) = {b}
          BY <5>3, OneElement
        <5>5. QED
          BY <1>6, <5>2, <5>4
      <4>2. QED
        BY <4>1
    <3>3. Head(avail) = free_list[1] /\ free_list[1] \in Elements(free_list)
      <4>1. Len(free_list) \in Nat \ {0} /\ DOMAIN free_list = 1..Len(free_list)
        BY <1>5, <3>2, EmptySeq
      <4>2. avail[1] = free_list[1]
        BY <1>5, <4>1, ConcatProperties
      <4>3. Head(avail) = avail[1]
        BY <1>5, <1>8
      <4>4. QED
        BY <4>1, <4>2, <4>3 DEF Elements
    <3>4. QED
      BY <3>3, <2>2
  <2>3. QED
    BY <2>1, <2>2
<1>11. QED
  BY <1>1, <1>9, <1>10 DEF TypeOK

\* Statistics that are used again because there are no new ones are not
\* overwritten by the next frame, whatever exits, deaths and restarts came before:
\* there are two buffers, and the interrupt takes the other one first.
\* (isp.c:1076-1119, isp_statistics.c:92-98)
THEOREM FallbackSurvivesAlways == FwSpec => FallbackSurvives
<1> DEFINE All == TypeOK /\ OneList /\ MailInv /\ FInv /\ LatestInv /\ FallbackInv
           Survives == (Interrupt /\ run = "use" /\ ~read /\ data[stat_info.node] = frame - 1)
                         => data'[stat_info.node] = data[stat_info.node]
<1>1. FwInit => All
  <2> SUFFICES ASSUME FwInit PROVE All
    OBVIOUS
  <2>1. Init /\ run = "out"
    BY DEF FwInit
  <2>2. TypeOK /\ FInv /\ OneList /\ MailInv
    BY <2>1, FInvInit, ListInit, MailInit
  <2>3. LatestInv
    BY <2>1 DEF Init, LatestInv, Elements
  <2>4. FallbackInv
    BY <2>1 DEF FallbackInv
  <2>5. QED
    BY <2>2, <2>3, <2>4
<1>2. All /\ [FwNext]_fwVars => All'
  <2> SUFFICES ASSUME All, [FwNext]_fwVars PROVE All'
    OBVIOUS
  <2>1. stat_info \in Bufs /\ OneUser
    BY RunIsTheUser DEF FInv, Places
  <2>2. [Next]_vars
    BY <2>1, FirmwareStep
  <2>3. TypeOK' /\ FInv'
    BY FInvStep
  <2>4. OneList' /\ MailInv'
    BY <2>2, ListStep, MailStep
  <2>5. LatestInv'
    BY <2>1, <2>2, LatestStep
  <2>6. FallbackInv'
    BY FallbackStep
  <2>7. QED
    BY <2>3, <2>4, <2>5, <2>6
<1>3. All => [Survives]_fwVars
  BY OtherTaken
<1> HIDE DEF All, Survives
<1>4. FwSpec => [][Survives]_fwVars
  BY <1>1, <1>2, <1>3, PTL DEF FwSpec
<1>5. QED
  BY <1>4 DEF FallbackSurvives, Survives
=============================================================================
