------------------------------ MODULE IspStatBuf ------------------------------
(***************************************************************************)
(* The statistics buffers of one ISP pipe in the kernel (isp.c): nodes on  *)
(* a free, a busy and a user list under g_isp_lock. The interrupt of a     *)
(* frame puts the statistics it reads on the busy list; ioctls take them,  *)
(* give them back, and create and destroy the buffers.                     *)
(*                                                                         *)
(* A call tests statistics_buf.init before it takes the lock, so every     *)
(* call is two steps, and creating and destroying allocate and free the    *)
(* memory outside the lock. The order of the user list means nothing: it   *)
(* is a set.                                                               *)
(***************************************************************************)
EXTENDS Integers, Sequences

CONSTANTS
  NumBufs,  \* MAX_ISP_STAT_BUF_NUM
  Addrs,    \* where the allocator may put the memory of all the buffers
  Threads,  \* the threads of programs
  Irq,      \* the interrupt of the pipe, whose handler does not nest
  MaxFrame  \* bound on the number of interrupts

ASSUME BufsAssumption == NumBufs \in Nat \ {0} /\ MaxFrame \in Nat
ASSUME NullAssumption == 0 \notin Addrs
ASSUME IrqAssumption == Irq \notin Threads

TD_NULL == 0
Nodes == 1..NumBufs

VARIABLES
  init,      \* statistics_buf.init
  phy_addr,  \* statistics_buf.phy_addr
  node_addr, \* [Nodes -> address of the memory the node points into, or TD_NULL]
  free_list, busy_list, user_list,
  free_num, busy_num, user_num,
  act_stat,  \* the node read last, or TD_NULL
  isp_run_flag,
  live,      \* the addresses that are allocated
  data,      \* [Nodes -> the frame whose statistics are in the buffer, 0 for none]
  frame,     \* the number of the newest frame
  newest,    \* the newest frame ever handed to a user, a history variable
  call       \* [Threads and Irq -> the call it is inside]

lists == <<free_list, busy_list, user_list, free_num, busy_num, user_num>>
memory == <<init, phy_addr, node_addr, live>>
vars == <<memory, lists, act_stat, isp_run_flag, data, frame, newest, call>>

\* A call: what it does, its argument, and what it returns, a buffer or nothing
NoBuf == [addr |-> TD_NULL, node |-> TD_NULL]
Idle == [op |-> "none", buf |-> NoBuf]
Inside(op, buf) == [op |-> op, buf |-> buf]
Done(buf) == [op |-> "none", buf |-> buf]

In(t, op) == call[t].op = op
Elements(s) == {s[i] : i \in DOMAIN s}
Info(n) == [addr |-> node_addr[n], node |-> n]

Enter(t, op, buf) ==
  /\ In(t, "none")
  /\ call' = [call EXCEPT ![t] = Inside(op, buf)]

Return(t, buf) == call' = [call EXCEPT ![t] = Done(buf)]

-----------------------------------------------------------------------------
(* Creating and destroying the buffers *)

\* The memory is allocated and cleared before the lock is taken.
StatBufInitEnter(t) ==
  /\ ~init
  /\ \E a \in Addrs \ live :
       /\ Enter(t, "init", [NoBuf EXCEPT !.addr = a])
       /\ live' = live \cup {a}
  /\ UNCHANGED <<init, phy_addr, node_addr, lists, act_stat, isp_run_flag, data, frame, newest>>

StatBufInit(t) ==
  /\ In(t, "init")
  /\ phy_addr' = call[t].buf.addr
  /\ node_addr' = [n \in Nodes |-> call[t].buf.addr]
  /\ data' = [n \in Nodes |-> 0]
  /\ free_list' = [i \in 1..NumBufs |-> i] /\ busy_list' = <<>> /\ user_list' = {}
  /\ free_num' = NumBufs /\ busy_num' = 0 /\ user_num' = 0
  /\ init' = TRUE
  /\ Return(t, call[t].buf)
  /\ UNCHANGED <<act_stat, isp_run_flag, live, frame, newest>>

StatBufExitEnter(t) ==
  /\ ~isp_run_flag /\ init
  /\ Enter(t, "exit", NoBuf)
  /\ UNCHANGED <<memory, lists, act_stat, isp_run_flag, data, frame, newest>>

\* Mutant: the lists keep their nodes.
StatBufExit_lists(t) ==
  /\ In(t, "exit")
  /\ phy_addr' = TD_NULL
  /\ node_addr' = [n \in Nodes |-> IF n \in {1, 2} THEN TD_NULL ELSE node_addr[n]]
  /\ init' = FALSE
  /\ call' = [call EXCEPT ![t] = Inside("free", [NoBuf EXCEPT !.addr = phy_addr])]
  /\ UNCHANGED <<lists, act_stat, isp_run_flag, data, live, frame, newest>>

\* Only the first two nodes forget their addresses, and act_stat stays; the
\* counts stay as well.
StatBufExit(t) ==
  /\ In(t, "exit")
  /\ phy_addr' = TD_NULL
  /\ node_addr' = [n \in Nodes |-> IF n \in {1, 2} THEN TD_NULL ELSE node_addr[n]]
  /\ free_list' = <<>> /\ busy_list' = <<>> /\ user_list' = {}
  /\ init' = FALSE
  /\ call' = [call EXCEPT ![t] = Inside("free", [NoBuf EXCEPT !.addr = phy_addr])]
  /\ UNCHANGED <<free_num, busy_num, user_num, act_stat, isp_run_flag, data, live, frame, newest>>

\* The memory is freed after the lock is given back, if there was any.
StatBufFree(t) ==
  /\ In(t, "free")
  /\ live' = live \ {call[t].buf.addr}
  /\ Return(t, NoBuf)
  /\ UNCHANGED <<init, phy_addr, node_addr, lists, act_stat, isp_run_flag, data, frame, newest>>

SetIspRunState(flag) ==
  /\ isp_run_flag' = flag
  /\ UNCHANGED <<memory, lists, act_stat, data, frame, newest, call>>

-----------------------------------------------------------------------------
(* The user's calls *)

StatBufUserGetEnter(t) ==
  /\ init
  /\ Enter(t, "get", NoBuf)
  /\ UNCHANGED <<memory, lists, act_stat, isp_run_flag, data, frame, newest>>

\* Mutant: the node is left on the busy list.
StatBufUserGet_left(t) ==
  /\ In(t, "get")
  /\ IF busy_list = <<>>
     THEN Return(t, NoBuf) /\ UNCHANGED <<lists, newest>>
     ELSE /\ user_list' = user_list \cup {Head(busy_list)}
          /\ user_num' = user_num + 1
          /\ newest' = data[Head(busy_list)]
          /\ call' = [call EXCEPT ![t] = Inside("copy", Info(Head(busy_list)))]
          /\ UNCHANGED <<free_list, free_num, busy_list, busy_num>>
  /\ UNCHANGED <<memory, act_stat, isp_run_flag, data, frame>>

StatBufUserGet(t) ==
  /\ In(t, "get")
  /\ IF busy_list = <<>>
     THEN Return(t, NoBuf) /\ UNCHANGED <<lists, newest>>
     ELSE /\ busy_list' = Tail(busy_list) /\ busy_num' = busy_num - 1
          /\ user_list' = user_list \cup {Head(busy_list)}
          /\ user_num' = user_num + 1
          /\ newest' = data[Head(busy_list)]
          /\ call' = [call EXCEPT ![t] = Inside("copy", Info(Head(busy_list)))]
          /\ UNCHANGED <<free_list, free_num>>
  /\ UNCHANGED <<memory, act_stat, isp_run_flag, data, frame>>

\* The node is copied to the caller after the lock is given back.
StatBufUserCopy(t) ==
  /\ In(t, "copy")
  /\ Return(t, Info(call[t].buf.node))
  /\ UNCHANGED <<memory, lists, act_stat, isp_run_flag, data, frame, newest>>

StatBufUserPutEnter(t, buf) ==
  /\ init
  /\ Enter(t, "put", buf)
  /\ UNCHANGED <<memory, lists, act_stat, isp_run_flag, data, frame, newest>>

\* Mutant: the node goes to the head of the free list.
StatBufUserPut_head(t) ==
  /\ In(t, "put")
  /\ IF call[t].buf \in {Info(n) : n \in user_list}
     THEN /\ user_list' = user_list \ {call[t].buf.node} /\ user_num' = user_num - 1
          /\ free_list' = <<call[t].buf.node>> \o free_list /\ free_num' = free_num + 1
          /\ UNCHANGED <<busy_list, busy_num>>
     ELSE UNCHANGED lists
  /\ Return(t, NoBuf)
  /\ UNCHANGED <<memory, act_stat, isp_run_flag, data, frame, newest>>

\* The node is found by its address on the user list.
StatBufUserPut(t) ==
  /\ In(t, "put")
  /\ IF call[t].buf \in {Info(n) : n \in user_list}
     THEN /\ user_list' = user_list \ {call[t].buf.node} /\ user_num' = user_num - 1
          /\ free_list' = Append(free_list, call[t].buf.node) /\ free_num' = free_num + 1
          /\ UNCHANGED <<busy_list, busy_num>>
     ELSE UNCHANGED lists
  /\ Return(t, NoBuf)
  /\ UNCHANGED <<memory, act_stat, isp_run_flag, data, frame, newest>>

\* This call looks at act_stat, not at init.
GetStatInfoActiveEnter(t) ==
  /\ act_stat # TD_NULL
  /\ Enter(t, "active", NoBuf)
  /\ UNCHANGED <<memory, lists, act_stat, isp_run_flag, data, frame, newest>>

GetStatInfoActive(t) ==
  /\ In(t, "active")
  /\ Return(t, Info(act_stat))
  /\ UNCHANGED <<memory, lists, act_stat, isp_run_flag, data, frame, newest>>

-----------------------------------------------------------------------------
(* The interrupt of a frame *)

StatBufBusyPutEnter ==
  /\ frame < MaxFrame /\ frame' = frame + 1
  /\ IF init THEN Enter(Irq, "busy", NoBuf) ELSE In(Irq, "none") /\ UNCHANGED call
  /\ UNCHANGED <<memory, lists, act_stat, isp_run_flag, data, newest>>

\* Mutant: the statistics nobody has taken stay on the busy list.
StatBufBusyPut_old ==
  /\ In(Irq, "busy")
  /\ IF free_list = <<>>
     THEN UNCHANGED <<lists, act_stat, data>>
     ELSE LET node == Head(free_list) IN
          /\ free_list' = Tail(free_list) /\ busy_list' = Append(busy_list, node)
          /\ free_num' = free_num - 1 /\ busy_num' = busy_num + 1
          /\ act_stat' = node
          /\ data' = [data EXCEPT ![node] = frame]
          /\ UNCHANGED <<user_list, user_num>>
  /\ Return(Irq, NoBuf)
  /\ UNCHANGED <<memory, isp_run_flag, frame, newest>>

\* The statistics nobody has taken make room for the ones of this frame.
StatBufBusyPut ==
  /\ In(Irq, "busy")
  /\ LET avail == free_list \o busy_list IN
     IF avail = <<>>
     THEN UNCHANGED <<lists, act_stat, data>>
     ELSE /\ free_list' = Tail(avail) /\ busy_list' = <<Head(avail)>>
          /\ free_num' = free_num + Len(busy_list) - 1
          /\ busy_num' = busy_num - Len(busy_list) + 1
          /\ act_stat' = Head(avail)
          /\ data' = [data EXCEPT ![Head(avail)] = frame]
          /\ UNCHANGED <<user_list, user_num>>
  /\ Return(Irq, NoBuf)
  /\ UNCHANGED <<memory, isp_run_flag, frame, newest>>

-----------------------------------------------------------------------------
Init ==
  /\ init = FALSE /\ phy_addr = TD_NULL /\ live = {}
  /\ node_addr = [n \in Nodes |-> TD_NULL]
  /\ free_list = <<>> /\ busy_list = <<>> /\ user_list = {}
  /\ free_num = 0 /\ busy_num = 0 /\ user_num = 0
  /\ act_stat = TD_NULL
  /\ isp_run_flag = FALSE
  /\ data = [n \in Nodes |-> 0]
  /\ frame = 0 /\ newest = 0
  /\ call = [t \in Threads \cup {Irq} |-> Idle]

Ops == {"none", "init", "exit", "free", "get", "copy", "put", "active", "busy"}
Bufs == [addr : Addrs \cup {TD_NULL}, node : Nodes \cup {TD_NULL}]

\* Any thread makes any call at any time.
Next ==
  \/ \E t \in Threads :
       \/ StatBufInitEnter(t) \/ StatBufInit(t)
       \/ StatBufExitEnter(t) \/ StatBufExit(t) \/ StatBufFree(t)
       \/ StatBufUserGetEnter(t) \/ StatBufUserGet(t) \/ StatBufUserCopy(t)
       \/ (\E buf \in Bufs : StatBufUserPutEnter(t, buf)) \/ StatBufUserPut(t)
       \/ GetStatInfoActiveEnter(t) \/ GetStatInfoActive(t)
  \/ StatBufBusyPutEnter \/ StatBufBusyPut
  \/ \E flag \in BOOLEAN : SetIspRunState(flag)

Spec == Init /\ [][Next]_vars

-----------------------------------------------------------------------------
(* Correctness *)

TypeOK ==
  /\ init \in BOOLEAN /\ isp_run_flag \in BOOLEAN
  /\ phy_addr \in Addrs \cup {TD_NULL} /\ live \subseteq Addrs
  /\ node_addr \in [Nodes -> Addrs \cup {TD_NULL}]
  /\ free_list \in Seq(Nodes) /\ busy_list \in Seq(Nodes) /\ user_list \subseteq Nodes
  /\ free_num \in Int /\ busy_num \in Int /\ user_num \in Int
  /\ act_stat \in Nodes \cup {TD_NULL}
  /\ data \in [Nodes -> 0..MaxFrame]
  /\ frame \in 0..MaxFrame /\ newest \in 0..MaxFrame
  /\ call \in [Threads \cup {Irq} -> [op : Ops, buf : Bufs]]
  /\ \A t \in Threads : /\ In(t, "copy") => call[t].buf.node # TD_NULL
                        /\ In(t, "active") => act_stat # TD_NULL

Distinct(s) == \A i, j \in DOMAIN s : i # j => s[i] # s[j]

\* Whatever calls and interrupts meet, a node is on exactly one list while
\* the buffers exist and on none otherwise, and the counters, which the proc
\* file shows, are the lengths of the lists. (isp.c:763-959, 1061-1120)
OneList ==
  /\ Distinct(free_list \o busy_list)
  /\ Elements(free_list \o busy_list) \cap user_list = {}
  /\ Elements(free_list \o busy_list) \cup user_list = IF init THEN Nodes ELSE {}
  /\ init => /\ free_num = Len(free_list) /\ busy_num = Len(busy_list)
             /\ free_num + busy_num + user_num = NumBufs

\* What the interrupt may write to is allocated memory: an interrupt that
\* tested init before the buffers were destroyed finds no node.
WrittenIsAllocated == \A n \in Elements(free_list \o busy_list) : node_addr[n] \in live

\* The lists are a mailbox for the newest frame, whatever calls meet.
Mailbox == INSTANCE StatMailbox WITH
  Frames <- 1..MaxFrame,
  slot <- IF busy_list = <<>> THEN 0 ELSE data[Head(busy_list)],
  lent <- {data[n] : n \in user_list},
  last <- newest
MailboxSpec == Mailbox!Spec
=============================================================================
