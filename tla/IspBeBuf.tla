------------------------------- MODULE IspBeBuf -------------------------------
(***************************************************************************)
(* The configuration buffers of the ISP back end of one offline pipe       *)
(* (isp.c, isp_list.c, isp_ext.c) and their three users. The interrupt of  *)
(* a frame sets a free buffer aside as use_node; the firmware              *)
(* (isp_regcfg.c, isp_main.c) writes a configuration into it and publishes *)
(* it on the busy list; the video input, which is not part of this         *)
(* repository, gets the newest one for a frame, may hold it once more, and *)
(* gives it back.                                                          *)
(*                                                                         *)
(* All lists change under g_isp_lock, but the interrupt looks at init and  *)
(* use_node before it takes the lock. The firmware runs its calls one      *)
(* after the other, which IspFirmware shows; its process may die.          *)
(***************************************************************************)
EXTENDS Integers, Sequences, FiniteSets, SequencesExt

CONSTANTS
  NumBufs, \* g_be_buf_num
  Configs, \* configurations, more than there are buffers
  Zero,    \* what is in memory that was just allocated
  MaxHold, \* bound on the buffers the consumer has at one time
  MaxCrash \* bound on the number of processes that die

ASSUME BufsAssumption == NumBufs \in Nat /\ NumBufs >= 2
ASSUME ConfigsAssumption ==
  /\ Zero \notin Configs /\ 0 \notin Configs \cup {Zero}
  /\ IsFiniteSet(Configs) => Cardinality(Configs) > NumBufs
ASSUME BoundsAssumption == MaxHold \in Nat /\ MaxCrash \in Nat

TD_NULL == 0
Freed == -1 \* a pointer to a node of a queue that was destroyed
Nodes == 1..NumBufs
Blocks == 1..NumBufs

VARIABLES
  init,       \* be_buf_info.init
  block,      \* [Nodes -> the part of the memory the node points to, or TD_NULL]
  free_list, busy_list,
  use_node,   \* the node set aside, TD_NULL or Freed
  hold_cnt,   \* [Nodes -> how often the consumer has the node]
  use_cnt,    \* be_buf_info.use_cnt: how many buffers the consumer has
  exit_state, \* "EXIT", "READY" or "WAITING"
  run_once_flag, mem_init, int_enable,
  content,    \* [Blocks -> what is in the memory]
  irq,        \* the interrupt: "none" or "take", when it has found use_node empty
  pc,         \* where the firmware is
  buf,        \* be_wo_cfg_buf: the block the firmware writes to
  run_thread_status, \* "EXIT", "RUN" or "ONCE", RUN for ot_mpi_isp_run_once
  holds,      \* the blocks the consumer has to give back
  lost,       \* the nodes that were overwritten in use_node, a history variable
  switched,   \* the image mode has been changed, a history variable
  recalled, uncounted, \* history variables, see GetBeLastBuf and HoldBusyBeBuf
  crashes     \* the number of processes that died

queue == <<free_list, busy_list, use_node, hold_cnt>>
kernel == <<init, block, queue, use_cnt, exit_state, run_once_flag, mem_init, int_enable>>
user == <<pc, buf, run_thread_status>>
consumer == <<holds, recalled, uncounted>>
history == <<lost, switched, crashes>>
vars == <<kernel, content, irq, user, consumer, history>>

Held(n) == hold_cnt[n] > 0
Goes(from, to) == pc = from /\ pc' = to

\* The nodes of a list that are in S, in the order of the list.
Only(list, S) ==
  LET at == {i \in DOMAIN list : list[i] \in S}
      Rank(i) == Cardinality({j \in at : j <= i})
  IN  [k \in 1..Cardinality(at) |-> list[CHOOSE i \in at : Rank(i) = k]]

Get(list) == IF list = <<>> THEN TD_NULL ELSE Head(list)
Rest(list) == IF list = <<>> THEN <<>> ELSE Tail(list)

\* A node that is overwritten in use_node is on no list any more.
SetUseNode(n) ==
  /\ use_node' = n
  /\ lost' = lost \cup ({use_node} \cap Nodes)

-----------------------------------------------------------------------------
(* Creating the buffers *)

\* What a dead process left is taken down first.
MemInit ==
  /\ irq = "none"
  /\ IF mem_init
     THEN Goes("down", "exit") /\ UNCHANGED mem_init
     ELSE Goes("down", "mem") /\ mem_init' = TRUE
  /\ UNCHANGED <<init, block, queue, use_cnt, exit_state, run_once_flag, int_enable>>
  /\ UNCHANGED <<content, irq, buf, run_thread_status, consumer, history>>

\* The buffers count as initialised before there is a queue. If they are
\* already, the application is told to exit the ISP.
BeBufMalloc ==
  /\ IF init
     THEN Goes("mem", "exit") /\ UNCHANGED <<init, content>>
     ELSE Goes("mem", "malloc") /\ init' = TRUE /\ content' = [b \in Blocks |-> Zero]
  /\ UNCHANGED <<block, queue, use_cnt, exit_state, run_once_flag, mem_init, int_enable>>
  /\ UNCHANGED <<irq, buf, run_thread_status, consumer, history>>

CreatBeBufQueue ==
  /\ \/ /\ Goes("malloc", "queue")
        /\ free_list' = [i \in Nodes |-> i] /\ busy_list' = <<>>
        /\ block' = [n \in Nodes |-> TD_NULL]
        /\ hold_cnt' = [n \in Nodes |-> 0]
        /\ lost' = {} /\ switched' = FALSE
        /\ UNCHANGED init
     \/ /\ Goes("malloc", "mem")
        /\ init' = FALSE
        /\ UNCHANGED <<free_list, busy_list, block, hold_cnt, lost, switched>>
  /\ UNCHANGED <<use_node, use_cnt, exit_state, run_once_flag, mem_init, int_enable>>
  /\ UNCHANGED <<content, irq, buf, run_thread_status, consumer, crashes>>

\* Takes a node from the head, gives it the next block and puts it back at the
\* tail, NumBufs times: if the interrupt took one, some get a block twice.
BeBufInit ==
  /\ Goes("queue", "made")
  /\ LET L == Len(free_list) IN
     /\ block' = [n \in Nodes |->
          IF n \in Range(free_list)
          THEN CHOOSE b \in Blocks : /\ free_list[((b - 1) % L) + 1] = n
                                     /\ b + L > NumBufs
          ELSE block[n]]
     /\ free_list' = [i \in 1..L |-> free_list[((i - 1 + NumBufs) % L) + 1]]
  /\ SetUseNode(TD_NULL)
  /\ exit_state' = "READY"
  /\ UNCHANGED <<init, busy_list, hold_cnt, use_cnt, run_once_flag, mem_init, int_enable>>
  /\ UNCHANGED <<content, irq, buf, run_thread_status, consumer, switched, crashes>>

\* The firmware's first buffer is taken without a look at use_node.
GetBeBufFirst ==
  /\ IF free_list = <<>>
     THEN Goes("made", "undo") /\ UNCHANGED <<free_list, use_node, lost, buf>>
     ELSE /\ Goes("made", "first")
          /\ SetUseNode(Head(free_list)) /\ free_list' = Tail(free_list)
          /\ buf' = block[Head(free_list)]
  /\ UNCHANGED <<init, block, busy_list, hold_cnt, use_cnt, exit_state, run_once_flag>>
  /\ UNCHANGED <<mem_init, int_enable, content, irq, run_thread_status, consumer, switched, crashes>>

\* Something fails in isp_init after the buffers are there.
IspInitFail ==
  /\ pc \in {"made", "first", "written"} /\ pc' = "undo"
  /\ UNCHANGED <<kernel, content, irq, buf, run_thread_status, consumer, history>>

\* The firmware writes a new configuration into its buffer.
Write ==
  /\ Goes("first", "written") \/ Goes("got", "ctl") \/ Goes("last", "switched")
  /\ content' = [content EXCEPT ![buf] = CHOOSE c \in Configs : c \notin Range(content)]
  /\ UNCHANGED <<kernel, irq, buf, run_thread_status, consumer, history>>

\* The configuration set aside is copied to all free buffers and published.
\* It fails if the buffer has been lost to another one, or taken away.
AllBeBufInit ==
  /\ IF use_node = TD_NULL
     THEN /\ Goes("written", "undo") \/ Goes("switched", "up")
          /\ UNCHANGED <<content, busy_list, use_node>>
     ELSE /\ Goes("written", "up") \/ Goes("switched", "up")
          /\ content' = [b \in Blocks |->
               IF \E n \in Range(free_list) : block[n] = b THEN content[block[use_node]]
               ELSE content[b]]
          /\ busy_list' = Append(busy_list, use_node)
          /\ use_node' = TD_NULL
  /\ UNCHANGED <<init, block, free_list, hold_cnt, use_cnt, exit_state, run_once_flag>>
  /\ UNCHANGED <<mem_init, int_enable, irq, buf, run_thread_status, consumer, history>>

-----------------------------------------------------------------------------
(* Running *)

\* Mutant: the buffers the consumer has become free as well.
PutBusy_held ==
  /\ free_list' = free_list \o busy_list
  /\ busy_list' = <<use_node>>
  /\ use_node' = TD_NULL

\* Mutant: the buffer published is still set aside.
PutBusy_keep ==
  /\ free_list' = free_list \o Only(busy_list, {n \in Nodes : ~Held(n)})
  /\ busy_list' = Append(Only(busy_list, {n \in Nodes : Held(n)}), use_node)
  /\ UNCHANGED use_node

\* The published buffers nobody has become free; the one set aside is published.
PutBusy ==
  /\ free_list' = free_list \o Only(busy_list, {n \in Nodes : ~Held(n)})
  /\ busy_list' = Append(Only(busy_list, {n \in Nodes : Held(n)}), use_node)
  /\ use_node' = TD_NULL

EnableInterrupt ==
  /\ pc = "up" /\ run_thread_status = "EXIT"
  /\ run_thread_status' = "RUN" /\ int_enable' = TRUE
  /\ UNCHANGED <<init, block, queue, use_cnt, exit_state, run_once_flag, mem_init>>
  /\ UNCHANGED <<content, irq, pc, buf, consumer, history>>

\* ot_mpi_isp_run_once, which takes what the interrupt takes otherwise. If a
\* buffer is set aside or none is free, it fails and takes the flag back.
OptRunOnceInfo ==
  /\ pc = "up" /\ run_thread_status = "EXIT"
  /\ \/ /\ use_node = TD_NULL /\ free_list # <<>>
        /\ use_node' = Head(free_list) /\ free_list' = Tail(free_list)
        /\ run_once_flag' = TRUE /\ run_thread_status' = "ONCE" /\ pc' = "once"
     \/ /\ use_node # TD_NULL \/ free_list = <<>>
        /\ run_once_flag' = FALSE
        /\ UNCHANGED <<use_node, free_list, run_thread_status, pc>>
  /\ UNCHANGED <<init, block, busy_list, hold_cnt, use_cnt, exit_state, mem_init, int_enable>>
  /\ UNCHANGED <<content, irq, buf, consumer, history>>

\* Mutant: isp_run goes on with the buffer of the last frame.
GetBeFreeBuf_old ==
  /\ Goes("once", "got") \/ (Goes("up", "got") /\ run_thread_status = "RUN")
  /\ buf' = IF use_node = TD_NULL THEN buf ELSE block[use_node]
  /\ UNCHANGED <<kernel, content, irq, run_thread_status, consumer, history>>

\* isp_run begins if the interrupt has set a buffer aside.
GetBeFreeBuf ==
  /\ Goes("once", "got") \/ (Goes("up", "got") /\ run_thread_status = "RUN")
  /\ use_node # TD_NULL
  /\ buf' = block[use_node]
  /\ UNCHANGED <<kernel, content, irq, run_thread_status, consumer, history>>

AfterRun == IF run_thread_status = "ONCE" THEN "end" ELSE "up"

\* isp_run returns early at many places.
IspRunReturn ==
  /\ Goes("got", AfterRun) \/ Goes("ctl", AfterRun)
  /\ UNCHANGED <<kernel, content, irq, buf, run_thread_status, consumer, history>>

BeBufCtl ==
  /\ Goes("ctl", AfterRun)
  /\ IF ~run_once_flag /\ use_node # TD_NULL
     THEN PutBusy
     ELSE UNCHANGED <<free_list, busy_list, use_node>>
  /\ UNCHANGED <<init, block, hold_cnt, use_cnt, exit_state, run_once_flag, mem_init>>
  /\ UNCHANGED <<int_enable, content, irq, buf, run_thread_status, consumer, history>>

RunOnceProcess ==
  /\ Goes("end", "up") /\ run_thread_status' = "EXIT"
  /\ IF use_node # TD_NULL THEN PutBusy ELSE UNCHANGED <<free_list, busy_list, use_node>>
  /\ UNCHANGED <<init, block, hold_cnt, use_cnt, exit_state, run_once_flag, mem_init>>
  /\ UNCHANGED <<int_enable, content, irq, buf, consumer, history>>

\* A change of the image mode takes all published buffers away, those the
\* consumer has as well, and goes on from the newest one.
GetBeLastBuf ==
  /\ pc = "up"
  /\ hold_cnt' = [n \in Nodes |-> IF n \in Range(busy_list) THEN 0 ELSE hold_cnt[n]]
  /\ busy_list' = <<>>
  /\ LET all == free_list \o busy_list IN
     IF use_node # TD_NULL
     THEN free_list' = all /\ UNCHANGED use_node /\ buf' = block[use_node] /\ pc' = "last"
     ELSE IF all = <<>>
     THEN free_list' = all /\ UNCHANGED <<use_node, buf, pc>>
     ELSE /\ use_node' = Last(all) /\ free_list' = Front(all)
          /\ buf' = block[Last(all)] /\ pc' = "last"
  /\ switched' = TRUE
  /\ recalled' = (recalled \/ holds # <<>>)
  /\ UNCHANGED <<init, block, use_cnt, exit_state, run_once_flag, mem_init, int_enable>>
  /\ UNCHANGED <<content, irq, run_thread_status, holds, uncounted, lost, crashes>>

SwitchFail ==
  /\ Goes("last", "up") \/ Goes("switched", "up")
  /\ UNCHANGED <<kernel, content, irq, buf, run_thread_status, consumer, history>>

-----------------------------------------------------------------------------
(* Destroying the buffers *)

IspExit ==
  /\ Goes("up", "exit")
  /\ int_enable' = FALSE /\ run_thread_status' = "EXIT"
  /\ UNCHANGED <<init, block, queue, use_cnt, exit_state, run_once_flag, mem_init>>
  /\ UNCHANGED <<content, irq, buf, consumer, history>>

BeBufExitWait ==
  /\ IF init
     THEN /\ Goes("exit", "exit wait") \/ Goes("undo", "undo wait")
          /\ exit_state' = "WAITING"
     ELSE (Goes("exit", "reset") \/ Goes("undo", "mem")) /\ UNCHANGED exit_state
  /\ UNCHANGED <<init, block, queue, use_cnt, run_once_flag, mem_init, int_enable>>
  /\ UNCHANGED <<content, irq, buf, run_thread_status, consumer, history>>

\* The wait ends when the consumer has no buffer, or fails after two seconds;
\* then the buffers stay, and stay refused. The nodes go with the queue.
BeBufExit ==
  /\ Goes("exit wait", "reset") \/ Goes("undo wait", "mem")
  /\ IF use_cnt = 0
     THEN /\ free_list' = <<>> /\ busy_list' = <<>>
          /\ use_node' = IF use_node = TD_NULL THEN TD_NULL ELSE Freed
          /\ hold_cnt' = [n \in Nodes |-> 0]
          /\ init' = FALSE /\ exit_state' = "EXIT"
     ELSE UNCHANGED <<queue, init, exit_state>>
  /\ UNCHANGED <<block, use_cnt, run_once_flag, mem_init, int_enable>>
  /\ UNCHANGED <<content, irq, buf, run_thread_status, consumer, history>>

ResetCtx ==
  /\ Goes("reset", "down")
  /\ mem_init' = FALSE /\ run_once_flag' = FALSE
  /\ UNCHANGED <<init, block, queue, use_cnt, exit_state, int_enable>>
  /\ UNCHANGED <<content, irq, buf, run_thread_status, consumer, history>>

-----------------------------------------------------------------------------
(* The interrupt of a frame *)

\* Mutant: the interrupt does not look at use_node.
IrqTest_any ==
  /\ irq = "none" /\ int_enable /\ mem_init /\ init
  /\ irq' = "take"
  /\ UNCHANGED <<kernel, content, user, consumer, history>>

IrqTest ==
  /\ irq = "none" /\ int_enable /\ mem_init /\ init /\ use_node = TD_NULL
  /\ irq' = "take"
  /\ UNCHANGED <<kernel, content, user, consumer, history>>

IrqTake ==
  /\ irq = "take" /\ irq' = "none"
  /\ SetUseNode(Get(free_list)) /\ free_list' = Rest(free_list)
  /\ UNCHANGED <<init, block, busy_list, hold_cnt, use_cnt, exit_state, run_once_flag>>
  /\ UNCHANGED <<mem_init, int_enable, content, user, consumer, switched, crashes>>

-----------------------------------------------------------------------------
(* The consumer, which makes these calls of the exported functions *)

GetReadyBeBuf ==
  /\ Len(holds) < MaxHold
  /\ exit_state = "READY" /\ busy_list # <<>>
  /\ hold_cnt' = [hold_cnt EXCEPT ![Last(busy_list)] = @ + 1]
  /\ use_cnt' = use_cnt + 1
  /\ holds' = Append(holds, block[Last(busy_list)])
  /\ UNCHANGED <<init, block, free_list, busy_list, use_node, exit_state, run_once_flag>>
  /\ UNCHANGED <<mem_init, int_enable, content, irq, user, recalled, uncounted, history>>

Busy(b) == {n \in Range(busy_list) : block[n] = b}

\* Nothing is counted for a buffer that was taken away.
HoldBusyBeBuf ==
  /\ Len(holds) < MaxHold
  /\ exit_state # "EXIT"
  /\ \E b \in Range(holds) :
       /\ hold_cnt' = [n \in Nodes |-> IF n \in Busy(b) THEN hold_cnt[n] + 1 ELSE hold_cnt[n]]
       /\ use_cnt' = use_cnt + Cardinality(Busy(b))
       /\ holds' = Append(holds, b)
       /\ uncounted' = (uncounted \/ Busy(b) = {})
  /\ UNCHANGED <<init, block, free_list, busy_list, use_node, exit_state, run_once_flag>>
  /\ UNCHANGED <<mem_init, int_enable, content, irq, user, recalled, history>>

\* Mutant: two published buffers are kept.
PutBusyToFree_two(b) ==
  LET done == {n \in Busy(b) : hold_cnt[n] <= 1 /\ Len(busy_list) > 2} IN
  /\ hold_cnt' = [n \in Nodes |-> IF n \in Busy(b) /\ Held(n) THEN hold_cnt[n] - 1 ELSE hold_cnt[n]]
  /\ busy_list' = Only(busy_list, Nodes \ done)
  /\ free_list' = free_list \o SetToSeq(done)

\* A buffer nobody has any more becomes free, unless it is the only one.
PutBusyToFree(b) ==
  LET done == {n \in Busy(b) : hold_cnt[n] <= 1 /\ Len(busy_list) > 1} IN
  /\ hold_cnt' = [n \in Nodes |-> IF n \in Busy(b) /\ Held(n) THEN hold_cnt[n] - 1 ELSE hold_cnt[n]]
  /\ busy_list' = Only(busy_list, Nodes \ done)
  /\ free_list' = free_list \o SetToSeq(done)

UseCntDown == IF use_cnt > 0 THEN use_cnt - 1 ELSE 0

\* Mutant: nothing is taken back while an exit waits for it.
PutRefused_waiting == exit_state \in {"EXIT", "WAITING"}

PutRefused == exit_state = "EXIT"

PutFreeBeBuf ==
  \E i \in DOMAIN holds :
    /\ holds' = RemoveAt(holds, i)
    /\ IF PutRefused
       THEN UNCHANGED <<free_list, busy_list, hold_cnt, use_cnt>>
       ELSE /\ PutBusyToFree(holds[i])
            /\ use_cnt' = UseCntDown
    /\ recalled' = (recalled /\ Len(holds) > 1)
    /\ uncounted' = (uncounted /\ Len(holds) > 1)
    /\ UNCHANGED <<init, block, use_node, exit_state, run_once_flag, mem_init, int_enable>>
    /\ UNCHANGED <<content, irq, user, history>>

-----------------------------------------------------------------------------
Crash ==
  /\ pc \notin {"malloc", "queue"}
  /\ crashes < MaxCrash /\ crashes' = crashes + 1
  /\ pc' = "down" /\ buf' = TD_NULL /\ run_thread_status' = "EXIT"
  /\ UNCHANGED <<kernel, content, irq, consumer, lost, switched>>

Init ==
  /\ init = FALSE
  /\ block = [n \in Nodes |-> TD_NULL]
  /\ free_list = <<>> /\ busy_list = <<>> /\ use_node = TD_NULL
  /\ hold_cnt = [n \in Nodes |-> 0] /\ use_cnt = 0
  /\ exit_state = "EXIT"
  /\ run_once_flag = FALSE /\ mem_init = FALSE /\ int_enable = FALSE
  /\ content = [b \in Blocks |-> Zero]
  /\ irq = "none"
  /\ pc = "down" /\ buf = TD_NULL /\ run_thread_status = "EXIT"
  /\ holds = <<>> /\ recalled = FALSE /\ uncounted = FALSE
  /\ lost = {} /\ switched = FALSE /\ crashes = 0

Firmware ==
  \/ MemInit \/ BeBufMalloc \/ CreatBeBufQueue \/ BeBufInit \/ GetBeBufFirst \/ IspInitFail
  \/ Write \/ AllBeBufInit
  \/ EnableInterrupt \/ OptRunOnceInfo \/ GetBeFreeBuf \/ IspRunReturn \/ BeBufCtl
  \/ RunOnceProcess \/ GetBeLastBuf \/ SwitchFail
  \/ IspExit \/ BeBufExitWait \/ BeBufExit \/ ResetCtx

Consumer == GetReadyBeBuf \/ HoldBusyBeBuf \/ PutFreeBeBuf

Next == Firmware \/ IrqTest \/ IrqTake \/ Consumer \/ Crash

\* The interrupt's handler runs to its end, the consumer does not keep a buffer
\* for ever, and an application that is told to exit the ISP does so.
Fairness ==
  /\ WF_vars(Firmware)
  /\ WF_vars(IrqTake)
  /\ WF_vars(PutFreeBeBuf) /\ SF_vars(PutFreeBeBuf /\ Len(holds) = 1)

Spec == Init /\ [][Next]_vars /\ Fairness
-----------------------------------------------------------------------------
(* Correctness *)

TypeOK ==
  /\ init \in BOOLEAN
  /\ block \in [Nodes -> Blocks \cup {TD_NULL}]
  /\ free_list \in Seq(Nodes) /\ busy_list \in Seq(Nodes)
  /\ use_node \in Nodes \cup {TD_NULL, Freed}
  /\ hold_cnt \in [Nodes -> 0..MaxHold] /\ use_cnt \in 0..MaxHold
  /\ exit_state \in {"EXIT", "READY", "WAITING"}
  /\ run_once_flag \in BOOLEAN /\ mem_init \in BOOLEAN /\ int_enable \in BOOLEAN
  /\ content \in [Blocks -> Configs \cup {Zero}]
  /\ irq \in {"none", "take"}
  /\ pc \in {"down", "mem", "malloc", "queue", "made", "first", "written", "up", "once", "got",
             "ctl", "end", "last", "switched", "exit", "exit wait", "undo", "undo wait", "reset"}
  /\ buf \in Blocks \cup {TD_NULL}
  /\ run_thread_status \in {"EXIT", "RUN", "ONCE"}
  /\ holds \in Seq(Blocks) /\ Len(holds) <= MaxHold
  /\ recalled \in BOOLEAN /\ uncounted \in BOOLEAN
  /\ lost \subseteq Nodes /\ switched \in BOOLEAN /\ crashes \in 0..MaxCrash

\* While there is a queue, a node is in exactly one place: on one of the lists,
\* set aside, or lost; and the nodes on the lists have blocks of their own.
\* (isp.c:1731-1793, 3982-4017, 4442-4665, isp_ext.c:187-340)
OnePlace ==
  LET listed == free_list \o busy_list IN
  (init /\ pc # "malloc") =>
    /\ \A n \in Nodes :
         Cardinality({i \in DOMAIN listed : listed[i] = n}) + (IF use_node = n THEN 1 ELSE 0)
           + (IF n \in lost THEN 1 ELSE 0) = 1
    /\ pc # "queue" => \A i, j \in DOMAIN listed :
                         block[listed[i]] # TD_NULL
                         /\ (block[listed[i]] = block[listed[j]] => i = j)

\* A process that does not follow a dead one loses no buffer, and publishes none
\* it has not written, as long as the image mode is not changed: the interrupt,
\* which looks at use_node before it takes the lock, is the only one to fill it
\* then. (isp.c:6692-6731, 4473-4503)
NothingLost ==
  (lost # {} \/ \E n \in Range(busy_list) : content[block[n]] = Zero)
    => (switched \/ crashes > 0)

\* What the kernel counts is what the consumer has, unless a change of the image
\* mode took buffers away from under it; and the memory is there as long as the
\* consumer has a part of it. (isp_ext.c:187-340, isp.c:1795-1845, 4505-4560)
Accounting ==
  LET Count(b) == Cardinality({i \in DOMAIN holds : holds[i] = b}) IN
  /\ (holds # <<>> /\ ~uncounted) => init
  /\ init =>
       /\ ~uncounted => use_cnt = Len(holds)
       /\ ~recalled => \A n \in Range(free_list \o busy_list) :
                        hold_cnt[n] = IF n \in Range(busy_list) THEN Count(block[n]) ELSE 0

\* The interrupt finds no buffer only if all but one that are left are with the
\* consumer. (isp.c:3982-4017, isp_ext.c:234-260)
NotStarved ==
  (pc = "up" /\ use_node = TD_NULL /\ free_list = <<>>)
    => Cardinality({n \in Range(busy_list) : Held(n)}) >= NumBufs - 1 - Cardinality(lost)

\* The firmware writes where the consumer does not read: into the buffer set
\* aside for it, or into one that has been lost. (isp_regcfg.c:727-795)
WritesOwnBuffer ==
  (pc \in {"first", "got", "last"}) =>
    /\ buf \in Blocks
    /\ \A n \in Range(busy_list) : block[n] # buf

\* The configuration published last, and those the consumer holds.
Newest == IF busy_list = <<>> THEN TD_NULL ELSE content[block[Last(busy_list)]]
Lent == [n \in Nodes |-> IF Held(n) THEN content[block[n]] ELSE TD_NULL]

\* The published buffers are a register of configurations for the consumer.
Register == INSTANCE ConfigRegister WITH
  Configs <- Configs \cup {Zero},
  Slots <- Nodes,
  None <- TD_NULL,
  current <- Newest,
  held <- Lent
RegisterSpec == Register!Spec

\* The buffers of an exit that gave up waiting are destroyed by a later one.
\* (isp.c:1795-1845, mkp_isp.h:3552-3559)
ExitReclaims == (exit_state = "WAITING") ~> (exit_state = "EXIT")
=============================================================================
