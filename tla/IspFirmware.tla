----------------------------- MODULE IspFirmware -----------------------------
(***************************************************************************)
(* The firmware of one ISP pipe as the client of the kernel's statistics   *)
(* buffers (isp_statistics.c, isp_main.c, mpi_isp_entry.c). The run thread *)
(* waits for the edge of a frame and computes on its statistics; the       *)
(* control thread initialises and exits the pipe; they meet in             *)
(* run_thread_status, which no lock protects, and in isp_ctx->lock. The    *)
(* process can die at any time outside a call and start again.             *)
(*                                                                         *)
(* The application calls ot_mpi_isp_mem_init and ot_mpi_isp_init,          *)
(* ot_mpi_isp_run in a thread of its own, ot_mpi_isp_exit, and joins that  *)
(* thread before it starts over. ot_mpi_isp_run_once and image modes are   *)
(* left out.                                                               *)
(***************************************************************************)
EXTENDS IspStatBuf

CONSTANTS Run, Ctl \* the run thread and the control thread

ASSUME ThreadsAssumption ==
  Threads = {Run, Ctl} /\ Run # Ctl /\ "free" \notin Threads /\ "none" \notin Threads

\* MAX_ISP_STAT_BUF_NUM is 2: while one buffer is used, another can be written.
ASSUME SpareAssumption == NumBufs > 1

VARIABLES
  run_thread_status, \* "EXIT", "RUN" or "STOP"
  lock,      \* isp_ctx->lock: "free", a thread, or "none" before init and after destroy
  para_init, \* isp_ctx->para_rec.init
  read,      \* stat_ctx->read: stat_info is a buffer the kernel has on its user list
  stat_info, \* stat_ctx->stat_info
  stat_virt_addr, \* stat_ctx->stat_virt_addr: the memory that is mapped, or TD_NULL
  run, ctl,  \* where the two threads are
  after,     \* where the control thread goes when isp_exit is done
  mem_init, int_enable, edge \* the kernel's flags: drv_ctx->mem_init, g_mask_is_open, drv_ctx->edge

user == <<run_thread_status, lock, para_init, read, stat_info, stat_virt_addr, after>>
kernel == <<mem_init, int_enable, edge>>
fwVars == <<vars, user, run, ctl, kernel>>

\* A mutex that is not initialised keeps nobody out.
Acquirable == lock \in {"free", "none"}
Acquire(t) == Acquirable /\ lock' = IF lock = "none" THEN "none" ELSE t
Release == lock' = IF lock = "none" THEN "none" ELSE "free"

RunGoes(from, to) == run = from /\ run' = to /\ UNCHANGED ctl
CtlGoes(from, to) == ctl = from /\ ctl' = to /\ UNCHANGED run

-----------------------------------------------------------------------------
(* ot_mpi_isp_run and isp_run_thread_proc *)

RunEnter ==
  /\ para_init
  /\ RunGoes("out", "start")
  /\ UNCHANGED <<vars, user, kernel>>

RunEnableInterrupt ==
  /\ Acquirable /\ int_enable' = TRUE
  /\ RunGoes("start", "begin")
  /\ UNCHANGED <<vars, user, mem_init, edge>>

RunBegin ==
  /\ IF run_thread_status = "EXIT"
     THEN RunGoes("begin", "loop") /\ run_thread_status' = "RUN"
     ELSE RunGoes("begin", "out") /\ UNCHANGED run_thread_status
  /\ UNCHANGED <<vars, lock, para_init, read, stat_info, stat_virt_addr, after, kernel>>

RunLoop ==
  /\ IF run_thread_status = "RUN" THEN RunGoes("loop", "switch") ELSE RunGoes("loop", "leave")
  /\ UNCHANGED <<vars, user, kernel>>

RunSwitchMode ==
  /\ Acquirable
  /\ RunGoes("switch", "wait")
  /\ UNCHANGED <<vars, user, kernel>>

\* The wait ends with an edge or without one, and then the loop goes on.
RunGetFrameEdge ==
  /\ \/ edge /\ edge' = FALSE /\ RunGoes("wait", "woken")
     \/ ~edge /\ RunGoes("wait", "loop") /\ UNCHANGED edge
  /\ UNCHANGED <<vars, user, mem_init, int_enable>>

RunWoken ==
  /\ IF run_thread_status = "RUN" THEN RunGoes("woken", "want") ELSE RunGoes("woken", "loop")
  /\ UNCHANGED <<vars, user, kernel>>

\* Mutant: isp_run is called without the lock.
RunLock_none ==
  /\ UNCHANGED lock
  /\ RunGoes("want", "run")
  /\ UNCHANGED <<vars, run_thread_status, para_init, read, stat_info, stat_virt_addr, after, kernel>>

RunLock ==
  /\ Acquire(Run)
  /\ RunGoes("want", "run")
  /\ UNCHANGED <<vars, run_thread_status, para_init, read, stat_info, stat_virt_addr, after, kernel>>

\* Mutant: the lock is not given back on an early return.
RunReturnEarly_locked ==
  /\ RunGoes("run", "loop") \/ RunGoes("use", "loop")
  /\ UNCHANGED <<vars, user, kernel>>

\* isp_run returns early at some of its calls: before it gets the statistics
\* and after it has used them.
RunReturnEarly ==
  /\ RunGoes("run", "unlock") \/ RunGoes("use", "unlock")
  /\ UNCHANGED <<vars, user, kernel>>

RunUnlock ==
  /\ Release
  /\ RunGoes("unlock", "loop")
  /\ UNCHANGED <<vars, run_thread_status, para_init, read, stat_info, stat_virt_addr, after, kernel>>

RunLeave ==
  /\ int_enable' = FALSE /\ run_thread_status' = "EXIT"
  /\ RunGoes("leave", "out")
  /\ UNCHANGED <<vars, lock, para_init, read, stat_info, stat_virt_addr, after, mem_init, edge>>

-----------------------------------------------------------------------------
(* isp_statistics_get_buf and isp_statistics_put_buf, which isp_run calls *)

\* A buffer that was not given back is used again.
GetBufAgain ==
  /\ read
  /\ RunGoes("run", IF stat_virt_addr = TD_NULL THEN "unlock" ELSE "use")
  /\ UNCHANGED <<vars, user, kernel>>

GetBuf ==
  /\ ~read
  /\ \/ StatBufUserGetEnter(Run) /\ RunGoes("run", "get")
     \/ ~init /\ RunGoes("run", "fallback") /\ UNCHANGED vars
  /\ UNCHANGED <<user, kernel>>

GetBufBusy ==
  /\ StatBufUserGet(Run)
  /\ RunGoes("get", IF busy_list = <<>> THEN "fallback" ELSE "copy")
  /\ UNCHANGED <<user, kernel>>

\* Mutant: the buffer is not remembered as the kernel's.
GetBufDone_forget ==
  /\ StatBufUserCopy(Run)
  /\ stat_info' = call'[Run].buf /\ UNCHANGED read
  /\ RunGoes("copy", IF stat_virt_addr = TD_NULL THEN "unlock" ELSE "use")
  /\ UNCHANGED <<run_thread_status, lock, para_init, stat_virt_addr, after, kernel>>

GetBufDone ==
  /\ StatBufUserCopy(Run)
  /\ stat_info' = call'[Run].buf /\ read' = TRUE
  /\ RunGoes("copy", IF stat_virt_addr = TD_NULL THEN "unlock" ELSE "use")
  /\ UNCHANGED <<run_thread_status, lock, para_init, stat_virt_addr, after, kernel>>

\* Without new statistics the ones read last are used again.
GetBufActive ==
  /\ \/ GetStatInfoActiveEnter(Run) /\ RunGoes("fallback", "active")
     \/ act_stat = TD_NULL /\ RunGoes("fallback", "unlock") /\ UNCHANGED vars
  /\ UNCHANGED <<user, kernel>>

GetBufActiveDone ==
  /\ GetStatInfoActive(Run)
  /\ stat_info' = call'[Run].buf /\ read' = FALSE
  /\ RunGoes("active", IF stat_virt_addr = TD_NULL THEN "unlock" ELSE "use")
  /\ UNCHANGED <<run_thread_status, lock, para_init, stat_virt_addr, after, kernel>>

PutBuf ==
  /\ \/ read /\ StatBufUserPutEnter(Run, stat_info) /\ RunGoes("use", "put")
     \/ ~read /\ RunGoes("use", "unlock") /\ UNCHANGED vars
  /\ UNCHANGED <<user, kernel>>

PutBufDone ==
  /\ StatBufUserPut(Run)
  /\ read' = FALSE
  /\ RunGoes("put", "unlock")
  /\ UNCHANGED <<run_thread_status, lock, para_init, stat_info, stat_virt_addr, after, kernel>>

-----------------------------------------------------------------------------
(* ot_mpi_isp_mem_init and ot_mpi_isp_init *)

\* If the kernel still has the memory of a process that died, isp_exit first.
MemInit ==
  /\ run = "out"
  /\ IF mem_init
     THEN CtlGoes("down", "exit") /\ after' = "set"
     ELSE CtlGoes("down", "set") /\ UNCHANGED after
  /\ UNCHANGED <<vars, run_thread_status, lock, para_init, read, stat_info, stat_virt_addr, kernel>>

MemInfoSet ==
  /\ mem_init' = TRUE
  /\ CtlGoes("set", "mem")
  /\ UNCHANGED <<vars, user, int_enable, edge>>

StatisticsInit ==
  /\ StatBufInitEnter(Ctl)
  /\ CtlGoes("mem", "init")
  /\ UNCHANGED <<user, kernel>>

StatisticsInitDone ==
  /\ StatBufInit(Ctl)
  /\ read' = FALSE
  /\ CtlGoes("init", "map")
  /\ UNCHANGED <<run_thread_status, lock, para_init, stat_info, stat_virt_addr, after, kernel>>

\* The memory cannot be mapped: the buffers are destroyed again.
StatisticsInitMap ==
  /\ \/ /\ stat_virt_addr' = call[Ctl].buf.addr
        /\ CtlGoes("map", "made") /\ UNCHANGED <<vars, after>>
     \/ /\ StatBufExitEnter(Ctl)
        /\ CtlGoes("map", "destroy") /\ after' = "mem" /\ UNCHANGED stat_virt_addr
  /\ UNCHANGED <<run_thread_status, lock, para_init, read, stat_info, kernel>>

\* Something else fails later: isp_alg_buf_exit undoes it.
IspInitFail ==
  /\ CtlGoes("made", "statistics") /\ after' = "mem"
  /\ UNCHANGED <<vars, run_thread_status, lock, para_init, read, stat_info, stat_virt_addr, kernel>>

InitGlobalInfo ==
  /\ lock' = "free"
  /\ para_init' = TRUE
  /\ run_thread_status' = "EXIT"
  /\ SetIspRunState(TRUE)
  /\ CtlGoes("made", "up")
  /\ UNCHANGED <<read, stat_info, stat_virt_addr, after, kernel>>

-----------------------------------------------------------------------------
(* ot_mpi_isp_exit, isp_wait_run_thread_exit, isp_exit, isp_statistics_exit *)

ExitDisableInterrupt ==
  /\ int_enable' = FALSE
  /\ CtlGoes("up", "stop")
  /\ UNCHANGED <<vars, user, mem_init, edge>>

StopRunThread ==
  /\ IF run_thread_status = "RUN"
     THEN CtlGoes("stop", "waiting") /\ run_thread_status' = "STOP"
     ELSE CtlGoes("stop", "stopped") /\ UNCHANGED run_thread_status
  /\ UNCHANGED <<vars, lock, para_init, read, stat_info, stat_virt_addr, after, kernel>>

\* The wait ends when the status is no longer STOP or after 40 ms.
WaitRunThreadExit ==
  /\ CtlGoes("waiting", "stopped")
  /\ UNCHANGED <<vars, user, kernel>>

ExitLock ==
  /\ Acquire(Ctl)
  /\ CtlGoes("stopped", "exit")
  /\ after' = "unlock"
  /\ UNCHANGED <<vars, run_thread_status, para_init, read, stat_info, stat_virt_addr, kernel>>

IspExit ==
  /\ SetIspRunState(FALSE)
  /\ para_init' = FALSE
  /\ CtlGoes("exit", "statistics")
  /\ UNCHANGED <<run_thread_status, lock, read, stat_info, stat_virt_addr, after, kernel>>

StatisticsExit ==
  /\ IF stat_virt_addr # TD_NULL
     THEN stat_virt_addr' = TD_NULL /\ stat_info' = NoBuf /\ read' = FALSE
     ELSE UNCHANGED <<stat_virt_addr, stat_info, read>>
  /\ \/ StatBufExitEnter(Ctl) /\ CtlGoes("statistics", "destroy")
     \/ ~init /\ CtlGoes("statistics", "reset") /\ UNCHANGED vars
  /\ UNCHANGED <<run_thread_status, lock, para_init, after, kernel>>

StatisticsExitDestroy ==
  /\ StatBufExit(Ctl)
  /\ CtlGoes("destroy", "free")
  /\ UNCHANGED <<user, kernel>>

StatisticsExitFree ==
  /\ StatBufFree(Ctl)
  /\ CtlGoes("free", IF after = "mem" THEN "mem" ELSE "reset")
  /\ UNCHANGED <<user, kernel>>

ResetCtx ==
  /\ ctl = "reset" /\ ctl' = after /\ UNCHANGED run
  /\ mem_init' = FALSE /\ edge' = FALSE
  /\ UNCHANGED <<vars, user, int_enable>>

ExitUnlock ==
  /\ lock' = "none"
  /\ CtlGoes("unlock", "join")
  /\ UNCHANGED <<vars, run_thread_status, para_init, read, stat_info, stat_virt_addr, after, kernel>>

Join ==
  /\ run = "out"
  /\ CtlGoes("join", "down")
  /\ UNCHANGED <<vars, user, kernel>>

-----------------------------------------------------------------------------
(* The interrupt and the death of the process *)

InterruptEnter ==
  /\ int_enable /\ mem_init
  /\ StatBufBusyPutEnter
  /\ edge' = (edge \/ ~init)
  /\ UNCHANGED <<user, run, ctl, mem_init, int_enable>>

\* The statistics are put on the busy list and the run thread is woken.
Interrupt ==
  /\ StatBufBusyPut
  /\ edge' = TRUE
  /\ UNCHANGED <<user, run, ctl, mem_init, int_enable>>

Crash ==
  /\ In(Run, "none") /\ In(Ctl, "none")
  /\ run' = "out" /\ ctl' = "down" /\ after' = "set"
  /\ run_thread_status' = "EXIT" /\ lock' = "none" /\ para_init' = FALSE
  /\ read' = FALSE /\ stat_info' = NoBuf /\ stat_virt_addr' = TD_NULL
  /\ UNCHANGED <<vars, kernel>>

FwInit ==
  /\ Init
  /\ run_thread_status = "EXIT" /\ lock = "none" /\ para_init = FALSE
  /\ read = FALSE /\ stat_info = NoBuf /\ stat_virt_addr = TD_NULL
  /\ run = "out" /\ ctl = "down" /\ after = "set"
  /\ mem_init = FALSE /\ int_enable = FALSE /\ edge = FALSE

RunNext ==
  \/ RunEnter \/ RunEnableInterrupt \/ RunBegin \/ RunLoop \/ RunSwitchMode
  \/ RunGetFrameEdge \/ RunWoken \/ RunLock \/ RunReturnEarly \/ RunUnlock \/ RunLeave
  \/ GetBufAgain \/ GetBuf \/ GetBufBusy \/ GetBufDone
  \/ GetBufActive \/ GetBufActiveDone \/ PutBuf \/ PutBufDone

CtlNext ==
  \/ MemInit \/ MemInfoSet \/ StatisticsInit \/ StatisticsInitDone \/ StatisticsInitMap
  \/ IspInitFail \/ InitGlobalInfo
  \/ ExitDisableInterrupt \/ StopRunThread \/ WaitRunThreadExit \/ ExitLock \/ IspExit
  \/ StatisticsExit \/ StatisticsExitDestroy \/ StatisticsExitFree \/ ResetCtx
  \/ ExitUnlock \/ Join

FwNext == RunNext \/ CtlNext \/ InterruptEnter \/ Interrupt \/ Crash

\* A thread inside a call runs on; nothing makes the application call.
Fairness ==
  /\ WF_fwVars(RunNext /\ run # "out")
  /\ WF_fwVars(CtlNext /\ ctl \notin {"down", "mem", "up"})

FwSpec == FwInit /\ [][FwNext]_fwVars /\ Fairness

-----------------------------------------------------------------------------
(* Correctness *)

FwTypeOK ==
  /\ TypeOK
  /\ run_thread_status \in {"EXIT", "RUN", "STOP"}
  /\ lock \in {"free", "none", Run, Ctl}
  /\ para_init \in BOOLEAN /\ read \in BOOLEAN
  /\ stat_info \in Bufs /\ stat_virt_addr \in Addrs \cup {TD_NULL}
  /\ run \in {"out", "start", "begin", "loop", "switch", "wait", "woken", "want", "run",
              "get", "copy", "fallback", "active", "use", "put", "unlock", "leave"}
  /\ ctl \in {"down", "set", "mem", "init", "map", "made", "up", "stop", "waiting", "stopped",
              "exit", "statistics", "destroy", "free", "reset", "unlock", "join"}
  /\ after \in {"set", "mem", "unlock"}
  /\ mem_init \in BOOLEAN /\ int_enable \in BOOLEAN /\ edge \in BOOLEAN

\* The run thread computes on statistics in memory that is allocated and
\* mapped, though an exit may give up waiting for it and go on.
\* (isp_statistics.c:80-120, mpi_isp_entry.c:437-502)
UsesWhatIsMapped ==
  run = "use" => stat_info.addr \in live /\ stat_virt_addr = stat_info.addr

\* Between frames the kernel has on its user list exactly the buffer that the
\* run thread remembers and will give back, so none is lost with an early
\* return or a fallback; and a process that creates buffers finds none of a
\* process that died. (isp_statistics.c:80-145, mpi_isp_entry.c:167-178)
BuffersComeBack ==
  /\ (ctl = "up" /\ In(Run, "none") /\ run # "copy")
       => user_list = IF read THEN {stat_info.node} ELSE {}
  /\ ctl = "mem" => ~init /\ live = {}

\* Statistics that are used because there are no new ones survive the next
\* frame: the interrupt takes the other buffer first. (isp.c:1076-1119,
\* isp_statistics.c:92-98)
FallbackSurvives ==
  [][(Interrupt /\ run = "use" /\ ~read /\ data[stat_info.node] = frame - 1)
       => data'[stat_info.node] = data[stat_info.node]]_fwVars

\* ot_mpi_isp_exit comes to an end, whatever the run thread does.
\* (mpi_isp_entry.c:437-502)
ExitEnds == (ctl = "stop") ~> (ctl \in {"join", "down"})

\* What the run thread takes for the last statistics have been read: "if do
\* not have busy statistics buf, use last buf" (isp_statistics.c:92).
UsesRead == run = "use" => data[stat_info.node] # 0

\* The run thread ends after ot_mpi_isp_exit: "control isp to exit recurrent
\* task" (mpi_isp_entry.c:467).
RunThreadEnds == (ctl = "join") ~> (run = "out")
=============================================================================
