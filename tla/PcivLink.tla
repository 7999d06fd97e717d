------------------------------- MODULE PcivLink -------------------------------
(***************************************************************************)
(* One channel of pictures from a slave chip to the host chip (pciv.c,     *)
(* pciv_drvadp.c, pciv_firmware.c, pciv_firmware_comm.c). The buffers are  *)
(* in the host's memory. The slave writes a picture into a buffer it has   *)
(* as free, by DMA, and says WRITEDONE; the host gives the picture to its  *)
(* display, and says READDONE when a timer finds that the display is done  *)
(* with it; a slave that starts says FREE.                                 *)
(*                                                                         *)
(* Both chips keep a status of each buffer. On the host three contexts     *)
(* share it: the handler of messages, the timer that looks for buffers to  *)
(* give back, which takes no lock of the firmware, and the timer that      *)
(* offers pictures again which the display refused. Messages are not lost  *)
(* and stay in order (a send that fails panics); DMA ends in order.        *)
(***************************************************************************)
EXTENDS Integers, Sequences, FiniteSets, SequencesExt

CONSTANTS
  NumBufs,  \* blk_cnt
  DmaDepth, \* how many tasks the PCIe driver takes at one time
  Kinds,    \* what the channel may carry: "live" or "playback" pictures
  MaxPics, MaxStarts, MaxHostStarts, \* bounds on pictures and starts
  RestartBy, \* bound on the pictures sent when the slave starts again
  None

ASSUME ParamsAssumption ==
  /\ NumBufs \in Nat \ {0} /\ DmaDepth \in Nat \ {0}
  /\ MaxPics \in Nat /\ MaxStarts \in Nat /\ MaxHostStarts \in Nat

Bufs == 1..NumBufs

\* A picture: its buffer, its number and, which the code does not know, the start
\* of the slave it belongs to. A message to the host has a picture, or is a FREE
\* for no buffer. A READDONE has a buffer and the life the host means.
Picture == [buf : Bufs, num : 1..MaxPics, life : 1..MaxStarts]
Message == Picture \cup [buf : {None}, num : {0}, life : 1..MaxStarts]
ReadDone == [buf : Bufs, life : 0..MaxStarts]

ASSUME NoneAssumption == None \notin Bufs \cup Message \cup ReadDone

VARIABLES
  \* the slave
  sender,     \* "stopped", "starting", "started" or "stopping"
  free,       \* the buffers whose status is BUFF_FREE, the others are BUFF_BUSY
  tasks,      \* g_list_dma_task: sequence of pictures [buf, num, life]
  dma,        \* the tasks the PCIe driver has taken
  sent,       \* the number of the last picture
  \* the messages
  to_host,    \* sequence of messages: WRITEDONE and FREE
  to_slave,   \* sequence of READDONEs [buf, life]
  \* the host
  started,    \* is_start, of the channel and of its firmware
  can_recv,
  busy,       \* the buffers whose status is BUFF_BUSY, the others are BUFF_FREE
  isr,        \* the picture the message handler gives to the firmware, or None
  armed, scan,\* buf_timer is pending; where its function is, or None
  queue,      \* pic_queue.busy_list: the pictures the display refused
  nodes,      \* pic_queue.free_num
  hold,       \* is_pciv_hold: the buffers of those pictures
  cur, vdec,  \* cur_vdec_node; where the timer that offers it again is
  display,    \* the pictures that VO, VPSS or VENC has
  kind,       \* what the channel carries
  \* history variables
  starts, life, \* the slave's last start, and the last the host has heard of
  host_starts,
  stale,      \* a READDONE from before a start has reached the slave after it
  raced,      \* a buffer was given back that a picture had just come into
  met,        \* a picture came while the timer was about to offer one again
  dropped,    \* a picture was given back, or not announced, without being shown
  shown       \* the number of the picture shown last

slave == <<sender, free, tasks, dma, sent>>
firmware == <<queue, nodes, hold, cur, vdec>>
timer == <<armed, scan>>
lives == <<starts, life, host_starts>>
faults == <<stale, raced, met, dropped>>
vars == <<slave, to_host, to_slave, started, can_recv, busy, isr, timer, firmware, display,
          kind, lives, faults, shown>>

-----------------------------------------------------------------------------
(* The slave *)

\* Mutant: the host is not told.
PcivStart_quiet ==
  /\ sender = "stopped" /\ starts < MaxStarts /\ sent <= RestartBy
  /\ sender' = "starting" /\ free' = Bufs /\ starts' = starts + 1
  /\ UNCHANGED <<tasks, dma, sent, to_host, to_slave, started, can_recv, busy, isr, timer>>
  /\ UNCHANGED <<firmware, display, kind, life, host_starts, faults, shown>>

\* pciv_start: all buffers are free, and the host is told so.
PcivStart ==
  /\ sender = "stopped" /\ starts < MaxStarts /\ sent <= RestartBy
  /\ sender' = "starting" /\ free' = Bufs /\ starts' = starts + 1
  /\ to_host' = Append(to_host, [buf |-> None, num |-> 0, life |-> starts'])
  /\ UNCHANGED <<tasks, dma, sent, to_slave, started, can_recv, busy, isr, timer>>
  /\ UNCHANGED <<firmware, display, kind, life, host_starts, faults, shown>>

PcivStarted ==
  /\ sender = "starting" /\ sender' = "started"
  /\ UNCHANGED <<free, tasks, dma, sent, to_host, to_slave, started, can_recv, busy, isr>>
  /\ UNCHANGED <<timer, firmware, display, kind, lives, faults, shown>>

\* pciv_drv_adp_start_dma_task: as many tasks as the driver takes.
StartDma(list) ==
  LET room == DmaDepth - Len(dma)
      k == IF Len(list) < room THEN Len(list) ELSE room
  IN  dma' = dma \o SubSeq(list, 1, k) /\ tasks' = SubSeq(list, k + 1, Len(list))

\* pciv_src_pic_send, into the first free buffer. Without one the picture is
\* lost, or the slave's timer offers it again.
SrcPicSend ==
  /\ sender = "started" /\ free # {} /\ sent < MaxPics
  /\ LET b == CHOOSE i \in free : \A j \in free : i <= j IN
     /\ StartDma(Append(tasks, [buf |-> b, num |-> sent + 1, life |-> starts]))
     /\ free' = free \ {b}
  /\ sent' = sent + 1
  /\ UNCHANGED <<sender, to_host, to_slave, started, can_recv, busy, isr, timer>>
  /\ UNCHANGED <<firmware, display, kind, lives, faults, shown>>

\* The end of a DMA; the tasks that wait are not started by it.
SrcPicSendDone ==
  /\ dma # <<>> /\ dma' = Tail(dma)
  /\ IF sender = "started"
     THEN to_host' = Append(to_host, Head(dma)) /\ UNCHANGED <<free, dropped>>
     ELSE free' = free \cup {Head(dma).buf} /\ dropped' = TRUE /\ UNCHANGED to_host
  /\ UNCHANGED <<sender, tasks, sent, to_slave, started, can_recv, busy, isr, timer>>
  /\ UNCHANGED <<firmware, display, kind, lives, stale, raced, met, shown>>

PcivStop ==
  /\ sender = "started" /\ sender' = "stopping"
  /\ UNCHANGED <<free, tasks, dma, sent, to_host, to_slave, started, can_recv, busy, isr>>
  /\ UNCHANGED <<timer, firmware, display, kind, lives, faults, shown>>

\* Mutant: the stop waits without starting the tasks.
PcivStopWait_only ==
  /\ sender = "stopping" /\ tasks = <<>> /\ dma = <<>>
  /\ sender' = "stopped"
  /\ UNCHANGED <<free, tasks, dma, sent, to_host, to_slave, started, can_recv, busy, isr>>
  /\ UNCHANGED <<timer, firmware, display, kind, lives, faults, shown>>

\* Until all tasks have come back it starts those that wait.
PcivStopWait ==
  /\ sender = "stopping"
  /\ IF tasks = <<>> /\ dma = <<>>
     THEN sender' = "stopped" /\ UNCHANGED <<tasks, dma>>
     ELSE StartDma(tasks) /\ UNCHANGED sender
  /\ UNCHANGED <<free, sent, to_host, to_slave, started, can_recv, busy, isr>>
  /\ UNCHANGED <<timer, firmware, display, kind, lives, faults, shown>>

\* pciv_free_share_buf: a READDONE is for whatever the buffer is used for now.
FreeShareBuf ==
  /\ to_slave # <<>> /\ to_slave' = Tail(to_slave)
  /\ IF sender = "started"
     THEN /\ free' = free \cup {Head(to_slave).buf}
          /\ stale' = (stale \/ Head(to_slave).life # starts)
     ELSE UNCHANGED <<free, stale>>
  /\ UNCHANGED <<sender, tasks, dma, sent, to_host, started, can_recv, busy, isr, timer>>
  /\ UNCHANGED <<firmware, display, kind, lives, raced, met, dropped, shown>>

-----------------------------------------------------------------------------
(* Giving buffers back *)

Incoming == IF isr = None THEN {} ELSE {isr.buf}

\* Mutant: pictures the display refused are not thought of.
CanRelease_refused(b, disp, held) == \A p \in disp : p.buf # b

\* pciv_firmware_is_vb_can_release
CanRelease(b, disp, held) == b \notin held /\ \A p \in disp : p.buf # b

\* pciv_recv_pic_free, for one buffer after the other
GiveBack(bufs) ==
  /\ busy' = busy \ bufs
  /\ \E list \in [1..Cardinality(bufs) -> bufs] :
       /\ \A i, j \in DOMAIN list : i < j => list[i] < list[j]
       /\ to_slave' = to_slave \o [i \in DOMAIN list |-> [buf |-> list[i], life |-> life]]

\* pciv_firmware_recv_pic_free as it is called by the two that hold the lock: the
\* timer is armed only if nothing is found.
Scan ==
  LET found == {b \in busy : started /\ CanRelease(b, display', hold')} IN
  /\ GiveBack(found)
  /\ armed' = (armed \/ (started /\ found = {}))
  /\ raced' = (raced \/ found \cap Incoming' # {})

\* pciv_firmware_recv_pic_free as the timer's function, without the lock.
TimerFire ==
  /\ armed /\ scan = None /\ armed' = FALSE
  /\ scan' = IF started THEN [at |-> 1, hit |-> FALSE, release |-> FALSE] ELSE None
  /\ UNCHANGED <<slave, to_host, to_slave, started, can_recv, busy, isr, firmware, display>>
  /\ UNCHANGED <<kind, lives, faults, shown>>

\* Mutant: the timer is not armed again.
TimerNext_once(hit) ==
  /\ scan' = IF scan.at < NumBufs THEN [at |-> scan.at + 1, hit |-> hit, release |-> FALSE] ELSE None
  /\ UNCHANGED armed

TimerNext(hit) ==
  IF scan.at < NumBufs
  THEN scan' = [at |-> scan.at + 1, hit |-> hit, release |-> FALSE] /\ UNCHANGED armed
  ELSE scan' = None /\ armed' = (armed \/ ~hit)

\* The counts of the display and the flag are read together; in the code the flag comes
\* last. A picture shown between the two is one that TimerRelease marks as raced.
TimerLook ==
  /\ scan # None /\ ~scan.release
  /\ IF CanRelease(scan.at, display, hold)
     THEN scan' = [scan EXCEPT !.release = TRUE] /\ UNCHANGED armed
     ELSE TimerNext(scan.hit)
  /\ UNCHANGED <<slave, to_host, to_slave, started, can_recv, busy, isr, firmware, display>>
  /\ UNCHANGED <<kind, lives, faults, shown>>

\* What it has seen may not be so any more.
TimerRelease ==
  /\ scan # None /\ scan.release
  /\ GiveBack({scan.at} \cap busy)
  /\ raced' = (raced \/ (scan.at \in busy
                        /\ (scan.at \in Incoming \/ ~CanRelease(scan.at, display, hold))))
  /\ TimerNext(scan.hit \/ scan.at \in busy)
  /\ UNCHANGED <<slave, to_host, started, can_recv, isr, firmware, display>>
  /\ UNCHANGED <<kind, lives, stale, met, dropped, shown>>

-----------------------------------------------------------------------------
(* The host *)

\* pciv_free_all_buf
FreeAllBuf ==
  /\ isr = None /\ to_host # <<>> /\ Head(to_host).buf = None
  /\ to_host' = Tail(to_host)
  /\ busy' = {} /\ can_recv' = TRUE /\ life' = Head(to_host).life
  /\ UNCHANGED <<slave, to_slave, started, isr, timer, firmware, display>>
  /\ UNCHANGED <<kind, starts, host_starts, faults, shown>>

\* pciv_receive_pic, until it calls the firmware. A host that is not ready gives
\* the buffer back at once.
ReceivePic ==
  /\ isr = None /\ to_host # <<>> /\ Head(to_host).buf # None
  /\ to_host' = Tail(to_host)
  /\ IF started /\ can_recv
     THEN /\ isr' = Head(to_host) /\ busy' = busy \cup {isr'.buf}
          /\ UNCHANGED <<to_slave, dropped>>
     ELSE /\ busy' = busy \ {Head(to_host).buf}
          /\ to_slave' = Append(to_slave, [buf |-> Head(to_host).buf, life |-> life])
          /\ dropped' = TRUE /\ UNCHANGED isr
  /\ UNCHANGED <<slave, started, can_recv, timer, firmware, display>>
  /\ UNCHANGED <<kind, lives, stale, raced, met, shown>>

\* A live picture is shown, or given back.
RecvLive ==
  /\ kind = "live" /\ isr # None /\ isr' = None /\ started /\ UNCHANGED firmware
  /\ \/ /\ display' = display \cup {isr} /\ shown' = isr.num
        /\ Scan
        /\ UNCHANGED dropped
     \/ /\ GiveBack({isr.buf} \cap busy) /\ dropped' = TRUE
        /\ UNCHANGED <<display, shown, armed, raced>>
  /\ UNCHANGED <<slave, to_host, started, can_recv, scan>>
  /\ UNCHANGED <<kind, lives, stale, met>>

\* The display takes the first k of these pictures and refuses the next.
Offer(list, k) ==
  /\ queue' = SubSeq(list, k + 1, Len(list))
  /\ nodes' = nodes + k + Len(queue) - Len(list)
  /\ hold' = (hold \cup {isr.buf}) \ {list[i].buf : i \in 1..k}
  /\ display' = display \cup {list[i] : i \in 1..k}
  /\ shown' = IF k = 0 THEN shown ELSE list[k].num

\* A picture that is played back and refused waits in the queue, with its buffer,
\* and those that come after it wait behind it. Each that is taken out of the
\* queue passes through cur_vdec_node.
RecvPlayback ==
  /\ kind = "playback" /\ isr # None /\ isr' = None /\ started
  /\ LET list == Append(queue, isr) IN \E k \in 0..Len(list) :
       /\ nodes > 0 \/ (queue = <<>> /\ k = 1)
       /\ Offer(list, k)
  /\ cur' = IF queue = <<>> THEN cur ELSE None
  /\ Scan
  /\ met' = (met \/ vdec # "idle")
  /\ UNCHANGED <<slave, to_host, started, can_recv, scan, vdec>>
  /\ UNCHANGED <<kind, lives, stale, dropped>>

\* The firmware was stopped meanwhile, or has no node for a refused picture.
RecvFail ==
  /\ isr # None /\ isr' = None
  /\ \/ ~started /\ UNCHANGED hold
     \/ started /\ kind = "playback" /\ nodes = 0 /\ hold' = hold \cup {isr.buf}
  /\ GiveBack({isr.buf} \cap busy) /\ dropped' = TRUE
  /\ UNCHANGED <<slave, to_host, started, can_recv, timer, queue, nodes, cur, vdec, display>>
  /\ UNCHANGED <<kind, lives, stale, raced, met, shown>>

\* Mutant: the picture is offered again from the end of the queue.
Again_last == queue' = Append(queue, cur)

Again == queue' = <<cur>> \o queue

\* The timer that offers pictures again takes one,
VdecTake ==
  /\ vdec = "idle" /\ started /\ queue # <<>>
  /\ cur' = Head(queue) /\ queue' = Tail(queue) /\ vdec' = "frame"
  /\ UNCHANGED <<slave, to_host, to_slave, started, can_recv, busy, isr, timer, nodes, hold>>
  /\ UNCHANGED <<display, kind, lives, faults, shown>>

\* looks at it without the lock,
VdecFrame ==
  /\ vdec = "frame" /\ vdec' = IF cur = None THEN "idle" ELSE "send"
  /\ UNCHANGED <<slave, to_host, to_slave, started, can_recv, busy, isr, timer, queue, nodes>>
  /\ UNCHANGED <<hold, cur, display, kind, lives, faults, shown>>

\* and has it shown. If it is gone by then, the host follows a null pointer, and
\* there is no next step.
VdecSent ==
  /\ vdec = "send" /\ cur # None
  /\ vdec' = "idle" /\ cur' = None
  /\ nodes' = nodes + 1 /\ hold' = hold \ {cur.buf}
  /\ display' = display \cup {cur} /\ shown' = cur.num
  /\ UNCHANGED <<slave, to_host, started, can_recv, isr, scan, queue>>
  /\ Scan
  /\ UNCHANGED <<kind, lives, stale, met, dropped>>

VdecRefused ==
  /\ vdec = "send" /\ cur # None
  /\ vdec' = "idle" /\ cur' = None
  /\ Again
  /\ UNCHANGED <<slave, to_host, to_slave, started, can_recv, busy, isr, timer, nodes, hold>>
  /\ UNCHANGED <<display, kind, lives, faults, shown>>

HostStart ==
  /\ ~started /\ host_starts < MaxHostStarts
  /\ started' = TRUE /\ can_recv' = TRUE /\ host_starts' = host_starts + 1
  /\ UNCHANGED <<slave, to_host, to_slave, busy, isr, timer, firmware, display>>
  /\ UNCHANGED <<kind, starts, life, faults, shown>>

HostStop ==
  /\ started
  /\ started' = FALSE /\ can_recv' = FALSE
  /\ UNCHANGED <<slave, to_host, to_slave, busy, isr, timer, firmware, display>>
  /\ UNCHANGED <<kind, lives, faults, shown>>

\* The display is done with a picture.
DisplayDone ==
  /\ \E p \in display : display' = display \ {p}
  /\ UNCHANGED <<slave, to_host, to_slave, started, can_recv, busy, isr, timer, firmware>>
  /\ UNCHANGED <<kind, lives, faults, shown>>

-----------------------------------------------------------------------------
Init ==
  /\ sender = "stopped" /\ free = Bufs /\ tasks = <<>> /\ dma = <<>> /\ sent = 0
  /\ to_host = <<>> /\ to_slave = <<>>
  /\ started = FALSE /\ can_recv = FALSE /\ busy = {} /\ isr = None
  /\ armed = FALSE /\ scan = None
  /\ queue = <<>> /\ nodes = NumBufs /\ hold = {} /\ cur = None /\ vdec = "idle"
  /\ display = {} /\ kind \in Kinds
  /\ starts = 0 /\ life = 0 /\ host_starts = 0
  /\ stale = FALSE /\ raced = FALSE /\ met = FALSE /\ dropped = FALSE
  /\ shown = 0

Receive == ReceivePic \/ RecvLive \/ RecvPlayback \/ RecvFail \/ FreeAllBuf
BufTimer == TimerFire \/ TimerLook \/ TimerRelease
VdecTimer == VdecTake \/ VdecFrame \/ VdecSent \/ VdecRefused

Next ==
  \/ PcivStart \/ PcivStarted \/ SrcPicSend \/ SrcPicSendDone \/ PcivStop \/ PcivStopWait
  \/ FreeShareBuf \/ Receive \/ BufTimer \/ VdecTimer \/ HostStart \/ HostStop \/ DisplayDone

\* Handlers, timers and waits go on, DMA ends, the display is done with a picture
\* at some time and takes one that is offered again and again.
Fairness ==
  /\ WF_vars(PcivStarted) /\ WF_vars(PcivStopWait)
  /\ WF_vars(SrcPicSendDone) /\ WF_vars(FreeShareBuf) /\ WF_vars(Receive)
  /\ WF_vars(BufTimer) /\ WF_vars(VdecTimer) /\ SF_vars(VdecSent) /\ WF_vars(DisplayDone)

Spec == Init /\ [][Next]_vars /\ Fairness
-----------------------------------------------------------------------------
(* Correctness *)

TypeOK ==
  /\ sender \in {"stopped", "starting", "started", "stopping"}
  /\ sent \in 0..MaxPics /\ shown \in 0..MaxPics
  /\ free \subseteq Bufs /\ busy \subseteq Bufs /\ hold \subseteq Bufs
  /\ tasks \in Seq(Picture) /\ dma \in Seq(Picture) /\ Len(dma) <= DmaDepth
  /\ queue \in Seq(Picture) /\ nodes \in 0..NumBufs /\ display \subseteq Picture
  /\ to_host \in Seq(Message)
  /\ to_slave \in Seq(ReadDone)
  /\ isr \in Picture \cup {None} /\ cur \in Picture \cup {None}
  /\ scan \in [at : Bufs, hit : BOOLEAN, release : BOOLEAN] \cup {None}
  /\ vdec \in {"idle", "frame", "send"}
  /\ started \in BOOLEAN /\ can_recv \in BOOLEAN /\ armed \in BOOLEAN /\ kind \in Kinds
  /\ starts \in 0..MaxStarts /\ life \in 0..starts /\ host_starts \in 0..MaxHostStarts

\* While both chips mean the same life of the channel, each buffer is at one place
\* at most: free at the slave, in a DMA, announced, used by the host or on its way
\* back, unless a READDONE from before a start came after it.
\* (pciv.c:352-409, 720-776, 847-1105)
OnePlace ==
  LET flow == to_host \o dma \o tasks
      Places(b) ==
           {<<"free", f>> : f \in free \cap {b}}
        \cup {<<"flow", i>> : i \in {j \in DOMAIN flow : flow[j].buf = b}}
        \cup {<<"busy", u>> : u \in busy \cap {b}}
        \cup {<<"back", i>> : i \in {j \in DOMAIN to_slave : to_slave[j] = [buf |-> b, life |-> starts]}}
  IN  ((\A i \in DOMAIN to_host : to_host[i].buf # None) /\ ~stale) =>
        \A b \in Bufs : Cardinality(Places(b)) <= 1

\* The pictures that are shown, wait, or are about to be
Used == display \cup Range(queue) \cup ({isr, cur} \ {None})

Overwritten == \E i \in DOMAIN dma : \E p \in Used : p.buf = dma[i].buf /\ p.life >= dma[i].life

\* A picture is not overwritten before the display is done with it, except by one
\* of a later life of the channel, unless its buffer was given back when it had
\* just come in, or freed by a stale message. (A restart of the slave leaves
\* is_pciv_hold as it is, so the promise ends there for pictures played back.)
\* (pciv.c:936-991, pciv_firmware.c:574-619, pciv_firmware_comm.c:578-597)
NotOverwritten == (~raced /\ ~stale /\ (kind = "live" \/ starts <= 1)) => ~Overwritten

\* Pictures are shown in the order they were sent in, and none is left out that
\* was played back and not given back unseen, unless one came while the timer was
\* about to offer another again. (pciv_firmware_comm.c:322-483)
InOrder ==
  [][shown' # shown /\ ~met' =>
       /\ shown' > shown
       /\ ~dropped => shown' - shown = Cardinality(display' \ display)]_vars

\* A stop of the slave comes to its end. (pciv.c:441-447)
StopEnds == sender = "stopping" ~> sender = "stopped"

\* A slave without a free buffer gets one, unless it or the host is stopped, or a
\* picture got lost between message and timer. (pciv_firmware.c:574-622)
BuffersComeBack ==
  (sender = "started" /\ free = {} /\ host_starts <= 1)
    ~> (free # {} \/ sender # "started" \/ host_starts > 1 \/ (host_starts = 1 /\ ~started) \/ met)

\* "before this, the image buffer-flag is idle" (pciv.c:1040), which can_recv and
\* the message FREE are there for (pciv.c:1022).
ReceivedIntoFree == [][isr = None /\ isr' # None => isr'.buf \notin busy]_vars

\* "after used by VO or VPSS or VENC" a buffer is returned (pciv.c:1066), so the
\* first life of the channel overwrites no picture that is in use.
ReturnedAfterUse == starts <= 1 => ~Overwritten
=============================================================================
