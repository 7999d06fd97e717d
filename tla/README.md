# Formal models of the a55_linux driver stack

This directory holds TLA+ models of the parts of this repository whose logic is
concurrent, stateful or easy to get wrong at a boundary: the media memory
allocator and its character device, the statistics and configuration buffers of
the ISP, the link that carries pictures between two chips over PCIe, the sample
buffer of the motion sensor manager, the watchdog driver, and the infrared
receiver. TLC checks each model on a small instance; TLAPS proves the safety
properties of all of them for all values of the constants.

Paths below are relative to `src/`.

Contents: 1 the system · 2 how the modules fit together · 3 the modules and the
code · 4 the runs · 5 what disagrees · 6 fairness · 7 proofs · 8 what is
simplified, and why it is sound · 9 what is not modelled · 10 plan.

## 1. The system

The repository is the kernel side of the SDK of a HiSilicon SoC: an
OS-abstraction layer (OSAL), a media memory allocator, small device drivers
("interdrv"), and the open part of the media processing platform (MPP), whose
other part is prebuilt libraries and modules.

| Component | State it keeps | Operations | How it interacts |
|---|---|---|---|
| **Media memory zones** (`osal/linux/mmz/ot_allocator.c`, `media_mem.c`) | `g_mmz_list`; a sorted list of blocks in every zone | register and unregister a zone; three allocation calls, two searches; free | everything runs under `g_mmz_lock`; called by all drivers and by the character device |
| **Media memory blocks** (`media_mem.c`, `ot_allocator.c`) | per block: `phy_ref`, `map_ref`, three flags | get, put, free, map into the kernel (cached or not), unmap | the last of the counters to reach zero frees a block whose free was delayed |
| **mmz_userdev** (`mmz_userdev.c`) | per open file: a list of `mmb_info` with counters of their own; a semaphore | open, allocate, free, remap, unmap, add and drop a reference, release | an ioctl makes several calls into `media_mem.c`, each locked by itself; calls `vm_mmap`, which comes back as the device's own `mmap` |
| **CMA back end** (`cma_allocator.c`) | as the zone allocator | the same interface on the kernel's contiguous allocator | chosen when the kernel is built with CMA zones |
| **OSAL** (`osal/linux/osal_*.c`) | the file table of `osal_device.c` with `f_ref_cnt`; otherwise handles of kernel objects | open/release/ioctl/poll dispatch, locks, timers, work queues, threads, /proc | under every driver |
| **ot_media** (`osal/linux/ot_media/`) | devices by minor number, one semaphore | register, unregister, open | serialises the opens of all devices |
| **Motion sensor manager** (`vendor/motionsensor/motionsensor_mng/`) | one ring of samples per sensor, write positions, a read position per user | write a sample, get the samples of a time range, release, add and delete a user | the writer is the sensor's thread or interrupt, readers are ioctls; `mng_lock` (spin lock) and `mng_mutex` |
| **Motion sensor chip drivers** (`vendor/motionsensor/motionsensor_chip/`) | configuration of the chip | start, stop, read the FIFO | feed the manager |
| **Watchdog** (`interdrv/wtdg/ot_wtdg.c`) | options, current margin, state, count of openers; the timer's registers | load, unload, open, release, ioctls; a kernel thread that feeds the timer | thread, programs and unloading share unlocked globals; only register accesses are locked |
| **Infrared receiver** (`interdrv/ot_ir/ir.c`) | a ring of keys with its length, four options, a flag that suppresses repeated keys, a timer, a wait queue, a count of openers | interrupt handler, timer handler, open, release, read, poll, ioctls | no lock anywhere: interrupt, timer and programs share the ring and the flag |
| **MIPI rx/tx, sysconfig, user mapping** (`interdrv/`) | lane configuration | ioctls that write registers | hardware |
| **ES8388** (`vendor/es8388/`) | volumes | ioctls that write registers | I2C |
| **PCIV** (`mpp/component/pciv/`) | per channel and chip: a status per shared buffer, counters, start flags; a list of DMA tasks; on the host a queue of refused pictures and two timers | create, start, send a picture, end of a DMA, receive, release, stop | two chips exchange WRITEDONE, READDONE and FREE over PCIe; the slave writes into the host's memory; display and video buffer pool are binaries |
| **GFBG** (`mpp/component/gfbg/`) | layers, buffers, refresh modes | framebuffer ioctls, display interrupts | hardware and prebuilt modules |
| **Cipher, key ladder, OTP** (`mpp/component/security_subsys/`) | channel tables, handles per process | create, configure, encrypt, destroy | hardware engine |
| **ISP, kernel** (`mpp/cbb/isp/kernel/mkp/`) | per pipe: three lists of statistics buffers, two lists of configuration buffers and one set aside, reference counts, flags | ioctls that create, take, give back, publish, destroy; the frame interrupt; three functions exported to the video input | everything moves under `g_isp_lock`, but most tests come before it is taken |
| **ISP, firmware** (`mpp/cbb/isp/user/firmware/`) | per pipe: status of the run thread, a mutex, the statistics it has read, the mapping | `ot_mpi_isp_mem_init`, `_init`, `_run`, `_run_once`, `_exit` | a library in the application; the run thread waits for frames, another thread initialises and exits; both call the kernel part; the process can die |
| Vendored and prebuilt parts, samples, tools | – | – | – |

What is hard in it, and makes the parts correct:

- **Placement.** Two live blocks must never share an address, a block must lie
  in a registered zone and where it was asked for, and a request must not fail
  while there is room. The searches work with unsigned subtraction, three kinds
  of gaps and early exits; what they do depends on a long history of
  allocations and frees.
- **Life time.** Owners, references, kernel mappings and delayed frees come and
  go in any order; a block must go with the last of them, neither before nor
  after, whatever driver or program that belongs to.
- **The character device.** It keeps counters of its own beside those of the
  block, drops the lock between its calls, has failing paths in the middle of an
  ioctl, and must free everything when a program dies.
- **The sample ring.** Five positions per user must stay in step through
  overflow, a backward search, a forward search and a release, each of which
  wraps the ring with its own code; users come and go under another lock.
- **Buffers of the ISP.** The interrupt of a frame, the firmware and the video
  input pass buffers round; none may be lost, written after it was freed or
  while another reads it, and each must come back after early returns, refused
  exits and dead processes. The newest statistics and the newest configuration
  are to be the ones that are used.
- **The link between chips.** Each chip has its own idea of which buffers are
  free, kept in step by messages that may be on their way when a side restarts.
  Both sides must agree where a buffer is; a picture may not be overwritten
  while it is shown, overtaken or dropped; and buffers in use must return.
- **The watchdog.** The feeding thread must be in time, a second opener must be
  refused in whatever order opens and releases meet, and a removal must leave
  the timer off and find the thread.
- **The infrared receiver.** Keys must come in order, none twice, though the
  interrupt fills the ring under a reader and a program resizes it under both; a
  key that goes up must be the one that went down; and a repeated key that is
  suppressed must be let through again, which depends on a flag and a timer that
  two processors write.

The `hazards` of `PROJECT.json` name the line at which each of these bites and
the property that would catch it.

## 2. How the modules fit together

```
MmzRegions <-- MmzAllocator <-- MmzDeployment <-- MCMmzAllocator   (run mmz_allocator)
                    ^                 ^---------- MmzAllocatorProofs
                    +---------------------------- MCMmzUnaligned   (run mmz_unaligned_zone)

BlockLifetime <-- MediaMem (run media_mem) <-- MmzUserdev (run mmz_userdev)
                                                      ^
                                              MmzUserdevProofs

StatMailbox <-- IspStatBuf <-- IspFirmware (run isp_stat) <-- IspStatBufProofs

ConfigRegister <-- IspBeBuf (run isp_be) <-- IspBeBufProofs

PcivLink        (runs pciv_link, pciv_restart) <-- PcivLinkProofs
MotionSensorBuf (run msensor_buf) <-- MotionSensorBufProofs
OtWtdg          (runs wtdg, wtdg_stop)  <-- OtWtdgProofs
IrReceiver      <-- MCIrReceiver (run ir)
           <-- IrReceiverProofs
```

`BlockLifetime` is the abstract specification of what reference counting
promises; `MediaMem` implements it (`ImplementsLifetime`, checked and proved).
`MmzUserdev` extends `MediaMem` by its callers: its steps are conjunctions with the
operations of `MediaMem`, `DevNext` takes the place of its `Next`, and it implements
its `Spec` (`DisciplinedCaller`, checked and proved). So there are three levels: the device,
the counting, and the promise.

`StatMailbox` is what the statistics buffers promise a reader, the newest frame
once; `IspStatBuf`, the kernel's three lists, implements it (`MailboxSpec`,
checked and proved). `IspFirmware` composes them with the two threads of the
firmware: every step is a call of `IspStatBuf` or leaves it alone
(`FirmwareIsAClient`, proved), so the promise reaches up to it. `ConfigRegister`
is what the configuration buffers promise the video input, and `IspBeBuf`
implements it (`RegisterSpec`, checked and proved). The two kinds of buffers share the interrupt and
the two calls that create and destroy them, but no data.

`PcivLink` composes the two chips, the two channels of messages between them and
the host's display.

Placement and life time are two modules, because they share one thing only: when a
block goes. `MmzAllocator` lets a live block be freed at any time, which
includes every time at which `MediaMem` frees it.

## 3. The modules and the code

**MmzRegions** – `find_fit_region` and `find_fixed_region` of `ot_allocator.c`
as functions of a zone and the set of its blocks. The code walks a sorted list
and looks at the gap in front of the first block, between neighbours, and after
the last; `Gaps` is the set of those gaps. `Minus` is the subtraction of
unsigned longs, with its wrap. `FitGaps` and `Preferred` are the acceptance and
the comparison of `calculate_fixed_region` and its callers.

**MmzAllocator** – `zones` is `g_mmz_list`, `mmb` the blocks of all zones.
`ot_mmz_register` (with `_check_mmz`), `ot_mmz_unregister`, `ot_mmb_alloc`,
`ot_mmb_alloc_v2` (whose rounding of one size variable, zone after zone, is
`SizeAt`), `ot_mmb_alloc_v3` and `mmb_free`. Each is one action, as each runs
under `g_mmz_lock`. A call that fails changes nothing and is no step. A block
remembers the alignment it was asked for and, of a fixed request, the address,
so that `AsRequested` can compare them with its place in the step that allocates it.

**MmzDeployment** – what the allocator relies on without checking it: zones
start at multiples of the alignments asked for, fixed requests are no larger
than a zone, and zones that match one request round sizes alike. These are
assumptions of the proofs, evaluated by TLC for the instance of
`MCMmzAllocator`.

**MediaMem** – a block is a record of `phy_ref`, `map_ref`, the flags and
whether it is in its zone's list. `PutMmb`, `FreeMmb`, `MapMmb`, `MapFailsMmb`
and `UnmapMmb` are what the functions make of it, without any guard, as in the
code. `rights` records what callers are entitled to give back; `Next` lets
callers do what their rights allow. A second `ot_mmb_free` of a block still in
use is allowed, because the code has a branch for it.

**MmzUserdev** – per session the state of the file, the `mmb_info` records, what
the program has mapped, and `pc`, where an ioctl that has begun stands. An
ioctl is split wherever it drops `g_mmz_lock`. Both outcomes of `kmalloc`, of
`vm_mmap` and of the cache flush are there, as are a program that unmaps behind
the driver's back, exits at any time, or frees a block in use, and kernel
drivers that map a block. Mapping takes a reference that is counted with the
others, and `DecRef` refuses only when there is none: a program may give up the
reference of its own mapping. What keeps the block then is `map_ref`.

**MotionSensorBuf** – one ring with two of its positions: those of the first
four blocks, which move by identical code, as `x`, and that of the time stamps
as `pts`. A sample is its time stamp. `WriteSample` and `WritePts` are
`msensor_buf_write_data` (two steps because adding a user may see the positions
in between), `msensor_buf_get_data` is the backward search, the forward search
and the release, `AddUser`/`AddUserDone` and `DeleteUser`/`DeleteUserDone` are
cut where the code reads shared state without the lock that protects it.

**IspStatBuf** – `isp_drv_stat_buf_*` and `isp_drv_get_stat_info_active` of
`isp.c`. `free_list`, `busy_list` and `user_list` with their counters, `act_stat`,
the memory and what each node points to. Each call is two steps, `...Enter` with the
test of `init` and the step under the lock, because the code tests before it
locks; creating and destroying have a step for the memory as well. `Next` lets
any number of threads make any calls.

**IspFirmware** – the run thread (`ot_mpi_isp_run`, `isp_run_thread_proc`,
`isp_run`, `isp_statistics_get_buf` and `_put_buf`), the controlling thread
(`ot_mpi_isp_mem_init`, the statistics' part of `isp_init`,
`ot_mpi_isp_exit` with the wait for the run thread), the interrupt, and the death
of the process, after which the kernel keeps everything. `lock` is the
application's mutex, which an exit destroys; `run` and `ctl` say where the threads
are; `run_thread_status` is read and written without the lock, as in the code.

**IspBeBuf** – the queue of configuration buffers (`isp_list.c`), its users in
`isp.c` (creation, `isp_drv_be_buf_ctl`, run once, the change of image mode,
the exit with its wait) and the functions the video input calls
(`isp_ext.c`). `use_node` is the buffer the interrupt sets aside for the
firmware; `Freed` is a pointer left to a destroyed queue. `content` is what has been
written where. `pc` runs through the firmware's calls one after the other.

**PcivLink** – the slave's `free` and the host's `busy` are the two `buf_status`
arrays. `PcivStart`, `SrcPicSend`, `SrcPicSendDone`, `PcivStop` and
`FreeShareBuf` are the slave's part of `pciv.c`; `ReceivePic` with `RecvLive`,
`RecvPlayback` or `RecvFail` is the host's receipt of a picture, cut where
`pciv_receive_pic` drops the lock before it calls the firmware. `Scan` and
`TimerFire`/`TimerLook`/`TimerRelease` are one function,
`pciv_firmware_recv_pic_free`, called under the lock and as a timer's function
without it. `VdecTake` to `VdecRefused` are the timer that offers refused
pictures again, `cur` is the variable it shares with the message handler.

**OtWtdg** – a call is a sequence of steps still to be taken (`todo`); a step is
what one process does under `g_ot_dog_lock` or to one shared variable. The
sequences are written as the functions are (`ot_dog_start`, `ot_dog_stop`,
`ot_dog_exit`, ...). The timer counts down, raises its interrupt at zero, and
resets the board if it reaches zero with the interrupt still raised. Time runs
in half seconds, since the thread sleeps half of a margin given in seconds.
Loading is such a sequence too (`watchdog_init`, `ot_dog_init`): the device can
be opened from the moment it is registered, before the thread is there, and the
thread may fail to be created. `NoDaemon` is the module parameter `g_nodeamon`.

**IrReceiver** – `interrupt_rcv` is cut at every access to something shared:
`Repeated` is its decision whether a key repeats the last one, `ArmTimer` and
`SetCheckflag` suppress the repetitions to come, `StoreKey` and `StoreHead` put
the key into the ring, in the order of the code or, as nothing orders the two
stores on ARM, the other way round for another processor. `ReleaseKey` and
`ClearCheckflag` are the branch of `ot_ir_interrupt` for a released key.
`ReadTest` to `ReadAdvance` are `ot_ir_read`, `IR_IOC_SET_BUF` and
`SetBufPointers` the ioctl that resizes, `SetOption` the three that set options.
Opening and closing are cut at the counter, the timer, the ring, the queue and
the register. `met` records which unlocked accesses have met: `RingMet`,
`TimerMet`, `OpeningMet` name each such meeting, and the properties say which
they exempt. What is left is what the code gets right without a lock.

## 4. The runs

Every run takes the specification as it is; a `.cfg` only gives constants their
values.

| Run | Instance | What it shows |
|---|---|---|
| `mmz_allocator` | three zones (plain, rounding to powers of two, and equal blocks; the first and the third conflict), four blocks, grain 2, word 64; requests of one to four grains with four alignments; fixed requests that fall between grains, at the end of a zone, where they stick out of a gap or of the zone, and outside all zones | `NoOverlap`, `WithinZone`; `AsRequested`, about the step that places a block: aligned, or moved to end where its gap does, and always round the address asked for; and that neither search refuses memory that is free (`SearchComplete`, `FixedSearchComplete`), which is judged by a definition that knows nothing of gaps |
| `mmz_unaligned_zone` | one zone aligned to the grain but not to a request | *violation*: see 5 |
| `media_mem` | two blocks, up to three references and three mappings each | `Accounting` (counters say what callers hold), `ImplementsLifetime` |
| `mmz_userdev` | two sessions and a driver around one block, three references, two mappings | `DisciplinedCaller`, `OneOwner` (nothing leaked, nothing in two lists), `ReferencesAgree`, `MappedBlockLives`, `DelayedFreeHappens`, and the liveness `ReleaseFreesAll` |
| `msensor_buf` | ring of four, gap two, two users, five samples, one deleting thread | `BlocksInStep`, `ReadsWhatIsAsked` |
| `isp_stat` | two buffers, memory at one of two addresses, three frames; the run thread, a controlling thread, any number of crashes | `OneList`, `WrittenIsAllocated`, `UsesWhatIsMapped` (the firmware computes on mapped, allocated memory), `BuffersComeBack` (the kernel lends exactly what the firmware remembers), `MailboxSpec`, `FallbackSurvives`, and the liveness `ExitEnds` |
| `isp_be` | two buffers, three configurations, the consumer has up to two, one crash | `OnePlace`, `Accounting` (the kernel counts what the consumer has), `NotStarved`, `WritesOwnBuffer`, `NothingLost`, the refinement `RegisterSpec`, and the liveness `ExitReclaims` |
| `pciv_link` | two buffers, a DMA at a time, three pictures, live or playback, two starts of the slave, a start and a stop of the host | `OnePlace`, `NotOverwritten`, `InOrder`, and the liveness `StopEnds` and `BuffersComeBack` |
| `pciv_restart` | the same | *violation*: see 5 |
| `wtdg` | margin two seconds, two callers, margins two and three (three is out of range) | `FedInTime`, `OneOpener`, and the liveness `RemovalEnds` |
| `wtdg_stop` | one caller | *violation*: see 5 |
| `ir` | two keys, a ring of two that can be given a length of three, three keys pressed or released, four calls by two threads; reads of two keys | `InOrder`, `UpFollowsDown`, `RepeatsResume` |

Why the bounds are enough for what they are meant to show:

- Four blocks make every kind of gap (head, two middle ones that differ in
  size, tail) with a block freed between two others; a length that has wrapped is
  close to the word, and larger than any zone. The theorems of section 7 remove the bound.
- Two blocks suffice in `media_mem`, as operations touch one block; the second
  one catches an operation that touches another. Three references tell
  "first", "last" and "neither" apart.
- A block that several sessions share is the only way in which sessions meet,
  so one block and two sessions are enough; the other way round, sessions do
  not hand blocks to each other.
- Five samples wrap a ring of four, so the writer overtakes a reader, and a
  reader that has wrapped meets a writer that has not. Each of the three
  wrapping computations is met at `N - 1`, at `N` and after.
- Two statistics buffers are what the driver has. Three frames are enough for one
  that is read, one that waits and one that replaces it. Memory at two addresses
  tells old memory from new.
- With two configuration buffers one is published and one is written, the
  tightest case; the consumer holds both a current and an older one. Three
  configurations tell those two and the next apart. Offline, three buffers,
  four configurations and no crash pass as well (3.1 million states; all but the liveness).
- Two shared buffers on the link make a reuse race possible after every picture,
  and a DMA that takes one task makes others wait. Two starts give a message of
  the first that arrives in the second; `RestartBy` lets only a slave that has
  sent at most one picture start again, which keeps the state space (750,000
  states) within minutes and still leaves two pictures for the second life. Three buffers
  and four pictures pass without a restart (12 million states; safety and order only).
- Two callers are the smallest number that can race in `open` and `release`. A
  margin of two seconds gives the thread two half-seconds of sleep and one of
  slack.
- In a ring of two slots the second key already makes a full ring look empty, and
  the third goes round a reader. Two threads are a reader and one that resizes,
  closes or reads as well; four calls are an opening, an ioctl, a read and a
  closing. Threads are alike, and so are keys, so the instance is reduced by
  their symmetry (3.5 million states).

`MaxRefs`, `MaxMaps`, `MaxRights` (in the device's runs larger than both others, so never reached), `MaxPts`, `MaxFrame`, `MaxHold`, `MaxCrash`,
`MaxPics`, `MaxStarts`, `MaxHostStarts`, `RestartBy`, `MaxPush` and `MaxCalls` bound counters in guards of the
callers, never in what a function does. `KernelStart`, `KernelEnd`, `MaxMalloc`
and `MaxMallocV2` are limits the code has itself.

`CHECK_DEADLOCK FALSE` is set where the system may stop: a program need not do
anything (`MmzUserdev`), the number of samples is bounded (`MotionSensorBuf`), as is that of pictures (`PcivLink`),
and a module that has gone, or a board that has been reset, does no more
(`OtWtdg`), and as calls and keys are bounded (`IrReceiver`). In the others deadlock is checked.

Every property of a passing run has a mutant: a plausible mistake in one
definition (a dropped guard, an off-by-one, a reference not taken back), kept
next to the definition it replaces and marked `Mutant:`, that makes TLC find
that property violated.

## 5. What disagrees

Three runs show that the code does something else than a comment or message of the
repository says. The details are under `findings` in `PROJECT.json`.

1. `mmz_unaligned_zone` / `DistinctAddresses`. In `find_fit_region` the head gap of a zone
   has no test of its own. When its first aligned address lies beyond the
   first block, `end - start` wraps, the gap is accepted, and the new block is
   placed at an address in use; `do_mmb_alloc` prints "media-mem
   allocator bad" and inserts it. It takes a zone whose start is not a multiple
   of a requested alignment. `DistinctAddressesCorrect` proves that it cannot
   happen otherwise.
2. `pciv_restart` / `ReceivedIntoFree`. A READDONE sent before the host has
   handled the slave's FREE arrives after the slave has used the buffer again.
   It is taken for the new picture; the slave sends into the buffer once more and the
   host's assertion that the buffer is free fails.
3. `wtdg_stop` / `StopFindsThread`. The removal tells the thread to end
   before it calls `kthread_stop`; the comment in `osal_task.c` says that a thread
   must not have ended by then.

Ten further configurations check one property each that the code violates in the
same sense. They are run by hand, for instance
`tlc -config MotionSensorGap.cfg MotionSensorBuf`:

- `PcivEarly.cfg` / `ReturnedAfterUse` of `PcivLink`. "After used by VO or VPSS
  or VENC", says `pciv.c:1066`, the buffer is returned. The buffer timer takes no lock
  (`pciv_firmware.c:591`) and believes a buffer free that `pciv_receive_pic` has
  marked but not yet handed to the display, and returns it before it was used;
  the slave's next DMA writes into it while it is shown.
- `IrReopen.cfg` / `Reopenable` of `MCIrReceiver`. "After a number of times to
  close the device, the device can be successfully opened", says a test
  (`ot_ir/sample/sample_ot_ir.c:268`). An open of a second program that is refused
  counts down and up again (`ir.c:476`). A close that counts up between the two
  (`ir.c:510`) finds a result other than one and undoes itself: no file is left, the count stays
  at zero, every later open is refused, and the timer and the queue are kept.
- `IrDelay.cfg` / `RepeatsResume` of `MCIrReceiver`. A repeated key is to be
  suppressed for a time; a delay below 10 ms divided by ten is zero, which
  `osal_set_timer` refuses (`osal_timer.c:53`), and the result is not looked at
  (`ir.c:234`). The flag is set and nothing clears it until the key is released.
- `MmzFixedAlign.cfg` / `Aligned` of `MCMmzAllocator`. "If you need your phys-memory
  have special align size" (`osal_mmz.h:148`): the third allocation call takes an
  alignment like the others. But where the block would stick out of its gap
  `adjust_start_addr` returns `end - len` (`ot_allocator.c:368`), and only the size
  has been rounded: in a zone that ends at 57, a request for two units at 56 with
  alignment 2 is placed at 55. `AsRequested` makes this one exception and no other.
  Nor need the block contain the address as it was given, since that is rounded down
  before (line 484): asked for at 19 with alignment 4, a block may end at 18.
- `MmzUserdevRemap.cfg` / `RemapPossible`. `ioctl_mmb_user_unmap`
  (`mmz_userdev.c:471`) gives its reference up before the flush that may fail, and
  then returns with `mapped` set: the block cannot be remapped any more, contrary
  to the comment at line 334 that it may be remapped more than once. `failed` in `MmzUserdev`
  marks such blocks; `MappedBlockLives` and `DelayedFreeHappens` hold for all others.
- `MotionSensorGap.cfg` / `GapKept`. The gap promised by the comment on `WR_GAP`
  (`motionsensor_buf.h:20`) is kept by comparing one position for equality
  (`motionsensor_buf.c:373`); a read that goes back in time and forward again ends
  inside the gap.
- `MotionSensorUsers.cfg` / `ToplimitMeansFull`. `msensor_buf_delete_user`
  (`motionsensor_buf.c:173`) checks before it locks; two deletes of one user
  decrement the unsigned count twice, after which "motionsensor ID has reached
  toplimit" is printed with all IDs free.
- `OtWtdgIdle.cfg` / `FedWhenIdle`. The thread keeps to the default margin
  (`ot_wtdg.c:317`) while the timer keeps the margin the last program set; with a
  shorter one the idle board is reset, although "a kernel daemon feed watchdog when idle"
  (`wtdg_init.c:25`).
- `IspFirmwareJoin.cfg` / `RunThreadEnds`. A run thread that is between its first and
  its second look at the pipe when an exit passes sets its status to RUN
  (`mpi_isp_entry.c:415`) after the exit has looked at it, and loops for ever,
  though the exit is to "control isp to exit recurrent task" (line 467).
- `IspFirmwareStale.cfg` / `UsesRead`. Without new statistics the firmware is to "use last
  buf" (`isp_statistics.c:92`); after a restart of the ISP `act_stat` still
  points to a node of the old buffers, the test "stat not ready!"
  (`isp.c:3924`) does not help, and it computes on memory no statistics were
  ever written to.

## 6. Fairness

- `MmzUserdev`: weak fairness of `Proceed(s)`, the steps of an ioctl that
  has begun and of a release. They run in the kernel, wait for nothing but
  `g_mmz_lock`, and a release is called by the kernel for every file that
  goes. Weak fairness of `DriverUnmap(b)`: a kernel driver that has mapped a block
  unmaps it in the end. Without that, a block whose program has gone stays, as
  it should; the liveness property would say nothing of the device. No program
  is assumed to do anything.
- `OtWtdg`: weak fairness of the thread, of the removal and of each started call,
  which the scheduler gives, and of time. No program is assumed to begin or to
  close anything.
- `IspFirmware`: weak fairness of each thread while it is inside a call of the
  firmware or the kernel. Nothing makes the application call, nor a frame come:
  a wait for a frame ends without one (by its timeout), so an exit ends without any.
- `IspBeBuf`: weak fairness of the firmware's steps, of the interrupt handler
  once it has begun, and of the consumer giving buffers back; and strong fairness of
  its giving the last one back, since it could otherwise take a new one
  for every one returned. An exit refuses new ones, so only that makes
  `ExitReclaims` true.
- `PcivLink`: weak fairness of message handlers, timers, the waits in start and
  stop, the end of a DMA and the display giving pictures back, which the kernel and
  the hardware give; strong fairness of `VdecSent`, a display that does not refuse a picture
  for ever. Nobody has to send, start or stop.
- The other modules state safety only and assume no fairness.

## 7. Proofs

All proofs are checked by TLAPS for every value of the constants.

**MmzAllocatorProofs** – first, the two searches. Lemmas about alignment and about
the walk: in a finite, non-empty set of disjoint blocks every gap's end is the start of a
block or the end of the zone, and no block reaches into a gap. They lead to
`FitSound` and `FixedSound`: what the two searches return is free memory inside
the zone. The head gap is the heart of the argument. Its test is a wrapping
subtraction, so it is sound only if the aligned start does not lie beyond the
end, and that is where the alignment of the zone is needed. The other way round,
`FitComplete` and `FixedComplete`: where there is an aligned free run, the gap that
holds it begins no later than the run does, so its aligned start does not either, and the search
accepts that gap or has found one it prefers. A tail gap that wraps may be accepted
without being free; it looks larger than the whole zone, so it is never preferred to one
that fits, and the test after the loop refuses it and nothing that fits.

Then the allocator. The inductive invariant is

    IInv == TypeOK /\ ZonesDisjoint /\ NoEmptyBlock /\ WithinZone /\ NoOverlap

`NoOverlap` alone is not inductive: blocks of different zones are disjoint only
because zones are (`ZonesDisjoint`, from `_check_mmz`) and blocks stay in their
zone (`WithinZone`); and an empty block could share an address with another one
without overlap, so no block is empty (`NoEmptyBlock`). The step
has one case for each operation; the three allocations end in one lemma about
inserting a free region. The results are `TypeCorrect`, `NoOverlapCorrect`,
`WithinZoneCorrect` and `DistinctAddressesCorrect`. `PlacedAsRequested`
(`AsRequested`) is an action property that the invariant implies of each step.
`adjust_start_addr` returns the first aligned address of the gap, the address
asked for, which was rounded to the alignment, or `end - len`; the first two are
aligned, and the third ends where the gap does, which is the end of the zone or the start of a block
(`GapLimit`). In each of the three the block lies round the address asked for (`AdjustHolds`). `NoRoomIsMissed` and `NoFixedRoomIsMissed` carry the
completeness of the searches to every reachable state of the zones.

Assumptions: `UnitsAssumption`, `ZoneAssumption`, `RequestAssumption`,
`NoBlockAssumption`, `NoMarkAssumption`, and the three of `MmzDeployment`. The first five say
that numbers are numbers and the values for "none" are not, that a zone does not end beyond the word, and that
alignments of fixed requests are powers of two and no zone starts at 0. The last three are conditions on
how a board is set up, which the code does not check; dropping the first gives
finding 1.

**MmzUserdevProofs** – first, about `MediaMem`: the inductive invariant is
`TypeOK /\ Accounting`. Each function of a block preserves the agreement of block
and rights; an operation changes one block and leaves the others. The results are
`TypeCorrect`, `AccountingCorrect`, `CacheAttributeCorrect` (an action property), and
`LifetimeImplemented`: every step of the counting is a step of
`BlockLifetime` or a stutter (a second free, or a failing map).

Then the device, whose inductive invariant is

    DInv == IInv /\ Typed /\ (\A s, b : Pair(s, b)) /\ (\A b : Held(b))

`IInv` is the invariant of the blocks: every step of the device is a step of a
disciplined caller or leaves them alone, so that part is not proved again. `Held`
says that a block is in one session's list, or in the hands of one unfinished
ioctl, and that the rights `MediaMem` records are those of that session; without it
the next free might put a reference another session has. `Pair` says of a session and
a block what its `pc` tells: where each step of an ioctl left the block (`Placed`),
that a mapping is counted in `map_ref` unless its ioctl is about to count or remove it
(`Mapped`), and that a delayed free that is due is about to happen (`Due`); the
properties speak of sessions between ioctls only, which no step preserves. The
results are `DeviceTypeCorrect`, the four safety properties of the run, and
`DisciplinedCaller`; from that and `LifetimeImplemented` follow `DeviceKeepsAccounts`
and `DeviceKeepsThePromise`: the promise of `BlockLifetime` holds of the device with
all its programs, failures and drivers. The assumptions are that the bounds are
numbers and no bound of `MediaMem` is reached before those of its callers
(`MaxRightsAssumption`, `BoundsAssumption`), and that `NoInfo` is no record
(`NoInfoAssumption`).

**IspStatBufProofs** – three invariants, each used by the next. `TypeOK`;
`OneList`, which is inductive with it (the step is a fact about rotating
concatenated lists, `Rotation`); `MemoryInv`, which says who owns the memory
(the pipe, or a thread inside a call that creates or destroys it, and never two of
them), from which `WrittenIsAllocated` follows; and `MailInv`, which orders what
is in the buffers by frames and gives `ListsAreAMailbox`: each step maps to
one of `StatMailbox` or a stutter. `FirmwareIsAClient` then shows
that every step of `IspFirmware` is one of `IspStatBuf` or leaves its variables
alone, and `FirmwareIsSafe` carries the three results over, for any number
of buffers and frames, without a bound on crashes. The assumptions are that
there is a buffer, that no address is `TD_NULL`, and that the interrupt is no thread.

Then the two threads of the firmware. The properties speak of
one place of the run thread (it computes), or of a moment without calls;
whether the memory is there then is decided by the other thread, in another
function. The inductive invariant, used together with the three above, is

    FInv == Places /\ Apart /\ Calls /\ Memory /\ Mapping /\ Lending

`Places` and `Calls` tie a thread's place to the call it is inside. `Apart` is
the argument about the lock: while the controlling thread serves or leaves, the
run thread is in its locked part only if it has the lock, and once the mutex is
destroyed the run thread is out, or the controlling thread waits for it in
`join`. That second half is what an exit needs that gave up after 40 ms.
`Memory` and `Mapping` say, for each place of the controlling thread, whether
there is memory (`Whole`, `Gone`, or either where a process died), and whether it is mapped;
`Lending` that the kernel's user list is what the run thread has in hand. The
results are `UsesWhatIsMappedAlways` and `BuffersComeBackAlways`. Besides those above
they assume that there are two threads, and that neither is a value of a free or missing lock
(`ThreadsAssumption`).

Last, `FallbackSurvivesAlways`: statistics that are used again, for want of new
ones, are not overwritten while they are used. Nothing locks them; what protects them is an order.
`LatestInv` says that the buffer with the newest frame, once it is free, is at the end of
the free list with all others before it, so that the interrupt comes to it last;
it needs that a thread gives back the only buffer it has, which follows from
`FInv`, and that there is more than one buffer (`SpareAssumption`).

**IspBeBufProofs** – the inductive invariant is the conjunction

    IInv == /\ Typed /\ Stage /\ Queued /\ Placed /\ Blocked /\ Owned
            /\ UseCounted /\ HoldCounted /\ Ordered /\ NoLoss

`Stage` ties the firmware's place to the state of the queue. `Placed` is
`EachInOnePlace` with the fourth place the property leaves out, a node that is lost;
`Queued` is what it says while a queue is being made, when an interrupt may still
have a node of a dead process. `Blocked` says that nodes in use have distinct
memory; then `Owned`, the firmware writes to a node that is on no list,
gives `WritesApart`. `UseCounted` and `HoldCounted` compare the kernel's two counters
with what the consumer has, and say what is left of that when everything has been
taken from under it. `Ordered`, every published node but the newest is held,
is what `StarvesLast` rests on. `NoLoss` promises two things, and the second only while no
process has died and the image mode has not been changed: the interrupt is on only between
the firmware's run and its exit (`Scheduled`), so nothing sets a second buffer
aside, and each buffer has a configuration before it is published (`Kept`). The
results are `TypeCorrect`, `EachInOnePlace`, `WritesApart`, `LosesNothing`,
`CountsAgree`, `StarvesLast`, and `BuffersAreARegister`: every step maps to one of
`ConfigRegister` or a stutter. The assumptions: at least two buffers, the
least `be_buf_num` may be (`ot_common_isp.h:191`; `BufsAssumption`), more configurations than buffers, none
of them zero (`ConfigsAssumption`), bounds are numbers (`BoundsAssumption`).

**OtWtdgProofs** – `OneOpenerAlways`: one program at a time has the watchdog
open, for any number of callers, margins and calls. `files <= 1` is not inductive, because
`g_driver_open` is counted by calls that undo each other. The invariant is

    WInv == Typed /\ Settled /\ OneHolder

`Settled` adds up what the counter will be when every call under way has done
what it owes: `g_driver_open`, the files, and the calls that still have to undo
(`Debtors`) come to one at most. `OneHolder` says that at most one call has counted with success and not yet
its file, and none while there is a file. Each step of a
call moves a unit from one of the three to another. The assumptions are that the
set of callers is finite and contains none of the kernel's threads
(`CallersAssumption`), and that margins are numbers (`MarginAssumption`).

`FedInTimeAlways` has an invariant of its own, which says nothing once calls have met or
the thread was not created (`Excused`):

    FInv == Places /\ (Excused \/ Fed)
    Fed  == ~board_reset /\ Timer /\ CurrentLong /\ Feeding /\ Stage

The board is not reset because of `Feeding`: while the interrupt is raised and the
thread sleeps, it has slept longer than the timer has run down since, and
it sleeps for half the default margin only. That gives a bound only if the load of the
timer is longer than the sleep (`Timer`), which every later start and margin
must keep (`CurrentLong`). It also needs that a thread that wakes may feed:
`g_options` and the state say so whenever the timer runs. That is not
one fact but one for each step of a load, an ioctl and a removal, and `Places` and
`Stage` say it by what the processes still have to do. The hypothesis
`LongMargins`, every margin a program sets is more than half the default one, is
needed: with a default of three seconds and a margin of one TLC finds a reset
(the disagreement of `OtWtdgIdle.cfg`).

**MotionSensorBufProofs** – `BlocksInStepAlways`. The invariant is `BInv`: write
positions, and the one a user being added has copied, are entries of the ring,
and an active user that is not torn has the same entry in every block. The work
is in the read, which moves a position by two searches: a search is the least number of steps to some
place, so it ends only if there is one (`LeastElement`, from the well-founded
order of the numbers, and `Meets`: walking round the ring comes to the write
position within N steps). That the search forward takes at most N steps and that
its first hit lies before the wrap bound the part after the wrap by N - 1, and
then what is released is inside the ring (`ReleasedWithin`); one entry more and
it would not be. Nothing is needed of torn users, whose positions may be beyond the
ring. The assumption is `RingAssumption`: the ring is longer than the gap, which
is positive.

`ReadsWhatIsAskedAlways` needs what the ring holds: counted from the write position,
the entry of rank d is sample `last + 1 + d - N`, or nothing has been written
there (`Stored`). In ranks the ring is straight: the search back goes down no
further than rank 0 (`SearchBack`), the search ahead goes up to the end or to the
first later sample (`SearchAhead`), the hits are the last ones visited, and the two parts
the user is given list them in order (`FoundSamples`). That nothing unread is left
out is a matter of the two ways to be at the write position: a search that has gone
back to it takes the ring for full, and one that began there has nothing unread.

**IrReceiverProofs** – four results from one invariant in two layers. `Typed`,
`Met` and `Once` hold always. `Once` is the argument about `g_ot_ir_s_available`,
which ought to be 0 or 1: what is missing in the count (`Leak`) is at most two, and
who may be about to count depends on it; so at most one program has the device open
(`TypeCorrect`, in which `files` is 0 or 1 and the count is -2 at least), although a
refused open and a close can leave it wrong for ever (`IrReopen.cfg`). The second layer promises
something until accesses meet that the code does not order. `Timed`: a flag that suppresses repeated keys has a timer, or a
handler of it, that clears it; hence `RepeatsResumeAlways`, under the hypothesis
`LongDelays`, no delay below 10 ms, without which it is not so (`IrDelay.cfg`).
`Ordered`: going back from the head, each of the unread entries has the
number before; a reader that has copied an entry has it from the tail; and
what has left the ring is smaller than what is in it. `ReadInOrder` and
`UpIsWhatWentDown` follow, for every length of the ring, any number of keys and any calls.
The assumption is `LengthAssumption`: a ring has two slots or more, as the code
makes sure.

**PcivLinkProofs** – the two chips see the shared buffers only through queues of messages
that cross each other and the restarts, so the invariant speaks of the queues as
well as of the status arrays:

    IInv == /\ Typed /\ Lives
            /\ ~stale => OnePlaceInv
            /\ ~raced /\ ~stale /\ (kind = "live" \/ starts <= 1) => UsedInv
            /\ ~met => OrderInv

`Lives` says which life of the channel each message and picture can be of: what waits
for a DMA is of the slave's current one, the host hears of the lives in order, and
while it is behind a FREE of the current life is still under way. That is what makes a
restart safe: the buffers the host still counts as used do not matter until then, and
when it handles the FREE, no picture of the new life has come before it.
`OnePlaceInv` states the five places as sets of buffers of the current life which are
apart, and that no queue names a buffer twice; the two facts are inductive only together. It
is false once a READDONE from before a start has come after it (`stale`). `UsedInv` adds
what the host uses: what is shown, waits or has just come in is in a busy buffer; what
waits is held; and a picture that has just come shares its buffer with none. So no DMA
goes there, as what is busy is not at the slave (`UsedNotOverwritten`).
`OrderInv` is a chain of numbers from the picture shown last, over the one being offered
again, the queue of refused ones, the one that has just come in, the messages, and
what waits, to the one sent last; and, if nothing was dropped, all numbers in between
are somewhere in the chain. From the second half the action property follows that as many pictures
are shown as the number goes up by (`ShownInOrder`, with a lemma that counts). A
queue occurs in these only by its buffers, its numbers, and that they do not
repeat; one lemma for each operation on a queue (append, take, put back in front,
start of DMA tasks) says what becomes of the three. `GiveBack` returns several buffers at
once, in the order of the scan. The results are `TypeCorrect`, `EachAtOnePlace`,
`UsedNotOverwritten` and `ShownInOrder`, for any number of buffers, any depth
of DMA and any bounds. The assumptions are that there is a buffer and a DMA task, bounds are
numbers (`ParamsAssumption`), and `None` is no buffer or message (`NoneAssumption`).

**Model-checked only.** Liveness (`ReleaseFreesAll`, `RemovalEnds`, `ExitEnds`, `ExitReclaims`, `StopEnds`,
`BuffersComeBack` of `PcivLink`), as the proof system does not reason about
fairness.

## 8. What is simplified, and why it is sound

- Blocks of a zone are a set, since the list is sorted by address and
  `do_mmb_alloc` keeps it so. Two blocks with the same address would have no order
  in the list; `DistinctAddresses` says there are none under the assumptions.
- `find_fixed_region` is stated for blocks that do not overlap: then at most
  one gap contains the address asked for, and the order of the walk does not
  matter.
- Addresses are small numbers, and the grain is two; nothing depends on the page
  size but divisibility.
- In `MmzUserdev` a program hands in records with zero counters and flags: the two
  allocation ioctls copy the whole record of the caller, these fields included
  (`mmz_userdev.c:183` and `:226`), and nothing resets them. `MaxRefs` bounds
  references and mappings alike. A block that is still mapped by some
  program after a failed unmap is not handed out again under the same identity.
  `vm_munmap` is taken not to fail. A release may take the blocks of its
  list in any order.
- In `MotionSensorBuf` the positions of the first four blocks are one; they are
  moved by the same code and can differ only for users added while a sample is
  written, who are marked `torn`. A read holds `mng_lock` and is one step;
  what a user being added does to `g_forward` between its two searches is
  `raced`. A position beyond the ring, which a torn user may have, reads any
  value (`beyond`). `ReadsWhatIsAsked` excludes torn users and raced reads,
  and the hazards say so.
- `TypeOK` of each module, and `FwTypeOK` of `IspFirmware`, describe the values of
  the variables. They hold, but no run spends its time on them; those of
  `MmzAllocator`, `MediaMem`, `MmzUserdev` (`DevTypeOK`), `IspStatBuf`, `IspBeBuf`,
  `IrReceiver` and `PcivLink` are proved.
- In `IspStatBuf` the user list is a set, as its order means nothing. Copying
  statistics is one step; what is measured is the number of the frame.
- In `IspFirmware` the application joins the run thread before it starts over,
  and makes its calls one after the other otherwise. `isp_run_flag`, which an exit
  in the kernel tests, is modelled; stitched pipes and YUV mode are not.
- In `IspBeBuf` the firmware's calls come one after the other, which
  `IspFirmware` shows for the lock and the application is told to ensure
  elsewhere; offline pipes only. Of the failures of `ot_mpi_isp_run_once` that of
  its first ioctl is modelled; the other ioctl fails only without memory, which the
  run has looked at under its lock. `content` is never reused: a configuration is
  one that is in no buffer. History variables limit what is promised: `lost` and
  `switched` (a change of the image mode takes a buffer away from the interrupt),
  `recalled` and `uncounted` (it takes buffers from under the consumer).
- In `PcivLink` messages are neither lost nor reordered (`pciv_drv_adp_send_msg` panics
  if it cannot send), DMA ends in order, starting and stopping the host is
  one step, and pictures of a decoder are sent to be waited for. `TimerLook` is one look,
  where `pciv_firmware_comm.c:583` reads the counts of three users of a buffer and then
  `is_pciv_hold` without a lock, and the sender clears that flag after showing the
  picture (lines 409, 480): one that is shown in between can be given back.
  `TimerRelease` marks such a give-back as `raced`. With the look in two steps the
  properties of the run hold as well (1.5 million states, more than the run can afford). `stale` marks the schedule of finding
  2, `raced` that of `PcivEarly.cfg`, `met` a picture that meets the timer
  between its two looks at `cur_vdec_node`, `dropped` pictures given back unseen;
  the properties say in their comments what they promise without them.
- In `OtWtdg` calls take no time: time waits until every process sleeps or is done.
  `overlap` records that a call has met another call, the loading or the removal;
  `FedInTime` and `RemovalEnds` promise nothing then, because
  with unlocked globals a late call may enable the timer again. `NoDaemon` is
  FALSE in the runs, the default of `g_nodeamon`; with TRUE the properties hold as well
  (117,000 states).
- In `IrReceiver` a repeated key that is suppressed changes nothing and is no step;
  a sleeping reader looks again within 100 ms, so being woken is none either. A slot
  of three words is stored and copied at once, and an expression that reads two
  variables reads them together. A file is closed when no call on it is under way, which the
  kernel sees to. The interrupt does not interrupt itself.

## 9. What is not modelled

- In the memory parts: the search from high addresses (its bitmap is never
  allocated), the list of foreign zones, cache maintenance, address
  translation, parsing of module parameters, unloading with blocks in use, /proc;
  a program's direct `mmap` of the device, which takes no reference, and readers that keep
  a block found by address without one (`mmz_userdev.c:653`).
- In the sample buffer: initialising it and its separate release ioctl.
- In the ISP: online, side-by-side, stitched and YUV modes; the tasks that run
  in step with frames; readers of statistics other than the run thread, which map the active
  buffer without holding it (`mpi_isp.c:642`); algorithms and the 3A libraries,
  which are numerical.
- In PCIV: creating and destroying channels and window buffers, DMA for programs, the slave's own
  queue and scaling.
- In the infrared receiver: `poll`, which looks at the ring before it registers
  and so misses a key that comes between (`ir.c:460`); loading and unloading;
  the ioctls that set the code format.
- CMA back end, OSAL, ot_media, cipher channels: small or
  alike to what is modelled.
- MIPI, sysconfig, chip drivers, codec: register writes; what can go wrong there
  is between the registers and the hardware.
- GFBG: its concurrency is with interrupts of prebuilt modules,
  whose behaviour the source does not show.
- securec, prebuilt libraries, samples, tools: not this project's logic.

## 10. Plan

Done, in this order: zones and searches; life time and its refinement; the
character device on top; proofs for the first two; the sample ring; the
watchdog; the ISP's statistics buffers, their firmware and proofs; the
configuration buffers; the link between chips; proofs about the device and the
watchdog; the infrared receiver; proofs about the firmware's two threads
and the positions in the sample ring; proofs about the configuration buffers and
the infrared receiver, that the searches for memory are complete, that the thread feeds the
watchdog in time, and that a read of samples leaves none out; and proofs about the
link between chips.

Next, by what matters most:

1. **PCIV channels** (`PcivChannel`): create and destroy against timers and
   messages; the queue is freed under the timer that walks it.
2. **OSAL devices and ot_media** (`OsalDevice`): file reference count, dispatch
   against unregistration.
3. **CMA back end** as another implementation of the promise of `MmzAllocator`.
4. **Cipher channels**: handles per process, cleanup when a process dies.

Theorems worth proving next: that `FedInTime` holds of a watchdog whose calls meet, once
the globals are locked; and an abstract specification of the link, a channel that
shows what was sent in order, which `PcivLink` implements.
