------------------------------ MODULE MmzUserdev ------------------------------
(***************************************************************************)
(* The character device that gives media memory to user programs           *)
(* (osal/linux/mmz/mmz_userdev.c). A session is an open file; pmu->sem     *)
(* lets one ioctl of a session run at a time. An ioctl is several calls    *)
(* into media_mem.c, each under g_mmz_lock by itself, so it is several     *)
(* actions here: pc says where it is, and other sessions and the kernel    *)
(* drivers run in between.                                                 *)
(*                                                                         *)
(* Calls into media_mem.c are the actions of module MediaMem, whose Next   *)
(* is replaced by that of the device and the kernel drivers. A program is  *)
(* assumed to hand in an mmb_info with zero counters; it may unmap the     *)
(* memory behind the driver's back, map it read-only, drop a reference its *)
(* mapping has taken, free a block in use, or exit any time.               *)
(* mmap of the file by the program itself changes nothing in the driver    *)
(* and takes no reference: such mappings are left out.                     *)
(***************************************************************************)
EXTENDS MediaMem, FiniteSets

CONSTANTS
  Sessions,  \* open files of the device
  MaxRefs,   \* bound on the mmb_ref and on the map_ref of one block
  MaxMaps,   \* bound on its kernel mappings
  NoInfo     \* there is no mmb_info

ASSUME BoundsAssumption ==
  /\ MaxRefs \in Nat /\ MaxMaps \in Nat
  /\ MaxRefs < MaxRights /\ MaxMaps < MaxRights  \* no bound of MediaMem is reached first

VARIABLES
  sess,         \* [Sessions -> "closed", "open" or "closing"]
  info,         \* [Sessions -> [BlockIds -> mmb_info or NoInfo]], pmu->list
  vma,          \* [Sessions -> [BlockIds -> how the user has the block mapped]]
  pc,           \* [Sessions -> what the running ioctl does next, to which block]
  failed        \* the blocks of which an unmap has failed after it had given its
                \* reference up, a history variable

devvars == <<sess, info, vma, pc, failed>>
allvars == <<mmb, rights, devvars>>

\* A struct mmb_info. "mapped" is p->mapped # NULL.
Info == [mapped : BOOLEAN, map_cached : BOOLEAN, map_ref : Nat, mmb_ref : Nat,
         delayed_free : BOOLEAN]
NewInfo == [mapped |-> FALSE, map_cached |-> FALSE, map_ref |-> 0, mmb_ref |-> 0,
            delayed_free |-> FALSE]

ASSUME NoInfoAssumption == NoInfo \notin Info

\* The user's mapping: none, without or with VM_WRITE.
VMAs == {"none", "ro", "rw"}

Idle == [at |-> "idle"]
At(step, b) == [at |-> step, blk |-> b]

-----------------------------------------------------------------------------
(* Helpers *)

\* get_mmbinfo finds b in the session's list, while no other ioctl runs
Ready(s, b) ==
  /\ sess[s] = "open" /\ pc[s] = Idle
  /\ info[s][b] # NoInfo

SetInfo(s, b, p) == info' = [info EXCEPT ![s][b] = p]
Goto(s, where)   == pc' = [pc EXCEPT ![s] = where]

UnchangedMmb == UNCHANGED <<mmb, rights>>

\* The block may go now: the last reference of a block whose free was delayed.
FreeDue(p) == p.delayed_free /\ p.map_ref = 0 /\ p.mmb_ref = 0

-----------------------------------------------------------------------------
(* Sessions *)

mmz_userdev_open(s) ==
  /\ sess[s] = "closed"
  /\ sess' = [sess EXCEPT ![s] = "open"]
  /\ UnchangedMmb /\ UNCHANGED <<info, vma, pc, failed>>

\* The last reference to the file goes: every mapping of the file holds one, so
\* either none is left or the program exits, which unmaps them first.
Close(s) ==
  /\ sess[s] = "open" /\ pc[s] = Idle
  /\ sess' = [sess EXCEPT ![s] = "closing"]
  /\ vma' = [vma EXCEPT ![s] = [b \in BlockIds |-> "none"]]
  /\ UnchangedMmb /\ UNCHANGED <<info, pc, failed>>

\* The program unmaps, or replaces, a mapping without telling the driver.
UserMunmap(s, b) ==
  /\ vma[s][b] # "none"
  /\ vma' = [vma EXCEPT ![s][b] = "none"]
  /\ UnchangedMmb /\ UNCHANGED <<sess, info, pc, failed>>

-----------------------------------------------------------------------------
(* IOC_MMB_ALLOC: ioctl_mmb_alloc, ioctl_mmb_alloc_v2 *)

\* A block whose identity lives on in some user's mapping is not handed out
\* again in the model; in the code its memory may be.
AllocBlock(s, b) ==
  /\ sess[s] = "open" /\ pc[s] = Idle
  /\ \A t \in Sessions : vma[t][b] = "none"
  /\ ot_mmb_alloc(b)
  /\ Goto(s, At("alloc", b))
  /\ failed' = failed \ {b}
  /\ UNCHANGED <<sess, info, vma>>

\* Mutant: the new block is forgotten when kmalloc fails.
AllocInfo_leaks(s, b) ==
  /\ pc[s] = At("alloc", b)
  /\ \/ ot_mmb_get(b) /\ SetInfo(s, b, NewInfo)
     \/ UnchangedMmb /\ UNCHANGED info
  /\ Goto(s, Idle)
  /\ UNCHANGED <<sess, vma, failed>>

\* Mutant: the failing path puts the reference it has not taken.
AllocInfo_puts(s, b) ==
  /\ pc[s] = At("alloc", b)
  /\ \/ ot_mmb_get(b) /\ SetInfo(s, b, NewInfo)
     \/ ot_mmb_put(b) /\ UNCHANGED info
  /\ Goto(s, Idle)
  /\ UNCHANGED <<sess, vma, failed>>

\* kmalloc of the mmb_info; the new block goes back if it fails.
AllocInfo(s, b) ==
  /\ pc[s] = At("alloc", b)
  /\ \/ ot_mmb_get(b) /\ SetInfo(s, b, NewInfo)
     \/ ot_mmb_free(b) /\ UNCHANGED info
  /\ Goto(s, Idle)
  /\ UNCHANGED <<sess, vma, failed>>

-----------------------------------------------------------------------------
(* IOC_MMB_FREE and _usrdev_mmb_free *)

\* Mutant: the counters are not looked at.
ioctl_mmb_free_now(s, b) ==
  /\ Ready(s, b)
  /\ ~info[s][b].delayed_free
  /\ Goto(s, At("put", b))
  /\ UnchangedMmb /\ UNCHANGED <<sess, info, vma, failed>>

\* ioctl_mmb_free: a block in use is freed later
ioctl_mmb_free(s, b) ==
  /\ Ready(s, b)
  /\ LET p == info[s][b] IN
     /\ ~p.delayed_free
     /\ IF p.map_ref > 0 \/ p.mmb_ref > 0
          THEN SetInfo(s, b, [p EXCEPT !.delayed_free = TRUE]) /\ UNCHANGED pc
          ELSE Goto(s, At("put", b)) /\ UNCHANGED info
  /\ UnchangedMmb /\ UNCHANGED <<sess, vma, failed>>

\* _usrdev_mmb_free: osal_list_del and ot_mmb_put
UsrdevPut(s, b) ==
  /\ pc[s] = At("put", b)
  /\ ot_mmb_put(b)
  /\ SetInfo(s, b, NoInfo)
  /\ Goto(s, At("free", b))
  /\ UNCHANGED <<sess, vma, failed>>

\* Mutant: the block is put but not freed.
UsrdevFree_forgets(s, b) ==
  /\ pc[s] = At("free", b)
  /\ Goto(s, Idle)
  /\ UnchangedMmb /\ UNCHANGED <<sess, info, vma, failed>>

\* _usrdev_mmb_free: ot_mmb_free
UsrdevFree(s, b) ==
  /\ pc[s] = At("free", b)
  /\ ot_mmb_free(b)
  /\ Goto(s, Idle)
  /\ UNCHANGED <<sess, info, vma, failed>>

-----------------------------------------------------------------------------
(* IOC_MMB_USER_REMAP(_CACHED): ioctl_mmb_user_remap *)

\* Mutant: the reference is counted but not taken.
RemapMapped_uncounted(s, b, cached) ==
  /\ Ready(s, b)
  /\ LET p == info[s][b] IN
     /\ p.mapped /\ p.map_ref > 0 /\ cached = p.map_cached
     /\ p.map_ref < MaxRefs /\ p.mmb_ref < MaxRefs
     /\ SetInfo(s, b, [p EXCEPT !.map_ref = @ + 1, !.mmb_ref = @ + 1])
  /\ UnchangedMmb /\ UNCHANGED <<sess, vma, pc, failed>>

\* The block is mapped: one reference more, if the cache attribute agrees.
RemapMapped(s, b, cached) ==
  /\ Ready(s, b)
  /\ LET p == info[s][b] IN
     /\ p.mapped /\ p.map_ref > 0
     /\ cached = p.map_cached
     /\ p.map_ref < MaxRefs /\ p.mmb_ref < MaxRefs
     /\ SetInfo(s, b, [p EXCEPT !.map_ref = @ + 1, !.mmb_ref = @ + 1])
  /\ ot_mmb_get(b)
  /\ UNCHANGED <<sess, vma, pc, failed>>

\* The block is not mapped: vm_mmap calls mmz_userdev_mmap, which refuses a block
\* with p->mapped set; otherwise it may succeed or run out of memory.
RemapFresh(s, b, cached, prot) ==
  /\ Ready(s, b)
  /\ LET p == info[s][b] IN
     /\ ~(p.mapped /\ p.map_ref > 0)
     /\ p.mmb_ref < MaxRefs
     /\ SetInfo(s, b, [p EXCEPT !.map_cached = cached])
     /\ \/ /\ ~p.mapped
           /\ vma' = [vma EXCEPT ![s][b] = prot]
           /\ Goto(s, At("mapped", b))
        \/ UNCHANGED <<vma, pc>>
  /\ UnchangedMmb /\ UNCHANGED <<sess, failed>>

\* vm_mmap has returned an address
RemapDone(s, b) ==
  /\ pc[s] = At("mapped", b)
  /\ SetInfo(s, b, [info[s][b] EXCEPT !.mapped = TRUE, !.map_ref = @ + 1, !.mmb_ref = @ + 1])
  /\ ot_mmb_get(b)
  /\ Goto(s, Idle)
  /\ UNCHANGED <<sess, vma, failed>>

-----------------------------------------------------------------------------
(* IOC_MMB_USER_UNMAP: ioctl_mmb_user_unmap *)

\* The reference goes first; the last mapping is then taken away. A mapping whose
\* reference the program has dropped may find none, and stays (-EIO).
UnmapPut(s, b) ==
  /\ Ready(s, b)
  /\ LET p == info[s][b]
         q == [p EXCEPT !.map_ref = @ - 1, !.mmb_ref = @ - 1]
     IN  /\ p.mapped /\ p.map_ref > 0 /\ p.mmb_ref > 0
         /\ SetInfo(s, b, q)
         /\ IF q.map_ref > 0 THEN UNCHANGED pc ELSE Goto(s, At("munmap", b))
  /\ ot_mmb_put(b)
  /\ UNCHANGED <<sess, vma, failed>>

\* A cached mapping is flushed, which ot_vma_check refuses (-EPERM) unless there
\* is a writable mapping at the address; the ioctl then returns early.
UnmapFails(s, b) ==
  /\ pc[s] = At("munmap", b)
  /\ info[s][b].map_cached /\ vma[s][b] # "rw"
  /\ failed' = failed \cup {b}
  /\ Goto(s, Idle)
  /\ UnchangedMmb /\ UNCHANGED <<sess, info, vma>>

\* vm_munmap, which succeeds on an empty range too, and the delayed free. If the
\* user's mapping has gone, a writable one may have taken its place. (vm_munmap
\* fails only in a program that is being killed: left out.)
UnmapDone(s, b) ==
  /\ pc[s] = At("munmap", b)
  /\ info[s][b].map_cached => vma[s][b] # "ro"
  /\ vma' = [vma EXCEPT ![s][b] = "none"]
  /\ SetInfo(s, b, [info[s][b] EXCEPT !.mapped = FALSE])
  /\ Goto(s, IF FreeDue(info[s][b]) THEN At("put", b) ELSE Idle)
  /\ UnchangedMmb /\ UNCHANGED <<sess, failed>>

-----------------------------------------------------------------------------
(* IOC_MMB_ADD_REF and IOC_MMB_DEC_REF: mmz_userdev_ioctl_r *)

AddRef(s, b) ==
  /\ Ready(s, b)
  /\ info[s][b].mmb_ref < MaxRefs
  /\ SetInfo(s, b, [info[s][b] EXCEPT !.mmb_ref = @ + 1])
  /\ ot_mmb_get(b)
  /\ UNCHANGED <<sess, vma, pc, failed>>

\* Mutant: the delayed free is left to the unmapping.
DecRef_keeps(s, b) ==
  /\ Ready(s, b)
  /\ info[s][b].mmb_ref > 0
  /\ SetInfo(s, b, [info[s][b] EXCEPT !.mmb_ref = @ - 1])
  /\ ot_mmb_put(b)
  /\ UNCHANGED <<sess, vma, pc, failed>>

\* The program gives a reference back: one it has added, or one that its mapping
\* took, which the code does not tell apart. Only map_ref keeps the block then.
DecRef(s, b) ==
  /\ Ready(s, b)
  /\ LET p == info[s][b]
         q == [p EXCEPT !.mmb_ref = @ - 1]
     IN  /\ p.mmb_ref > 0
         /\ SetInfo(s, b, q)
         /\ Goto(s, IF FreeDue(q) THEN At("put", b) ELSE Idle)
  /\ ot_mmb_put(b)
  /\ UNCHANGED <<sess, vma, failed>>

-----------------------------------------------------------------------------
(* mmz_userdev_release *)

\* for (; p->mmb_ref > 0; p->mmb_ref--), then _usrdev_mmb_free, for every block
\* of the list; the model lets the blocks take turns
ReleaseRef(s, b) ==
  /\ sess[s] = "closing" /\ pc[s] = Idle
  /\ info[s][b] # NoInfo
  /\ IF info[s][b].mmb_ref > 0
       THEN /\ ot_mmb_put(b)
            /\ SetInfo(s, b, [info[s][b] EXCEPT !.mmb_ref = @ - 1])
            /\ UNCHANGED pc
       ELSE Goto(s, At("put", b)) /\ UnchangedMmb /\ UNCHANGED info
  /\ UNCHANGED <<sess, vma, failed>>

\* kfree(pmu)
ReleaseDone(s) ==
  /\ sess[s] = "closing" /\ pc[s] = Idle
  /\ \A b \in BlockIds : info[s][b] = NoInfo
  /\ sess' = [sess EXCEPT ![s] = "closed"]
  /\ UnchangedMmb /\ UNCHANGED <<info, vma, pc, failed>>

-----------------------------------------------------------------------------
(* Kernel drivers that are handed a block by its address *)

\* A driver maps a block while its program keeps it.
DriverMap(b) ==
  /\ \E s \in Sessions : Ready(s, b)
  /\ mmb[b].map_ref < MaxMaps
  /\ \E cached \in BOOLEAN : ot_mmb_map2kern(b, cached)
  /\ UNCHANGED devvars

DriverUnmap(b) ==
  /\ rights[b].maps > 0
  /\ ot_mmb_unmap(b)
  /\ UNCHANGED devvars

-----------------------------------------------------------------------------
DevInit ==
  /\ Init
  /\ sess = [s \in Sessions |-> "closed"]
  /\ info = [s \in Sessions |-> [b \in BlockIds |-> NoInfo]]
  /\ vma  = [s \in Sessions |-> [b \in BlockIds |-> "none"]]
  /\ pc   = [s \in Sessions |-> Idle]
  /\ failed = {}

\* The steps of an ioctl that has begun, and of a release
Proceed(s) ==
  \/ \E b \in BlockIds :
       \/ AllocInfo(s, b) \/ RemapDone(s, b)
       \/ UnmapFails(s, b) \/ UnmapDone(s, b)
       \/ UsrdevPut(s, b) \/ UsrdevFree(s, b) \/ ReleaseRef(s, b)
  \/ ReleaseDone(s)

\* The calls a program may make
Call(s) ==
  \/ mmz_userdev_open(s) \/ Close(s)
  \/ \E b \in BlockIds :
       \/ UserMunmap(s, b) \/ AllocBlock(s, b) \/ ioctl_mmb_free(s, b)
       \/ UnmapPut(s, b) \/ AddRef(s, b) \/ DecRef(s, b)
       \/ \E cached \in BOOLEAN :
            \/ RemapMapped(s, b, cached)
            \/ \E prot \in VMAs \ {"none"} : RemapFresh(s, b, cached, prot)

DevNext ==
  \/ \E s \in Sessions : Proceed(s) \/ Call(s)
  \/ \E b \in BlockIds : DriverMap(b) \/ DriverUnmap(b)

\* What has begun in the kernel runs on; drivers unmap in the end what they
\* mapped. Programs need not do anything.
Fairness ==
  /\ \A s \in Sessions : WF_allvars(Proceed(s))
  /\ \A b \in BlockIds : WF_allvars(DriverUnmap(b))

DevSpec == DevInit /\ [][DevNext]_allvars /\ Fairness

-----------------------------------------------------------------------------
(* Correctness *)

Steps == {"alloc", "put", "free", "mapped", "munmap"}

DevTypeOK ==
  /\ TypeOK
  /\ sess \in [Sessions -> {"closed", "open", "closing"}]
  /\ info \in [Sessions -> [BlockIds -> Info \cup {NoInfo}]]
  /\ vma  \in [Sessions -> [BlockIds -> VMAs]]
  /\ pc   \in [Sessions -> {Idle} \cup [at : Steps, blk : BlockIds]]
  /\ failed \subseteq BlockIds

\* The device never frees, puts or gets a block it has no right to: each of its
\* steps, error paths included, is one of a disciplined caller of media_mem.c.
DisciplinedCaller == Spec

\* A live block is in the list of one session, in the hands of one unfinished
\* ioctl, or already released and kept by a driver's mapping: none is leaked,
\* and none is in two lists.
OneOwner ==
  \A b \in BlockIds :
    LET listed  == {s \in Sessions : info[s][b] # NoInfo}
        passing == {s \in Sessions : pc[s] \in {At("alloc", b), At("free", b)}}
    IN  /\ Cardinality(listed) + Cardinality(passing) <= 1
        /\ (listed # {} \/ passing # {}) => mmb[b].live /\ ~mmb[b].RELEASED
        /\ mmb[b].live /\ listed = {} /\ passing = {}
             => mmb[b].RELEASED /\ mmb[b].map_ref > 0

\* Between ioctls a listed block has one reference for the list and one for
\* every reference its program was given; a block that no list has is left with
\* none, so that the driver that unmaps it last frees it.
ReferencesAgree ==
  \A b \in BlockIds :
    /\ \A s \in Sessions :
         info[s][b] # NoInfo /\ pc[s] = Idle => mmb[b].phy_ref = 1 + info[s][b].mmb_ref
    /\ (\A s \in Sessions : info[s][b] = NoInfo) => mmb[b].phy_ref = 0

\* Memory the driver has mapped for a program is not given to anybody else: the
\* block lives as long as the mapping, even if its program has dropped the reference
\* of the mapping, unless an unmap of it has failed.
MappedBlockLives ==
  \A s \in Sessions, b \in BlockIds :
    vma[s][b] # "none" =>
      (info[s][b] # NoInfo /\ mmb[b].live) \/ b \in failed

\* A free that was delayed takes place with the last reference.
DelayedFreeHappens ==
  \A s \in Sessions, b \in BlockIds :
    info[s][b] # NoInfo /\ pc[s] = Idle /\ sess[s] = "open" =>
      (FreeDue(info[s][b]) => b \in failed)

\* A block the driver believes to be mapped can be remapped, as the comment at
\* mmz_userdev.c:333 says: with "mapped" set, RemapMapped is the only remap that
\* can succeed, and it wants a mapping reference.
RemapPossible ==
  \A s \in Sessions, b \in BlockIds :
    info[s][b] # NoInfo /\ pc[s] = Idle /\ sess[s] = "open" =>
      (info[s][b].mapped => info[s][b].map_ref > 0)

\* Whatever a program leaves behind, the release of its file frees it.
ReleaseFreesAll ==
  \A s \in Sessions, b \in BlockIds :
    (sess[s] = "closing" /\ info[s][b] # NoInfo) ~> ~mmb[b].live
=============================================================================
