----------------------------- MODULE MmzAllocator -----------------------------
(***************************************************************************)
(* Where media memory is placed: the registered zones, the blocks cut out  *)
(* of them, and the operations of osal/linux/mmz/media_mem.c and           *)
(* ot_allocator.c that add and remove both. Each operation runs under      *)
(* g_mmz_lock from start to end, so each is one action.                    *)
(*                                                                         *)
(* When a block dies (reference counts, kernel mappings, delayed frees) is *)
(* the subject of module MediaMem; here a live block may be freed any time.*)
(***************************************************************************)
EXTENDS MmzRegions, Sequences, FiniteSets

CONSTANTS
  ZoneIds,       \* the ot_mmz_t objects the system may register
  Zone,          \* [ZoneIds -> ZoneAttr], their attributes
  BlockIds,      \* the ot_mmb_t objects; kmalloc fails when all are in use
  KernelStart,   \* PHYS_OFFSET
  KernelEnd,     \* __pa(high_memory)
  MaxMalloc,     \* g_ot_max_malloc_size, the limit of __mmb_alloc and __mmb_alloc_v3
  MaxMallocV2,   \* 0x40000000, the limit of __mmb_alloc_v2
  AllocRequests, \* arguments of ot_mmb_alloc, ot_mmb_alloc_v2 and _in forms
  FixedRequests, \* arguments of ot_mmb_alloc_v3
  NoBlock,       \* an ot_mmb_t that is not allocated
  NoMark         \* the requested address of a block that asked for none

\* The lists g_mmz_list can be: each zone at most once.
ZoneLists ==
  {zs \in UNION {[1..n -> ZoneIds] : n \in 0..Cardinality(ZoneIds)} :
      \A i, j \in DOMAIN zs : zs[i] = zs[j] => i = j}

PowersOfTwo == {2^i : i \in 0..30}

\* Zones are whole ranges of the address space above address 0, and a zone of
\* equal blocks names the block size.
ASSUME ZoneAssumption ==
  /\ IsFiniteSet(ZoneIds)
  /\ \A id \in ZoneIds :
       /\ Zone[id].start \in Nat \ {0} /\ Zone[id].nbytes \in Nat
       /\ ZoneEnd(Zone[id]) < Word
       /\ Zone[id].block_align \in Nat
       /\ Zone[id].alloc_type = "EQ_BLOCK" => Zone[id].block_align > 0

\* Sizes and addresses are unsigned; a fixed-address request masks its address
\* with ~(align - 1), which rounds it down for powers of two only.
ASSUME RequestAssumption ==
  /\ \A q \in AllocRequests : q.size \in Nat /\ q.align \in Nat
  /\ \A q \in FixedRequests :
       /\ q.size \in Nat /\ q.align \in Nat /\ q.mark \in Nat
       /\ EffectiveAlign(q.align) \in PowersOfTwo

Block == [zone : ZoneIds, start : Nat, len : Nat, align : Nat,
          mark : Nat \cup {NoMark}]

ASSUME NoBlockAssumption == NoBlock \notin Block
ASSUME NoMarkAssumption == NoMark \notin Nat

VARIABLES
  zones,  \* g_mmz_list, the latest registered first
  mmb     \* [BlockIds -> block or NoBlock], the union of the zones' mmb_lists

vars == <<zones, mmb>>

Live == {b \in BlockIds : mmb[b] # NoBlock}
BlocksIn(id) == {mmb[b] : b \in {c \in Live : mmb[c].zone = id}}
Registered == {zones[i] : i \in DOMAIN zones}

-----------------------------------------------------------------------------
(* Zones *)

\* _check_mmz, for two ranges
Conflict(new, old) ==
  /\ new.start < ZoneEnd(old)
  /\ ~(new.start < old.start /\ ZoneEnd(new) <= old.start)

\* _check_mmz: a zone of some size, outside the kernel's memory, that
\* conflicts with no registered zone
CheckMmz(id) ==
  LET z == Zone[id] IN
  /\ z.nbytes # 0
  /\ z.start >= KernelEnd \/ (z.start < KernelStart /\ ZoneEnd(z) <= KernelStart)
  /\ \A old \in Registered : ~Conflict(z, Zone[old])

ot_mmz_register(id) ==
  /\ CheckMmz(id)
  /\ zones' = <<id>> \o zones
  /\ UNCHANGED mmb

\* Mutant: the blocks of the zone are not looked for.
ot_mmz_unregister_unchecked(id) ==
  /\ \E i \in DOMAIN zones :
       /\ zones[i] = id
       /\ zones' = SubSeq(zones, 1, i - 1) \o SubSeq(zones, i + 1, Len(zones))
  /\ UNCHANGED mmb

\* A zone with blocks is not unregistered.
ot_mmz_unregister(id) ==
  /\ BlocksIn(id) = {}
  /\ \E i \in DOMAIN zones :
       /\ zones[i] = id
       /\ zones' = SubSeq(zones, 1, i - 1) \o SubSeq(zones, i + 1, Len(zones))
  /\ UNCHANGED mmb

-----------------------------------------------------------------------------
(* Placing a block *)

\* begin_list_for_each_mmz, with the _user_mmz test that follows it
Matches(id, q) ==
  /\ q.gfp = 0 \/ Zone[id].gfp = q.gfp
  /\ Zone[id].name = q.name
  /\ id \in q.only

\* kmalloc of the ot_mmb_t and do_mmb_alloc
do_mmb_alloc(id, start, len, align, mark) ==
  /\ \E b \in BlockIds \ Live :
       mmb' = [mmb EXCEPT ![b] = [zone |-> id, start |-> start, len |-> len,
                                  align |-> align, mark |-> mark]]
  /\ UNCHANGED zones

\* The position of the zone a request gets, as a set: the first zone of the
\* list that matches and in which find_fit_region, asked for sizes[i],
\* finds a place. Later zones never offer a smaller region.
FittingZone(q, sizes) ==
  LET Fits(i) == /\ Matches(zones[i], q)
                 /\ find_fit_region(Zone[zones[i]], BlocksIn(zones[i]), sizes[i], q.align) # {}
  IN  {i \in DOMAIN zones : Fits(i) /\ \A j \in 1..(i - 1) : ~Fits(j)}

\* ot_mmb_alloc and ot_mmb_alloc_in: __mmb_alloc
ot_mmb_alloc(q) ==
  LET size == mmz_grain_align(q.size) IN
  /\ q.size # 0 /\ q.size <= MaxMalloc
  /\ \E i \in FittingZone(q, [j \in DOMAIN zones |-> size]) :
     \E s \in find_fit_region(Zone[zones[i]], BlocksIn(zones[i]), size, q.align) :
       do_mmb_alloc(zones[i], s, size, EffectiveAlign(q.align), NoMark)

\* mmz_align_power2
mmz_align_power2(size) ==
  CHOOSE p \in PowersOfTwo :
    p >= size /\ \A r \in PowersOfTwo : r >= size => p <= r

\* the size as a zone's alloc_type rounds it
ZoneRound(z, size) ==
  CASE z.alloc_type = "SLAB"     -> mmz_align_power2(size)
    [] z.alloc_type = "EQ_BLOCK" -> mmz_align2(size, z.block_align)
    [] OTHER                     -> size

\* __mmb_alloc_v2 rounds one variable in every matching zone it walks past:
\* SizeAt(zs, q)[i] is its value when zone i of the list zs is searched.
SizeAt(zs, q) ==
  LET f[i \in 0..Len(zs)] ==
        IF i = 0 THEN mmz_grain_align(q.size)
        ELSE IF Matches(zs[i], q) THEN ZoneRound(Zone[zs[i]], f[i - 1])
        ELSE f[i - 1]
  IN  f

\* ot_mmb_alloc_v2 and ot_mmb_alloc_in_v2 with order LOW_TO_HIGH: the region is
\* searched with the size at that zone, the block gets the size at the end.
ot_mmb_alloc_v2(q) ==
  LET sizes == SizeAt(zones, q) IN
  /\ q.size # 0 /\ q.size <= MaxMallocV2
  /\ \E i \in FittingZone(q, sizes) :
     \E s \in find_fit_region(Zone[zones[i]], BlocksIn(zones[i]), sizes[i], q.align) :
       do_mmb_alloc(zones[i], s, sizes[Len(zones)], EffectiveAlign(q.align), NoMark)

\* The alignment, the size and the address __mmb_alloc_v3 searches with.
FixedAlign(q) == EffectiveAlign(q.align)
FixedSize(q)  == mmz_align2(q.size, FixedAlign(q))
FixedMark(q)  == q.mark - (q.mark % FixedAlign(q))

\* What find_fixed_region says of zone id.
FixedIn(id, q) ==
  find_fixed_region(Zone[id], BlocksIn(id), FixedMark(q), FixedSize(q), FixedAlign(q))

\* The search ends at the first matching zone that is not out of range.
ot_mmb_alloc_v3(q) ==
  /\ q.size # 0 /\ q.size <= MaxMalloc
  /\ \E i \in DOMAIN zones :
       LET InRange(j) == /\ Matches(zones[j], q)
                         /\ FixedIn(zones[j], q).err # "OUT_RANGE"
       IN  /\ InRange(i) /\ \A j \in 1..(i - 1) : ~InRange(j)
           /\ \E s \in FixedIn(zones[i], q).starts \ {0} :
                do_mmb_alloc(zones[i], s, FixedSize(q), FixedAlign(q), FixedMark(q))

\* __mmb_free
mmb_free(b) ==
  /\ b \in Live
  /\ mmb' = [mmb EXCEPT ![b] = NoBlock]
  /\ UNCHANGED zones

Init ==
  /\ zones = <<>>
  /\ mmb = [b \in BlockIds |-> NoBlock]

Next ==
  \/ \E id \in ZoneIds : ot_mmz_register(id) \/ ot_mmz_unregister(id)
  \/ \E q \in AllocRequests : ot_mmb_alloc(q) \/ ot_mmb_alloc_v2(q)
  \/ \E q \in FixedRequests : ot_mmb_alloc_v3(q)
  \/ \E b \in BlockIds : mmb_free(b)

Spec == Init /\ [][Next]_vars

-----------------------------------------------------------------------------
(* Correctness *)

TypeOK ==
  /\ zones \in ZoneLists
  /\ mmb \in [BlockIds -> Block \cup {NoBlock}]

\* No two live blocks share an address, whatever zones, sizes and alignments
\* they were asked for with: the search of __mmb_alloc, __mmb_alloc_v2 and
\* __mmb_alloc_v3 returns free memory only.
NoOverlap ==
  \A b, c \in Live : b # c => Disjoint(mmb[b], mmb[c])

\* The error do_mmb_alloc reports as "media-mem allocator bad" while it inserts
\* a block (ot_allocator.c:182): another block of the zone has its address.
DistinctAddresses ==
  \A b, c \in Live : b # c => mmb[b].start # mmb[c].start

\* A live block lies inside a zone that is still registered: neither a search
\* nor ot_mmz_unregister leaves a block outside every zone.
WithinZone ==
  \A b \in Live :
    /\ mmb[b].zone \in Registered
    /\ Zone[mmb[b].zone].start <= mmb[b].start
    /\ EndOf(mmb[b]) <= ZoneEnd(Zone[mmb[b].zone])

\* Registered zones share no address.
ZonesDisjoint ==
  \A i, j \in Registered :
    i # j => ZoneEnd(Zone[i]) <= Zone[j].start \/ ZoneEnd(Zone[j]) <= Zone[i].start

\* Block b ends where the free memory around it does: at the end of its zone
\* or at the start of another block.
EndsAtLimit(b) ==
  \/ EndOf(mmb[b]) = ZoneEnd(Zone[mmb[b].zone])
  \/ \E c \in Live : mmb[c].zone = mmb[b].zone /\ mmb[c].start = EndOf(mmb[b])

\* Where a step that allocates block b puts it: at a multiple of the alignment
\* asked for, or, if an address was asked for, moved down by adjust_start_addr to
\* end where the gap ends, which need not be aligned. Moved or not, it contains
\* the address, as __mmb_alloc_v3 rounds it down.
Placed(b) ==
  LET m == mmb'[b] IN
  /\ m.start % m.align = 0 \/ (m.mark # NoMark /\ EndsAtLimit(b)')
  /\ m.mark # NoMark => m.start <= m.mark /\ m.mark < EndOf(m)

\* A new block is where the request wanted it: aligned, unless a gap too short
\* after the requested address moved it, and never away from the address.
AsRequested == [][\A b \in BlockIds : mmb[b] = NoBlock /\ mmb'[b] # NoBlock => Placed(b)]_vars

\* "if you need your phys-memory have special align size" (osal_mmz.h:148): every
\* block gets the alignment it was asked for.
Aligned == \A b \in Live : mmb[b].start % mmb[b].align = 0

\* A free run of len addresses from s in zone id.
FreeRun(id, s, len) ==
  /\ s + len <= ZoneEnd(Zone[id])
  /\ \A b \in BlocksIn(id) : Disjoint([start |-> s, len |-> len], b)

AlignedIn(id, a) == {s \in Zone[id].start..ZoneEnd(Zone[id]) : s % a = 0}

\* ot_mmb_alloc of some bytes fails only when no matching zone has room: the
\* best-fit walk, with its early exits, misses no aligned free run.
SearchComplete ==
  \A q \in AllocRequests :
    LET size == mmz_grain_align(q.size) IN
    q.size # 0 /\ FittingZone(q, [j \in DOMAIN zones |-> size]) = {} =>
      \A id \in Registered : Matches(id, q) =>
        \A s \in AlignedIn(id, EffectiveAlign(q.align)) : ~FreeRun(id, s, size)

\* ot_mmb_alloc_v3 refuses an address only when no aligned free run of the
\* zone contains it.
FixedSearchComplete ==
  \A q \in FixedRequests : \A id \in Registered :
    FixedIn(id, q).starts = {} =>
      \A s \in AlignedIn(id, FixedAlign(q)) :
        ~(/\ FreeRun(id, s, FixedSize(q))
          /\ s <= FixedMark(q) /\ FixedMark(q) < s + FixedSize(q))
=============================================================================
