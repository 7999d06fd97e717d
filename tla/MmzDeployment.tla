----------------------------- MODULE MmzDeployment -----------------------------
(***************************************************************************)
(* What the allocator of module MmzAllocator relies on and does not check: *)
(* the zones a system is booted with, taken together with the requests its *)
(* drivers make. Each assumption is needed; module MCMmzUnaligned drops the *)
(* first one.                                                              *)
(***************************************************************************)
EXTENDS MmzAllocator

\* A zone starts at a multiple of every alignment asked for, so that the head
\* gap of a zone never ends before its first aligned address.
ASSUME ZonesAligned ==
  \A id \in ZoneIds :
    /\ \A q \in AllocRequests : Zone[id].start % EffectiveAlign(q.align) = 0
    /\ \A q \in FixedRequests : Zone[id].start % FixedAlign(q) = 0

\* A fixed-address request is no larger than a zone: find_fixed_region does not
\* look at the size in an empty zone.
ASSUME FixedRequestsFit ==
  \A q \in FixedRequests : \A id \in ZoneIds : FixedSize(q) <= Zone[id].nbytes

\* Zones that match one request round its size alike: __mmb_alloc_v2 searches a
\* zone with one size and may then give the block the size a later zone rounds to.
\* And no request asks for nothing.
ASSUME SizesAgree ==
  \A q \in AllocRequests : \A zs \in ZoneLists : \A i \in DOMAIN zs :
    Matches(zs[i], q) =>
      /\ SizeAt(zs, q)[i] = SizeAt(zs, q)[Len(zs)]
      /\ SizeAt(zs, q)[i] \in Nat \ {0}
=============================================================================
