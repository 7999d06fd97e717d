------------------------------ MODULE MmzRegions ------------------------------
(***************************************************************************)
(* The two searches for free memory of the media-memory-zone allocator     *)
(* (osal/linux/mmz/ot_allocator.c), as functions of a zone and of the      *)
(* blocks that lie in it.                                                  *)
(*                                                                         *)
(* A zone is a record with at least the fields start and nbytes, a block a *)
(* record with at least start and len (mmb->phys_addr and mmb->length).    *)
(* The code keeps the blocks of a zone in a list sorted by address         *)
(* (do_mmb_alloc inserts in order); here they are a set, and the walk over *)
(* list neighbours is a statement about the gaps between them.             *)
(***************************************************************************)
EXTENDS Integers

CONSTANTS
  Grain,  \* MMZ_GRAIN, the page size in address units
  Word    \* one more than the largest unsigned long

\* Grain and Word are positive, as any page size and word size are.
ASSUME UnitsAssumption == Grain \in Nat \ {0} /\ Word \in Nat \ {0}

-----------------------------------------------------------------------------
(* Arithmetic on addresses *)

\* x rounded up to a multiple of g
mmz_align2(x, g) == IF g = 0 THEN 0 ELSE ((x + g - 1) \div g) * g

\* x rounded up to whole grains
mmz_grain_align(x) == mmz_align2(x, Grain)

\* the subtraction of two unsigned longs, which wraps
Minus(a, b) == (a - b) % Word

\* An alignment as the searches use it: whole grains, and at least one.
EffectiveAlign(align) == IF align = 0 THEN Grain ELSE mmz_grain_align(align)

EndOf(r) == r.start + r.len
ZoneEnd(z) == z.start + z.nbytes
Disjoint(r, s) == EndOf(r) <= s.start \/ EndOf(s) <= r.start

-----------------------------------------------------------------------------
(* The gaps of a zone *)

IsFirst(p, bs) == \A q \in bs : p.start <= q.start
IsLast(p, bs)  == \A q \in bs : q.start <= p.start

\* n is the list neighbour after p
IsNext(p, n, bs) ==
  /\ p.start < n.start
  /\ \A q \in bs : q.start <= p.start \/ n.start <= q.start

\* A gap runs from address "from" to "end"; "start" is the first aligned
\* address at or after "from", and may lie beyond "end".
Gap(kind, from, end, a) ==
  [kind |-> kind, from |-> from, start |-> mmz_align2(from, a), end |-> end]

\* The gaps the searches look at in a zone with blocks bs, bs # {}.
Gaps(z, bs, a) ==
       {Gap("head", z.start, p.start, a) : p \in {q \in bs : IsFirst(q, bs)}}
  \cup {Gap("middle", EndOf(pn[1]), pn[2].start, a) :
            pn \in {qm \in bs \X bs : IsNext(qm[1], qm[2], bs)}}
  \cup {Gap("tail", EndOf(p), ZoneEnd(z), a) : p \in {q \in bs : IsLast(q, bs)}}

-----------------------------------------------------------------------------
(* find_fit_region: best fit *)

\* The test after the loop: the region at s lies in the zone.
InsideZone(z, s, len) ==
  /\ mmz_grain_align(s + len) <= ZoneEnd(z)
  /\ z.start <= s /\ s < ZoneEnd(z)

\* Mutant: the middle gap loses its own test, as the other two have none.
FitGaps_unguarded(z, bs, len, a) == {g \in Gaps(z, bs, a) : Minus(g.end, g.start) >= len}

\* Mutant: a gap of exactly the size is refused.
FitGaps_strict(z, bs, len, a) == {g \in Gaps(z, bs, a) : g.start + len < g.end}

\* The gaps calculate_fixed_region accepts. A middle gap that is too small is
\* skipped before the subtraction; a head or a tail gap is not, and wraps when
\* its aligned start lies beyond its end.
FitGaps(z, bs, len, a) ==
  {g \in Gaps(z, bs, a) :
      /\ g.kind = "middle" => g.start + len <= g.end
      /\ Minus(g.end, g.start) >= len}

\* The smallest gap wins, and among equals the one met first.
Preferred(g, h) ==
  LET gl == Minus(g.end, g.start)
      hl == Minus(h.end, h.start)
  IN  gl < hl \/ (gl = hl /\ g.end <= h.end)

\* The address find_fit_region returns, as a set of one address, or the empty
\* set where it returns 0. The tail gap is checked again after the loop.
find_fit_region(z, bs, size, align) ==
  LET a    == EffectiveAlign(align)
      len  == mmz_grain_align(size)
      fits == FitGaps(z, bs, len, a)
      best == {g \in fits : \A h \in fits : Preferred(g, h)}
      starts ==
        IF bs = {}
          THEN {s \in {mmz_align2(z.start, a)} : InsideZone(z, s, len)}
          ELSE {g.start : g \in
                  {h \in best : h.kind = "tail" => InsideZone(z, h.start, len)}}
  IN  starts \ {0}

-----------------------------------------------------------------------------
(* find_fixed_region: as close as possible to a given address *)

\* Mutant: a block that does not fit before the end goes to the beginning.
adjust_start_addr_front(begin, end, mark, len) ==
  IF begin + len > mark \/ mark + len > end THEN begin ELSE mark

\* The requested address, moved so that the block lies between begin and end.
adjust_start_addr(begin, end, mark, len) ==
  IF begin + len > mark THEN begin
  ELSE IF mark + len > end THEN end - len
  ELSE mark

\* Mutant: a gap of exactly the size is refused.
Enough_strict(g, size) == g.start + size < g.end

\* The gap is large enough: tested by addition at the ends of the zone, by
\* a subtraction of unsigned longs between two blocks.
Enough(g, size) ==
  IF g.kind = "middle" THEN Minus(g.end, g.start) >= size
                       ELSE g.start + size <= g.end

\* The error code and the address for a zone whose blocks do not overlap: then
\* at most one gap contains the requested address.
find_fixed_region(z, bs, mark, size, a) ==
  LET room == {g \in Gaps(z, bs, a) : g.from <= mark /\ mark < g.end /\ Enough(g, size)}
      Result(e, s) == [err |-> e, starts |-> s]
  IN  IF mark < z.start \/ mark >= ZoneEnd(z) THEN Result("OUT_RANGE", {})
      ELSE IF bs = {}
        THEN Result("FREE", {adjust_start_addr(mmz_align2(z.start, a), ZoneEnd(z), mark, size)})
      ELSE IF \E b \in bs : b.start <= mark /\ mark < EndOf(b)
        THEN Result("BUSY", {})
      ELSE IF room = {}
        THEN Result("NOT_ENOUGH", {})
      ELSE Result("FREE", {adjust_start_addr(g.start, g.end, mark, size) : g \in room})
=============================================================================
