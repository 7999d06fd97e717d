-------------------------- MODULE MmzAllocatorProofs --------------------------
(***************************************************************************)
(* Proofs about MmzRegions and MmzAllocator. The searches of MmzRegions    *)
(* return a run of free addresses inside the zone, for every grain, word   *)
(* size, zone and set of blocks; the one condition is that the zone starts *)
(* at a multiple of the alignment. They find one whenever there is one. For *)
(* any zones, requests, grain and word size that meet the assumptions of   *)
(* MmzDeployment, MmzAllocator keeps its types, the registered zones       *)
(* disjoint, and every block in a registered zone, apart from all others   *)
(* and placed as requested; and it refuses a request only for want of room. *)
(***************************************************************************)
EXTENDS MmzDeployment, FiniteSetTheorems, SequenceTheorems, WellFoundedInduction, TLAPS

-----------------------------------------------------------------------------
(* Rounding *)

LEMMA Division ==
  ASSUME NEW x \in Nat, NEW g \in Nat \ {0}
  PROVE  /\ x \div g \in Nat /\ x % g \in 0..(g - 1)
         /\ x = g * (x \div g) + (x % g)
  OBVIOUS

\* mmz_align2 rounds up, by less than a whole unit.
LEMMA AlignBounds ==
  ASSUME NEW x \in Nat, NEW g \in Nat \ {0}
  PROVE  /\ mmz_align2(x, g) \in Nat
         /\ x <= mmz_align2(x, g) /\ mmz_align2(x, g) < x + g
<1> DEFINE k == (x + g - 1) \div g
           r == (x + g - 1) % g
<1>1. k \in Nat /\ r \in 0..(g - 1) /\ x + g - 1 = g * k + r
  <2> DEFINE y == x + g - 1
  <2>1. y \in Nat
    OBVIOUS
  <2> HIDE DEF y
  <2>2. y \div g \in Nat /\ y % g \in 0..(g - 1) /\ y = g * (y \div g) + (y % g)
    BY <2>1, Division
  <2>3. QED
    BY <2>2 DEF y
<1>2. mmz_align2(x, g) = g * k
  BY <1>1 DEF mmz_align2
<1> HIDE DEF k, r
<1>3. QED
  BY <1>1, <1>2

\* mmz_align2 returns the least multiple: no multiple m at or above x is smaller.
LEMMA AlignLeast ==
  ASSUME NEW x \in Nat, NEW g \in Nat \ {0}, NEW m \in Nat, x <= m, m % g = 0
  PROVE  mmz_align2(x, g) <= m
<1> DEFINE k == (x + g - 1) \div g
           j == m \div g
<1>1. k \in Nat /\ g * k < x + g
  BY Division
<1>2. j \in Nat /\ m = g * j
  BY Division
<1>3. mmz_align2(x, g) = g * k
  BY <1>1 DEF mmz_align2
<1> HIDE DEF k, j
<1>4. g * k < g * (j + 1)
  BY <1>1, <1>2
<1>5. k < j + 1
  BY <1>1, <1>2, <1>4
<1>6. g * k <= g * j
  BY <1>1, <1>2, <1>5
<1>7. QED
  BY <1>2, <1>3, <1>6

\* Taking the remainder away rounds down to a multiple.
LEMMA RoundDown ==
  ASSUME NEW x \in Nat, NEW g \in Nat \ {0}
  PROVE  x - (x % g) \in Nat /\ (x - (x % g)) % g = 0
<1> DEFINE k == x \div g
<1>1. k \in Nat /\ x % g \in 0..(g - 1) /\ x = g * k + (x % g)
  BY Division
<1>2. x - (x % g) = g * k
  BY <1>1
<1> HIDE DEF k
<1>3. g * k \in Nat /\ (g * k) % g = 0
  BY <1>1
<1>4. QED
  BY <1>2, <1>3

\* A multiple stays where it is.
LEMMA AlignFixed ==
  ASSUME NEW x \in Nat, NEW g \in Nat \ {0}, x % g = 0
  PROVE  mmz_align2(x, g) = x
<1>1. mmz_align2(x, g) <= x
  BY AlignLeast
<1>2. mmz_align2(x, g) \in Nat /\ x <= mmz_align2(x, g)
  BY AlignBounds
<1>3. QED
  BY <1>1, <1>2

\* What mmz_align2 returns is a multiple.
LEMMA AlignMultiple ==
  ASSUME NEW x \in Nat, NEW g \in Nat \ {0}
  PROVE  mmz_align2(x, g) % g = 0
<1> DEFINE k == (x + g - 1) \div g
<1>1. k \in Nat
  BY Division
<1>2. mmz_align2(x, g) = k * g
  BY DEF mmz_align2
<1> HIDE DEF k
<1>3. k * g = g * k /\ (g * k) % g = 0
  BY <1>1
<1>4. QED
  BY <1>2, <1>3

\* A multiple of a multiple is a multiple.
LEMMA MultipleOfMultiple ==
  ASSUME NEW x \in Nat, NEW a \in Nat \ {0}, NEW g \in Nat \ {0}, x % a = 0, a % g = 0
  PROVE  x % g = 0
<1> DEFINE j == x \div a
           k == a \div g
<1>1. j \in Nat /\ x = a * j
  BY Division
<1>2. k \in Nat /\ a = g * k
  BY Division
<1> DEFINE m == k * j
<1> HIDE DEF j, k
<1>3. x = g * m /\ m \in Nat
  BY <1>1, <1>2
<1> HIDE DEF m
<1>4. (g * m) % g = 0
  BY <1>3
<1>5. QED
  BY <1>3, <1>4

\* The sum of two multiples is a multiple.
LEMMA SumOfMultiples ==
  ASSUME NEW x \in Nat, NEW y \in Nat, NEW g \in Nat \ {0}, x % g = 0, y % g = 0
  PROVE  (x + y) % g = 0
<1> DEFINE j == x \div g
           k == y \div g
<1>1. j \in Nat /\ x = g * j
  BY Division
<1>2. k \in Nat /\ y = g * k
  BY Division
<1> HIDE DEF j, k
<1>3. x + y = g * (j + k) /\ j + k \in Nat
  BY <1>1, <1>2
<1>4. (g * (j + k)) % g = 0
  BY <1>3
<1>5. QED
  BY <1>3, <1>4

\* A positive number is no smaller than a divisor of it.
LEMMA DivisorBound ==
  ASSUME NEW x \in Nat \ {0}, NEW g \in Nat \ {0}, x % g = 0
  PROVE  g <= x
<1> DEFINE j == x \div g
<1>1. j \in Nat /\ x = g * j
  BY Division
<1> HIDE DEF j
<1>2. CASE j = 0
  BY <1>1, <1>2
<1>3. CASE j >= 1
  BY <1>1, <1>3
<1>4. QED
  BY <1>1, <1>2, <1>3

\* The subtraction does not wrap when it has no reason to.
LEMMA MinusExact ==
  ASSUME NEW a \in Nat, NEW b \in Nat, b <= a, a < Word
  PROVE  Minus(a, b) = a - b
  BY UnitsAssumption DEF Minus

\* Where it wraps, it is short of a whole word by what is missing.
LEMMA MinusWraps ==
  ASSUME NEW a \in Nat, NEW b \in Nat, a < b, b < a + Word
  PROVE  Minus(a, b) = Word - (b - a)
<1> DEFINE x == a - b
<1>1. x \in Int /\ -Word < x /\ x < 0
  BY UnitsAssumption
<1> HIDE DEF x
<1>2. x % Word = x + Word
  BY <1>1, UnitsAssumption
<1>3. Minus(a, b) = x % Word /\ x = a - b
  BY DEF Minus, x
<1>4. QED
  BY <1>2, <1>3, UnitsAssumption

LEMMA EffectiveAlignPositive ==
  ASSUME NEW align \in Nat
  PROVE  EffectiveAlign(align) \in Nat \ {0}
  BY UnitsAssumption, AlignBounds DEF EffectiveAlign, mmz_grain_align

\* An alignment is whole grains.
LEMMA EffectiveAlignGrains ==
  ASSUME NEW align \in Nat
  PROVE  EffectiveAlign(align) % Grain = 0
<1>1. Grain % Grain = 0
  BY UnitsAssumption
<1>2. QED
  BY <1>1, AlignMultiple, UnitsAssumption DEF EffectiveAlign, mmz_grain_align

\* A nonempty set of numbers has a least element.
LEMMA LeastElement ==
  ASSUME NEW S \in SUBSET Nat, S # {}
  PROVE  \E m \in S : \A k \in S : m <= k
<1>1. \A x, y \in Nat : <<x, y>> \in OpToRel(<, Nat) <=> x < y
  BY DEF OpToRel
<1>2. \E m \in S : \A k \in S : ~ (<<k, m>> \in OpToRel(<, Nat))
  BY NatLessThanWellFounded, WFMin, Zenon
<1>3. \E m \in S : \A k \in S : ~ (k < m)
  BY <1>1, <1>2, Zenon
<1>4. QED
  BY <1>3, SMT

-----------------------------------------------------------------------------
(* Gaps *)

\* A zone whose end can be represented.
GoodZone(z) == z.start \in Nat /\ z.nbytes \in Nat /\ ZoneEnd(z) < Word

\* Blocks, none of them empty, that lie in the zone and apart from each other.
GoodBlocks(z, bs) ==
  /\ \A p \in bs : /\ p.start \in Nat /\ p.len \in Nat \ {0}
                   /\ z.start <= p.start /\ EndOf(p) <= ZoneEnd(z)
  /\ \A p, q \in bs : p # q => Disjoint(p, q)

\* The len addresses from s lie in the zone and in no block.
FreeRegion(z, bs, s, len) ==
  /\ s \in Nat
  /\ z.start <= s /\ s + len <= ZoneEnd(z)
  /\ \A p \in bs : s + len <= p.start \/ EndOf(p) <= s

\* The ends of a gap, and where the search starts in it.
LEMMA GapShape ==
  ASSUME NEW z, NEW bs, GoodZone(z), GoodBlocks(z, bs), NEW a \in Nat \ {0},
         NEW g \in Gaps(z, bs, a)
  PROVE  /\ g.from \in Nat /\ g.end \in Nat /\ g.start \in Nat
         /\ g.start = mmz_align2(g.from, a) /\ g.from <= g.start
         /\ g.end <= ZoneEnd(z) /\ g.end < Word
         /\ g.kind \in {"head", "middle", "tail"}
         /\ g.kind = "head" => g.from = z.start /\ g.from <= g.end
<1>1. ASSUME NEW p \in bs, g = Gap("head", z.start, p.start, a)
      PROVE  /\ g.from = z.start /\ g.end = p.start
             /\ g.start = mmz_align2(g.from, a) /\ g.kind = "head"
  BY <1>1 DEF Gap
<1>2. ASSUME NEW p \in bs, NEW n \in bs, g = Gap("middle", EndOf(p), n.start, a)
      PROVE  /\ g.from = EndOf(p) /\ g.end = n.start
             /\ g.start = mmz_align2(g.from, a) /\ g.kind = "middle"
  BY <1>2 DEF Gap
<1>3. ASSUME NEW p \in bs, g = Gap("tail", EndOf(p), ZoneEnd(z), a)
      PROVE  /\ g.from = EndOf(p) /\ g.end = ZoneEnd(z)
             /\ g.start = mmz_align2(g.from, a) /\ g.kind = "tail"
  BY <1>3 DEF Gap
<1>4. /\ z.start \in Nat /\ ZoneEnd(z) \in Nat /\ ZoneEnd(z) < Word
      /\ \A p \in bs : /\ p.start \in Nat /\ EndOf(p) \in Nat /\ z.start <= p.start
                       /\ p.start <= ZoneEnd(z)
  BY DEF GoodZone, GoodBlocks, ZoneEnd, EndOf
<1>5. /\ g.from \in Nat /\ g.end \in Nat
      /\ g.start = mmz_align2(g.from, a) /\ g.end <= ZoneEnd(z)
      /\ g.kind \in {"head", "middle", "tail"}
      /\ g.kind = "head" => g.from = z.start /\ g.from <= g.end
  BY <1>1, <1>2, <1>3, <1>4 DEF Gaps
<1>6. g.start \in Nat /\ g.from <= g.start
  BY <1>5, AlignBounds
<1>7. g.end < Word
  BY <1>4, <1>5, UnitsAssumption
<1>8. QED
  BY <1>5, <1>6, <1>7

\* What lies within a gap is free.
LEMMA GapFree ==
  ASSUME NEW z, NEW bs, GoodZone(z), GoodBlocks(z, bs), NEW a \in Nat \ {0},
         NEW g \in Gaps(z, bs, a),
         NEW s \in Nat, NEW len \in Nat, g.from <= s, s + len <= g.end
  PROVE  FreeRegion(z, bs, s, len)
<1>1. /\ z.start \in Nat /\ ZoneEnd(z) \in Nat
      /\ \A p \in bs : /\ p.start \in Nat /\ EndOf(p) \in Nat /\ z.start <= p.start
                       /\ p.start < EndOf(p) /\ EndOf(p) <= ZoneEnd(z)
      /\ \A p, q \in bs : p # q => EndOf(p) <= q.start \/ EndOf(q) <= p.start
  BY DEF GoodZone, GoodBlocks, ZoneEnd, EndOf, Disjoint
<1>2. \A p, q \in bs : q.start <= p.start => EndOf(q) <= EndOf(p)
  BY <1>1
<1>3. ASSUME NEW p \in bs, IsFirst(p, bs), g = Gap("head", z.start, p.start, a)
      PROVE  FreeRegion(z, bs, s, len)
  <2>1. g.from = z.start /\ g.end = p.start
    BY <1>3 DEF Gap
  <2>2. QED
    BY <1>1, <1>3, <2>1 DEF FreeRegion, IsFirst
<1>4. ASSUME NEW p \in bs, NEW n \in bs, IsNext(p, n, bs),
             g = Gap("middle", EndOf(p), n.start, a)
      PROVE  FreeRegion(z, bs, s, len)
  <2>1. g.from = EndOf(p) /\ g.end = n.start
    BY <1>4 DEF Gap
  <2>2. \A q \in bs : EndOf(q) <= EndOf(p) \/ n.start <= q.start
    BY <1>2, <1>4 DEF IsNext
  <2>3. QED
    BY <1>1, <2>1, <2>2 DEF FreeRegion
<1>5. ASSUME NEW p \in bs, IsLast(p, bs), g = Gap("tail", EndOf(p), ZoneEnd(z), a)
      PROVE  FreeRegion(z, bs, s, len)
  <2>1. g.from = EndOf(p) /\ g.end = ZoneEnd(z)
    BY <1>5 DEF Gap
  <2>2. \A q \in bs : EndOf(q) <= EndOf(p)
    BY <1>2, <1>5 DEF IsLast
  <2>3. QED
    BY <1>1, <2>1, <2>2 DEF FreeRegion
<1>6. QED
  BY <1>3, <1>4, <1>5 DEF Gaps

\* A gap does not end before it begins, and begins in the zone.
LEMMA GapOrdered ==
  ASSUME NEW z, NEW bs, GoodZone(z), GoodBlocks(z, bs), NEW a \in Nat \ {0},
         NEW g \in Gaps(z, bs, a)
  PROVE  g.from <= g.end
<1>1. /\ z.start \in Nat /\ ZoneEnd(z) \in Nat
      /\ \A p \in bs : /\ p.start \in Nat /\ EndOf(p) \in Nat /\ z.start <= p.start
                       /\ p.start < EndOf(p) /\ EndOf(p) <= ZoneEnd(z)
      /\ \A p, q \in bs : p # q => EndOf(p) <= q.start \/ EndOf(q) <= p.start
  BY DEF GoodZone, GoodBlocks, ZoneEnd, EndOf, Disjoint
<1>2. ASSUME NEW p \in bs, g = Gap("head", z.start, p.start, a)
      PROVE  g.from <= g.end
  BY <1>1, <1>2 DEF Gap
<1>3. ASSUME NEW p \in bs, NEW n \in bs, IsNext(p, n, bs),
             g = Gap("middle", EndOf(p), n.start, a)
      PROVE  g.from <= g.end
  BY <1>1, <1>3 DEF Gap, IsNext
<1>4. ASSUME NEW p \in bs, g = Gap("tail", EndOf(p), ZoneEnd(z), a)
      PROVE  g.from <= g.end
  BY <1>1, <1>4 DEF Gap
<1>5. QED
  BY <1>2, <1>3, <1>4 DEF Gaps

LEMMA GapInside ==
  ASSUME NEW z, NEW bs, GoodZone(z), GoodBlocks(z, bs), NEW a \in Nat \ {0},
         NEW g \in Gaps(z, bs, a)
  PROVE  z.start <= g.from
<1>1. /\ z.start \in Nat
      /\ \A p \in bs : EndOf(p) \in Nat /\ z.start <= EndOf(p)
  BY DEF GoodZone, GoodBlocks, EndOf
<1>2. QED
  BY <1>1 DEF Gaps, Gap

-----------------------------------------------------------------------------
(* The two searches *)

LEMMA GrainBounds ==
  ASSUME NEW x \in Nat
  PROVE  mmz_grain_align(x) \in Nat /\ x <= mmz_grain_align(x)
  BY AlignBounds, UnitsAssumption DEF mmz_grain_align

\* What the last test of find_fit_region lets through lies in the zone.
LEMMA InsideZoneBounds ==
  ASSUME NEW z, GoodZone(z), NEW s \in Nat, NEW len \in Nat, InsideZone(z, s, len)
  PROVE  z.start <= s /\ s + len <= ZoneEnd(z)
<1>1. s + len \in Nat
  OBVIOUS
<1>2. s + len <= mmz_grain_align(s + len) /\ mmz_grain_align(s + len) \in Nat
  BY <1>1, GrainBounds
<1>3. QED
  BY <1>2 DEF InsideZone, GoodZone, ZoneEnd

\* find_fit_region returns free memory: at the address it returns, size bytes
\* lie in the zone and in no block, although calculate_fixed_region compares
\* sizes with a subtraction that may wrap.
THEOREM FitSound ==
  ASSUME NEW z, NEW bs, GoodZone(z), GoodBlocks(z, bs), NEW size \in Nat, NEW align \in Nat,
         z.start % EffectiveAlign(align) = 0,
         NEW s \in find_fit_region(z, bs, size, align)
  PROVE  FreeRegion(z, bs, s, size)
<1> DEFINE a   == EffectiveAlign(align)
           len == mmz_grain_align(size)
<1>1. a \in Nat \ {0} /\ z.start % a = 0
  BY EffectiveAlignPositive
<1>2. len \in Nat /\ size <= len
  BY GrainBounds
<1> HIDE DEF a, len
<1>3. z.start \in Nat /\ mmz_align2(z.start, a) = z.start
  BY <1>1, AlignFixed DEF GoodZone
<1>4. CASE bs = {}
  <2>1. s = z.start /\ InsideZone(z, s, len)
    BY <1>3, <1>4 DEF find_fit_region, a, len
  <2>2. s \in Nat /\ z.start <= s /\ s + len <= ZoneEnd(z)
    BY <2>1, <1>2, <1>3, InsideZoneBounds
  <2>3. s + size <= ZoneEnd(z)
    BY <2>2, <1>2 DEF GoodZone, ZoneEnd
  <2>4. QED
    BY <2>2, <2>3, <1>4 DEF FreeRegion
<1>5. CASE bs # {}
  <2>1. PICK g \in FitGaps(z, bs, len, a) :
          /\ s = g.start
          /\ g.kind = "tail" => InsideZone(z, g.start, len)
    BY <1>5 DEF find_fit_region, a, len
  <2>2. /\ g \in Gaps(z, bs, a)
        /\ g.kind = "middle" => g.start + len <= g.end
        /\ Minus(g.end, g.start) >= len
    BY <2>1 DEF FitGaps
  <2>3. /\ g.from \in Nat /\ g.end \in Nat /\ g.start \in Nat
        /\ g.start = mmz_align2(g.from, a) /\ g.from <= g.start
        /\ g.end <= ZoneEnd(z) /\ g.end < Word
        /\ g.kind \in {"head", "middle", "tail"}
        /\ g.kind = "head" => g.from = z.start /\ g.from <= g.end
    BY <2>2, <1>1, GapShape
  <2>4. g.start + len <= g.end
    <3>1. CASE g.kind = "head"
      <4>1. g.start = z.start /\ g.start <= g.end
        BY <3>1, <2>3, <1>3
      <4>2. Minus(g.end, g.start) = g.end - g.start
        BY <4>1, <2>3, MinusExact
      <4>3. QED
        BY <4>2, <2>2, <2>3, <1>2
    <3>2. CASE g.kind = "middle"
      BY <3>2, <2>2
    <3>3. CASE g.kind = "tail"
      <4>1. g.start + len <= ZoneEnd(z)
        BY <3>3, <2>1, <2>3, <1>2, InsideZoneBounds
      <4>2. g.end = ZoneEnd(z)
        BY <3>3, <2>2 DEF Gaps, Gap
      <4>3. QED
        BY <4>1, <4>2
    <3>4. QED
      BY <3>1, <3>2, <3>3, <2>3
  <2>5. g.start + size <= g.end
    BY <2>3, <2>4, <1>2
  <2>6. QED
    BY <2>1, <2>2, <2>3, <2>5, <1>1, GapFree
<1>6. QED
  BY <1>4, <1>5

\* adjust_start_addr keeps the block between begin and end if it fits there.
LEMMA AdjustBounds ==
  ASSUME NEW begin \in Nat, NEW end \in Nat, NEW mark \in Nat, NEW len \in Nat,
         begin <= mark, begin + len <= end
  PROVE  LET s == adjust_start_addr(begin, end, mark, len)
         IN  s \in Nat /\ begin <= s /\ s + len <= end
  BY DEF adjust_start_addr

\* find_fixed_region returns free memory, although the test of a gap between two
\* blocks is a subtraction that may wrap: the gap holds the requested address,
\* which is aligned, so it reaches beyond its first aligned address.
THEOREM FixedSound ==
  ASSUME NEW z, NEW bs, GoodZone(z), GoodBlocks(z, bs),
         NEW mark \in Nat, NEW size \in Nat, NEW a \in Nat \ {0},
         mark % a = 0, z.start % a = 0, size <= z.nbytes,
         NEW s \in find_fixed_region(z, bs, mark, size, a).starts
  PROVE  FreeRegion(z, bs, s, size)
<1>1. z.start \in Nat /\ ZoneEnd(z) \in Nat /\ mmz_align2(z.start, a) = z.start
  BY AlignFixed DEF GoodZone, ZoneEnd
<1>2. ~(mark < z.start \/ mark >= ZoneEnd(z))
  BY DEF find_fixed_region
<1>3. CASE bs = {}
  <2>1. s = adjust_start_addr(z.start, ZoneEnd(z), mark, size)
    BY <1>1, <1>2, <1>3 DEF find_fixed_region
  <2>2. z.start + size <= ZoneEnd(z) /\ z.start <= mark
    BY <1>1, <1>2 DEF ZoneEnd, GoodZone
  <2>3. s \in Nat /\ z.start <= s /\ s + size <= ZoneEnd(z)
    BY <2>1, <2>2, <1>1, AdjustBounds
  <2>4. QED
    BY <2>3, <1>3 DEF FreeRegion
<1>4. CASE bs # {}
  <2>1. PICK g \in Gaps(z, bs, a) :
          /\ g.from <= mark /\ mark < g.end /\ Enough(g, size)
          /\ s = adjust_start_addr(g.start, g.end, mark, size)
    BY <1>2, <1>4 DEF find_fixed_region
  <2>2. /\ g.from \in Nat /\ g.end \in Nat /\ g.start \in Nat
        /\ g.start = mmz_align2(g.from, a) /\ g.from <= g.start /\ g.end < Word
    BY GapShape
  <2>3. g.start <= mark /\ g.start <= g.end
    BY <2>1, <2>2, AlignLeast
  <2>4. g.start + size <= g.end
    BY <2>1, <2>2, <2>3, MinusExact DEF Enough
  <2>5. s \in Nat /\ g.start <= s /\ s + size <= g.end
    BY <2>1, <2>2, <2>3, <2>4, AdjustBounds
  <2>6. QED
    BY <2>2, <2>5, GapFree
<1>5. QED
  BY <1>3, <1>4

-----------------------------------------------------------------------------
(* The searches miss nothing *)

\* A free run lies within one gap: the list neighbours of the code are the last
\* block that starts before the run and the first one that starts after it.
LEMMA GapCovers ==
  ASSUME NEW z, NEW bs, GoodZone(z), GoodBlocks(z, bs), bs # {}, NEW a \in Nat \ {0},
         NEW s, NEW len \in Nat \ {0}, FreeRegion(z, bs, s, len)
  PROVE  \E g \in Gaps(z, bs, a) : g.from <= s /\ s + len <= g.end
<1>1. /\ s \in Nat /\ z.start <= s /\ s + len <= ZoneEnd(z)
      /\ z.start \in Nat /\ ZoneEnd(z) \in Nat
      /\ \A p \in bs : /\ p.start \in Nat /\ EndOf(p) \in Nat /\ p.start < EndOf(p)
                       /\ s + len <= p.start \/ EndOf(p) <= s
  BY DEF FreeRegion, GoodZone, GoodBlocks, ZoneEnd, EndOf
<1>2. CASE \A p \in bs : s < p.start
  <2> DEFINE S == {p.start : p \in bs}
  <2>1. S \in SUBSET Nat /\ S # {}
    BY <1>1
  <2>2. PICK m \in S : \A k \in S : m <= k
    BY <2>1, LeastElement
  <2>3. PICK p \in bs : m = p.start
    BY <2>2
  <2>4. IsFirst(p, bs)
    BY <2>2, <2>3 DEF IsFirst
  <2> DEFINE g == Gap("head", z.start, p.start, a)
  <2>5. g \in Gaps(z, bs, a)
    BY <2>4 DEF Gaps
  <2>6. g.from = z.start /\ g.end = p.start
    BY DEF Gap
  <2>7. s + len <= p.start
    BY <1>1, <1>2
  <2>8. QED
    BY <1>1, <2>5, <2>6, <2>7
<1>3. CASE ~(\A p \in bs : s < p.start)
  <2> DEFINE S == {s - p.start : p \in {q \in bs : q.start <= s}}
  <2>1. S \in SUBSET Nat /\ S # {}
    <3>1. \A p \in bs : p.start <= s => s - p.start \in Nat
      BY <1>1
    <3>2. \E p \in bs : p.start <= s
      BY <1>1, <1>3
    <3>3. QED
      BY <3>1, <3>2
  <2>2. PICK m \in S : \A k \in S : m <= k
    BY <2>1, LeastElement
  <2>3. PICK p \in bs : m = s - p.start /\ p.start <= s
    BY <2>2
  <2>4. ASSUME NEW q \in bs
        PROVE  q.start <= p.start \/ s < q.start
    <3>1. CASE q.start <= s
      <4>1. s - q.start \in S
        BY <3>1
      <4>2. s - p.start <= s - q.start
        BY <2>2, <2>3, <4>1
      <4> HIDE DEF S
      <4>3. QED
        BY <1>1, <4>2
    <3>2. CASE ~(q.start <= s)
      BY <1>1, <3>2
    <3>3. QED
      BY <3>1, <3>2
  <2>5. EndOf(p) <= s
    BY <1>1, <2>3
  <2> HIDE DEF S
  <2>6. CASE IsLast(p, bs)
    <3> DEFINE g == Gap("tail", EndOf(p), ZoneEnd(z), a)
    <3>1. g \in Gaps(z, bs, a)
      BY <2>6 DEF Gaps
    <3>2. g.from = EndOf(p) /\ g.end = ZoneEnd(z)
      BY DEF Gap
    <3>3. QED
      BY <1>1, <2>5, <3>1, <3>2
  <2>7. CASE ~IsLast(p, bs)
    <3> DEFINE T == {q.start : q \in {r \in bs : p.start < r.start}}
    <3>1. T \in SUBSET Nat /\ T # {}
      BY <1>1, <2>7 DEF IsLast
    <3>2. PICK t \in T : \A k \in T : t <= k
      BY <3>1, LeastElement
    <3>3. PICK n \in bs : t = n.start /\ p.start < n.start
      BY <3>2
    <3>4. IsNext(p, n, bs)
      BY <1>1, <3>2, <3>3 DEF IsNext
    <3> DEFINE g == Gap("middle", EndOf(p), n.start, a)
    <3>5. g \in Gaps(z, bs, a)
      <4>1. <<p, n>> \in {qm \in bs \X bs : IsNext(qm[1], qm[2], bs)}
        BY <3>4
      <4>2. QED
        BY <4>1 DEF Gaps
    <3>6. g.from = EndOf(p) /\ g.end = n.start
      BY DEF Gap
    <3>7. s + len <= n.start
      BY <1>1, <2>4, <3>3
    <3>8. QED
      BY <2>5, <3>5, <3>6, <3>7
  <2>8. QED
    BY <2>6, <2>7
<1>4. QED
  BY <1>2, <1>3

\* Among gaps that fit there is a preferred one.
LEMMA BestExists ==
  ASSUME NEW fits, fits # {}, \A g \in fits : g.end \in Nat /\ g.start \in Nat
  PROVE  \E g \in fits : \A h \in fits : Preferred(g, h)
<1> DEFINE Width(g) == Minus(g.end, g.start)
<1>1. \A g \in fits : Width(g) \in Nat
  BY UnitsAssumption DEF Minus
<1>2. PICK w \in {Width(g) : g \in fits} : \A k \in {Width(g) : g \in fits} : w <= k
  BY <1>1, LeastElement
<1> DEFINE E == {h.end : h \in {g \in fits : Width(g) = w}}
<1>3. E \in SUBSET Nat /\ E # {}
  BY <1>2
<1>4. PICK e \in E : \A k \in E : e <= k
  BY <1>3, LeastElement
<1>5. PICK g \in fits : Width(g) = w /\ g.end = e
  BY <1>4
<1>6. ASSUME NEW h \in fits
      PROVE  Preferred(g, h)
  <2>1. w <= Width(h) /\ Width(h) \in Nat /\ w \in Nat
    BY <1>1, <1>2
  <2>2. Width(h) = w => e <= h.end
    BY <1>4
  <2>3. Width(g) < Width(h) \/ (Width(g) = Width(h) /\ g.end <= h.end)
    BY <2>1, <2>2, <1>5
  <2>4. QED
    BY <2>3 DEF Preferred
<1>7. QED
  BY <1>6

\* find_fit_region returns 0 only when the zone has no aligned free run of the
\* size. A tail gap whose aligned start lies beyond its end looks larger than the
\* zone, so it never hides a gap that fits; and the test after the loop, which
\* rounds the end of the region to a grain, refuses nothing more.
THEOREM FitComplete ==
  ASSUME NEW z, NEW bs, GoodZone(z), GoodBlocks(z, bs), z.start > 0,
         NEW size \in Nat \ {0}, NEW align \in Nat,
         z.start % EffectiveAlign(align) = 0,
         NEW s, s % EffectiveAlign(align) = 0,
         FreeRegion(z, bs, s, mmz_grain_align(size))
  PROVE  find_fit_region(z, bs, size, align) # {}
<1> DEFINE a   == EffectiveAlign(align)
           len == mmz_grain_align(size)
<1>1. a \in Nat \ {0} /\ a % Grain = 0 /\ z.start % a = 0 /\ s % a = 0
  BY EffectiveAlignPositive, EffectiveAlignGrains
<1>2. len \in Nat \ {0} /\ len % Grain = 0
  BY GrainBounds, AlignMultiple, UnitsAssumption DEF mmz_grain_align
<1>3. FreeRegion(z, bs, s, len)
  OBVIOUS
<1>4. find_fit_region(z, bs, size, align) =
        LET fits == FitGaps(z, bs, len, a)
            best == {g \in fits : \A h \in fits : Preferred(g, h)}
            starts ==
              IF bs = {}
                THEN {t \in {mmz_align2(z.start, a)} : InsideZone(z, t, len)}
                ELSE {g.start : g \in
                        {h \in best : h.kind = "tail" => InsideZone(z, h.start, len)}}
        IN  starts \ {0}
  BY DEF find_fit_region
<1> HIDE DEF a, len
<1>5. /\ z.start \in Nat \ {0} /\ ZoneEnd(z) \in Nat /\ ZoneEnd(z) < Word
      /\ ZoneEnd(z) >= z.start /\ mmz_align2(z.start, a) = z.start /\ Word \in Nat
  BY <1>1, AlignFixed, UnitsAssumption DEF GoodZone, ZoneEnd
<1>6. s \in Nat /\ z.start <= s /\ s + len <= ZoneEnd(z)
  BY <1>3 DEF FreeRegion
\* An aligned region that ends in the zone passes the test after the loop.
<1>7. ASSUME NEW t \in Nat, t % a = 0, z.start <= t, t + len <= ZoneEnd(z)
      PROVE  InsideZone(z, t, len)
  <2>1. Grain \in Nat \ {0}
    BY UnitsAssumption
  <2>2. t % Grain = 0
    BY ONLY <1>1, <1>7, <2>1, MultipleOfMultiple
  <2>3. (t + len) % Grain = 0 /\ t + len \in Nat
    <3>1. len \in Nat /\ len % Grain = 0
      BY <1>2
    <3>2. t + len \in Nat
      BY <3>1
    <3>3. (t + len) % Grain = 0
      BY ONLY t \in Nat, <2>1, <2>2, <3>1, SumOfMultiples, Zenon
    <3>4. QED
      BY <3>2, <3>3
  <2>4. mmz_grain_align(t + len) = t + len
    BY <2>1, <2>3, AlignFixed DEF mmz_grain_align
  <2>5. QED
    BY <1>2, <1>5, <1>7, <2>4 DEF InsideZone
<1>8. CASE bs = {}
  <2>1. z.start + len <= ZoneEnd(z)
    BY <1>2, <1>5, <1>6
  <2>2. InsideZone(z, z.start, len)
    BY <1>1, <1>5, <1>7, <2>1
  <2>3. QED
    BY <1>4, <1>5, <1>8, <2>2
<1>9. CASE bs # {}
  <2> DEFINE fits == FitGaps(z, bs, len, a)
  <2>1. ASSUME NEW g \in fits
        PROVE  /\ g \in Gaps(z, bs, a)
               /\ g.from \in Nat /\ g.end \in Nat /\ g.start \in Nat
               /\ g.start = mmz_align2(g.from, a) /\ g.from <= g.start
               /\ g.end <= ZoneEnd(z) /\ g.end < Word
               /\ g.kind \in {"head", "middle", "tail"}
               /\ Minus(g.end, g.start) >= len
    <3>1. g \in Gaps(z, bs, a) /\ Minus(g.end, g.start) >= len
      BY <2>1 DEF FitGaps
    <3>2. QED
      BY <3>1, <1>1, GapShape
  \* the gap around the run fits, and is no larger than the zone
  <2>2. PICK c \in fits : Minus(c.end, c.start) <= ZoneEnd(z) - z.start
    <3>1. PICK g \in Gaps(z, bs, a) : g.from <= s /\ s + len <= g.end
      BY <1>1, <1>2, <1>3, <1>9, GapCovers
    <3>2. /\ g.from \in Nat /\ g.end \in Nat /\ g.start \in Nat
          /\ g.start = mmz_align2(g.from, a) /\ g.from <= g.start
          /\ g.end <= ZoneEnd(z) /\ g.end < Word
      BY <1>1, GapShape
    <3>3. g.start <= s
      BY <1>1, <1>6, <3>1, <3>2, AlignLeast
    <3>4. g.start + len <= g.end
      BY <1>2, <1>6, <3>1, <3>2, <3>3
    <3>5. Minus(g.end, g.start) = g.end - g.start
      BY <1>2, <3>2, <3>4, MinusExact
    <3>6. g \in fits
      BY <1>2, <3>1, <3>2, <3>4, <3>5 DEF FitGaps
    <3>7. z.start <= g.from
      BY <1>1, <3>1, GapInside
    <3>8. QED
      BY <1>5, <3>2, <3>5, <3>6, <3>7
  <2> HIDE DEF fits
  <2>3. PICK g \in fits : \A h \in fits : Preferred(g, h)
    BY <2>1, <2>2, BestExists
  <2>4. Minus(g.end, g.start) <= ZoneEnd(z) - z.start
    <3>1. Preferred(g, c)
      BY <2>3
    <3>2. Minus(g.end, g.start) \in Int /\ Minus(c.end, c.start) \in Int
      BY <2>1, UnitsAssumption DEF Minus
    <3>3. QED
      BY <1>5, <2>2, <3>1, <3>2 DEF Preferred
  <2>5. z.start <= g.from
    BY <1>1, <2>1, GapInside
  \* so the subtraction did not wrap
  <2>6. g.start <= g.end
    <3> SUFFICES ASSUME g.end < g.start PROVE FALSE
      BY <2>1
    <3>1. g.start < g.from + a
      BY <1>1, <2>1, AlignBounds
    <3>2. g.from <= g.end
      BY <1>1, <2>1, GapOrdered
    <3>3. a <= z.start
      BY <1>1, <1>5, DivisorBound
    <3>4. g.start - g.end < a /\ g.start < g.end + Word
      BY <1>1, <1>5, <2>1, <3>1, <3>2, <3>3
    <3>5. Minus(g.end, g.start) = Word - (g.start - g.end)
      BY <2>1, <3>4, MinusWraps
    <3>6. QED
      BY <1>1, <1>5, <2>1, <2>4, <3>3, <3>4, <3>5
  <2>7. g.start + len <= g.end
    <3>1. Minus(g.end, g.start) = g.end - g.start
      BY <2>1, <2>6, MinusExact
    <3>2. QED
      BY <1>2, <2>1, <3>1
  <2>8. InsideZone(z, g.start, len)
    <3>1. g.start % a = 0
      BY <1>1, <2>1, AlignMultiple
    <3>2. QED
      BY <1>2, <1>5, <1>7, <2>1, <2>5, <2>7, <3>1
  <2>9. g.start # 0
    BY <1>5, <2>1, <2>5
  <2>10. QED
    BY <1>4, <1>9, <2>3, <2>8, <2>9 DEF fits
<1>10. QED
  BY <1>8, <1>9

\* find_fixed_region finds no room, or a block in the way, only when no aligned
\* free run of the zone contains the address.
THEOREM FixedComplete ==
  ASSUME NEW z, NEW bs, GoodZone(z), GoodBlocks(z, bs),
         NEW mark \in Nat, NEW size \in Nat, NEW a \in Nat \ {0},
         NEW s, s % a = 0, FreeRegion(z, bs, s, size), s <= mark, mark < s + size
  PROVE  find_fixed_region(z, bs, mark, size, a).starts # {}
<1>1. /\ s \in Nat /\ z.start <= s /\ s + size <= ZoneEnd(z) /\ size # 0
      /\ z.start \in Nat /\ ZoneEnd(z) \in Nat
  BY DEF FreeRegion, GoodZone, ZoneEnd
<1>2. ~(mark < z.start \/ mark >= ZoneEnd(z))
  BY <1>1
<1>3. CASE bs = {}
  BY <1>2, <1>3 DEF find_fixed_region
<1>4. CASE bs # {}
  <2>1. ~(\E b \in bs : b.start <= mark /\ mark < EndOf(b))
    <3>1. \A b \in bs : b.start \in Nat /\ EndOf(b) \in Nat
      BY DEF GoodBlocks, EndOf
    <3>2. QED
      BY <1>1, <3>1 DEF FreeRegion
  <2>2. PICK g \in Gaps(z, bs, a) : g.from <= s /\ s + size <= g.end
    BY <1>1, <1>4, GapCovers
  <2>3. /\ g.from \in Nat /\ g.end \in Nat /\ g.start \in Nat
        /\ g.start = mmz_align2(g.from, a) /\ g.end < Word
    BY GapShape
  <2>4. g.start <= s /\ g.start + size <= g.end
    BY <1>1, <2>2, <2>3, AlignLeast
  <2>5. Minus(g.end, g.start) = g.end - g.start
    BY <1>1, <2>3, <2>4, MinusExact
  <2>6. g.from <= mark /\ mark < g.end /\ Enough(g, size)
    <3>1. Enough(g, size)
      BY <2>3, <2>4, <2>5 DEF Enough
    <3>2. g.from <= mark /\ mark < g.end
      BY <1>1, <2>2, <2>3
    <3>3. QED
      BY <3>1, <3>2
  <2> DEFINE room == {h \in Gaps(z, bs, a) :
                        h.from <= mark /\ mark < h.end /\ Enough(h, size)}
  <2>7. find_fixed_region(z, bs, mark, size, a).starts =
          {adjust_start_addr(h.start, h.end, mark, size) : h \in room}
    BY <1>2, <1>4, <2>1, <2>6 DEF find_fixed_region
  <2>8. g \in room
    BY <2>6
  <2>9. QED
    BY <2>7, <2>8
<1>5. QED
  BY <1>3, <1>4

-----------------------------------------------------------------------------
(* Lists of zones *)

LEMMA ZoneListFacts ==
  ASSUME NEW zs \in ZoneLists
  PROVE  /\ Len(zs) \in Nat /\ DOMAIN zs = 1..Len(zs)
         /\ zs \in [1..Len(zs) -> ZoneIds] /\ zs \in Seq(ZoneIds)
         /\ \A i, j \in 1..Len(zs) : zs[i] = zs[j] => i = j
<1>1. PICK n \in 0..Cardinality(ZoneIds) : zs \in [1..n -> ZoneIds]
  BY DEF ZoneLists
<1>2. n \in Nat
  BY <1>1, FS_CardinalityType, ZoneAssumption
<1>3. zs \in Seq(ZoneIds) /\ Len(zs) = n
  BY <1>1, <1>2, IsASeq, LenProperties
<1>4. QED
  BY <1>1, <1>2, <1>3 DEF ZoneLists

\* A list without repetition is no longer than there are zones.
LEMMA IsZoneList ==
  ASSUME NEW n \in Nat, NEW zs \in [1..n -> ZoneIds],
         \A i, j \in 1..n : zs[i] = zs[j] => i = j
  PROVE  zs \in ZoneLists
<1>1. zs \in Injection(1..n, ZoneIds)
  BY DEF Injection, IsInjective
<1>2. Cardinality(1..n) <= Cardinality(ZoneIds)
  BY <1>1, FS_Injection, ZoneAssumption
<1>3. Cardinality(1..n) = n
  BY FS_Interval
<1>4. n \in 0..Cardinality(ZoneIds)
  BY <1>2, <1>3, FS_CardinalityType, ZoneAssumption
<1>5. QED
  BY <1>4 DEF ZoneLists

-----------------------------------------------------------------------------
(* The invariant *)

\* No block is empty: the searches look at gaps between blocks in address order,
\* which says nothing of a block without addresses.
NoEmptyBlock == \A b \in Live : mmb[b].len > 0

\* The inductive invariant. Blocks in one zone are kept apart by the searches,
\* blocks in different zones by lying in zones that are disjoint.
IInv == TypeOK /\ ZonesDisjoint /\ NoEmptyBlock /\ WithinZone /\ NoOverlap

LEMMA LiveBlock ==
  ASSUME TypeOK, NEW b \in Live
  PROVE  b \in BlockIds /\ mmb[b] \in Block
  BY DEF TypeOK, Live

\* What the search lemmas ask of a zone and of its blocks.
LEMMA ZoneIsGood ==
  ASSUME NEW id \in ZoneIds
  PROVE  GoodZone(Zone[id])
  BY ZoneAssumption DEF GoodZone

LEMMA BlocksAreGood ==
  ASSUME IInv, NEW id \in ZoneIds
  PROVE  GoodBlocks(Zone[id], BlocksIn(id))
<1>1. ASSUME NEW p \in BlocksIn(id)
      PROVE  \E b \in Live : p = mmb[b] /\ mmb[b].zone = id
  BY <1>1 DEF BlocksIn
<1>2. ASSUME NEW p \in BlocksIn(id)
      PROVE  /\ p.start \in Nat /\ p.len \in Nat \ {0}
             /\ Zone[id].start <= p.start /\ EndOf(p) <= ZoneEnd(Zone[id])
  <2>1. PICK b \in Live : p = mmb[b] /\ mmb[b].zone = id
    BY <1>1, <1>2
  <2>2. mmb[b] \in Block
    BY LiveBlock DEF IInv
  <2>3. mmb[b].len > 0
    BY DEF IInv, NoEmptyBlock
  <2>4. Zone[id].start <= mmb[b].start /\ EndOf(mmb[b]) <= ZoneEnd(Zone[id])
    BY <2>1 DEF IInv, WithinZone
  <2>5. QED
    BY <2>1, <2>2, <2>3, <2>4 DEF Block
<1>3. ASSUME NEW p \in BlocksIn(id), NEW q \in BlocksIn(id), p # q
      PROVE  Disjoint(p, q)
  BY <1>1, <1>3 DEF IInv, NoOverlap
<1>4. QED
  BY <1>2, <1>3 DEF GoodBlocks

-----------------------------------------------------------------------------
(* Zones come and go *)

LEMMA InitIInv == Init => IInv
<1> SUFFICES ASSUME Init PROVE IInv
  OBVIOUS
<1>1. Live = {}
  BY DEF Init, Live
<1>2. zones \in [1..0 -> ZoneIds]
  BY DEF Init
<1>3. zones \in ZoneLists
  <2>1. \A i, j \in 1..0 : zones[i] = zones[j] => i = j
    OBVIOUS
  <2>2. 0 \in Nat
    OBVIOUS
  <2>3. QED
    BY <1>2, <2>1, <2>2, IsZoneList
<1>4. Registered = {}
  BY DEF Init, Registered
<1>5. mmb \in [BlockIds -> Block \cup {NoBlock}]
  BY DEF Init
<1>6. QED
  BY <1>1, <1>3, <1>4, <1>5
     DEF IInv, TypeOK, ZonesDisjoint, NoEmptyBlock, WithinZone, NoOverlap

\* A zone that passes _check_mmz is not registered yet and meets none that is.
LEMMA CheckedZone ==
  ASSUME IInv, NEW id \in ZoneIds, CheckMmz(id)
  PROVE  /\ id \notin Registered
         /\ \A old \in Registered : \/ ZoneEnd(Zone[id]) <= Zone[old].start
                                    \/ ZoneEnd(Zone[old]) <= Zone[id].start
<1>1. Registered \subseteq ZoneIds
  BY ZoneListFacts DEF IInv, TypeOK, Registered
<1>2. \A i \in ZoneIds : Zone[i].start \in Nat /\ Zone[i].nbytes \in Nat
  BY ZoneAssumption
<1>3. QED
  BY <1>1, <1>2 DEF CheckMmz, Conflict, ZoneEnd

LEMMA RegisterKeeps ==
  ASSUME IInv, NEW id \in ZoneIds, ot_mmz_register(id)
  PROVE  IInv'
<1> DEFINE n == Len(zones)
<1>1. /\ n \in Nat /\ DOMAIN zones = 1..n /\ zones \in [1..n -> ZoneIds]
      /\ zones \in Seq(ZoneIds)
      /\ \A i, j \in 1..n : zones[i] = zones[j] => i = j
  BY ZoneListFacts DEF IInv, TypeOK
<1>2. /\ id \notin Registered
      /\ \A old \in Registered : \/ ZoneEnd(Zone[id]) <= Zone[old].start
                                 \/ ZoneEnd(Zone[old]) <= Zone[id].start
  BY CheckedZone DEF ot_mmz_register
<1>3. Registered = {zones[i] : i \in 1..n}
  BY <1>1 DEF Registered
<1> HIDE DEF n
<1>4. zones' = <<id>> \o zones /\ mmb' = mmb
  BY DEF ot_mmz_register
<1>5. /\ zones' \in [1..(n + 1) -> ZoneIds]
      /\ \A i \in 1..(n + 1) : zones'[i] = IF i = 1 THEN id ELSE zones[i - 1]
  <2>1. <<id>> \in Seq(ZoneIds) /\ Len(<<id>>) = 1
    OBVIOUS
  <2>2. /\ Len(zones') = n + 1 /\ zones' \in Seq(ZoneIds)
        /\ \A i \in 1..(n + 1) : zones'[i] = IF i <= 1 THEN <<id>>[i] ELSE zones[i - 1]
    BY <2>1, <1>1, <1>4, ConcatProperties DEF n
  <2>3. QED
    BY <2>2, LenProperties
<1>6. \A i, j \in 1..(n + 1) : zones'[i] = zones'[j] => i = j
  BY <1>1, <1>2, <1>3, <1>5
<1>7. zones' \in ZoneLists
  BY <1>1, <1>5, <1>6, IsZoneList
<1>8. Registered' = Registered \cup {id}
  <2>1. DOMAIN zones' = 1..(n + 1)
    BY <1>5
  <2>2. ASSUME NEW i \in 1..n
        PROVE  i + 1 \in 1..(n + 1) /\ zones'[i + 1] = zones[i]
    BY <1>1, <1>5
  <2>3. ASSUME NEW i \in 1..(n + 1), i # 1
        PROVE  i - 1 \in 1..n /\ zones'[i] = zones[i - 1]
    BY <1>1, <1>5, <2>3
  <2>4. 1 \in 1..(n + 1) /\ zones'[1] = id
    BY <1>1, <1>5
  <2>5. \A x : x \in Registered' <=> \E i \in 1..(n + 1) : zones'[i] = x
    BY <2>1 DEF Registered
  <2>6. \A x : x \in Registered <=> \E i \in 1..n : zones[i] = x
    BY <1>3
  <2>7. ASSUME NEW x \in Registered'
        PROVE  x \in Registered \cup {id}
    <3>1. PICK i \in 1..(n + 1) : zones'[i] = x
      BY <2>5
    <3>2. CASE i = 1
      BY <2>4, <3>1, <3>2
    <3>3. CASE i # 1
      BY <2>3, <2>6, <3>1, <3>3
    <3>4. QED
      BY <3>2, <3>3
  <2>8. ASSUME NEW x \in Registered
        PROVE  x \in Registered'
    BY <2>2, <2>5, <2>6
  <2>9. id \in Registered'
    BY <2>4, <2>5
  <2>10. QED
    BY <2>7, <2>8, <2>9
<1>9. QED
  BY <1>2, <1>4, <1>7, <1>8
     DEF IInv, TypeOK, ZonesDisjoint, NoEmptyBlock, WithinZone, NoOverlap, Live

LEMMA UnregisterKeeps ==
  ASSUME IInv, NEW id \in ZoneIds, ot_mmz_unregister(id)
  PROVE  IInv'
<1> DEFINE n == Len(zones)
<1>1. /\ n \in Nat /\ DOMAIN zones = 1..n /\ zones \in [1..n -> ZoneIds]
      /\ \A i, j \in 1..n : zones[i] = zones[j] => i = j
  BY ZoneListFacts DEF IInv, TypeOK
<1> HIDE DEF n
<1>2. PICK k \in 1..n : /\ zones[k] = id
                        /\ zones' = SubSeq(zones, 1, k - 1) \o SubSeq(zones, k + 1, n)
  BY <1>1 DEF ot_mmz_unregister, n
<1>3. /\ zones' \in [1..(n - 1) -> ZoneIds]
      /\ \A i \in 1..(n - 1) : zones'[i] = zones[IF i < k THEN i ELSE i + 1]
  <2> DEFINE front == SubSeq(zones, 1, k - 1)
             back  == SubSeq(zones, k + 1, n)
  <2>1. /\ front \in Seq(ZoneIds) /\ Len(front) = k - 1
        /\ \A i \in 1..(k - 1) : front[i] = zones[i]
    BY <1>1, SubSeqProperties
  <2>2. /\ back \in Seq(ZoneIds) /\ Len(back) = n - k
        /\ \A i \in 1..(n - k) : back[i] = zones[k + i]
    BY <1>1, SubSeqProperties
  <2>3. zones' = front \o back
    BY <1>2
  <2> HIDE DEF front, back
  <2>4. /\ zones' \in Seq(ZoneIds) /\ Len(zones') = Len(front) + Len(back)
        /\ \A i \in 1..(Len(front) + Len(back)) :
             zones'[i] = IF i <= Len(front) THEN front[i] ELSE back[i - Len(front)]
    BY <2>1, <2>2, <2>3, ConcatProperties
  <2>5. Len(front) + Len(back) = n - 1
    BY <1>1, <2>1, <2>2
  <2>6. zones' \in [1..(n - 1) -> ZoneIds]
    BY <2>4, <2>5, LenProperties
  <2>7. ASSUME NEW i \in 1..(n - 1)
        PROVE  zones'[i] = zones[IF i < k THEN i ELSE i + 1]
    <3>1. CASE i < k
      <4>1. i <= Len(front) /\ i \in 1..(k - 1)
        BY <2>1, <3>1
      <4>2. zones'[i] = IF i <= Len(front) THEN front[i] ELSE back[i - Len(front)]
        BY <2>4, <2>5
      <4>3. QED
        BY <4>1, <4>2, <2>1, <3>1
    <3>2. CASE i >= k
      <4>1. zones'[i] = back[i - (k - 1)]
        <5>1. ~(i <= Len(front)) /\ Len(front) = k - 1
          BY <2>1, <3>2
        <5>2. zones'[i] = IF i <= Len(front) THEN front[i] ELSE back[i - Len(front)]
          BY <2>4, <2>5
        <5>3. QED
          BY <5>1, <5>2
      <4>2. i - (k - 1) \in 1..(n - k) /\ k + (i - (k - 1)) = i + 1
        BY <1>1, <3>2
      <4>3. QED
        BY <4>1, <4>2, <2>2, <3>2
    <3>3. QED
      BY <3>1, <3>2
  <2>8. QED
    BY <2>6, <2>7
<1>4. \A i, j \in 1..(n - 1) : zones'[i] = zones'[j] => i = j
  BY <1>1, <1>3
<1>5. zones' \in ZoneLists
  BY <1>1, <1>3, <1>4, IsZoneList
<1>6. Registered' = Registered \ {id}
  <2>1. Registered = {zones[i] : i \in 1..n} /\ Registered' = {zones'[i] : i \in 1..(n - 1)}
    BY <1>1, <1>3 DEF Registered
  <2>2. ASSUME NEW i \in 1..(n - 1)
        PROVE  zones'[i] \in Registered /\ zones'[i] # id
    <3>1. PICK j \in 1..n : j # k /\ zones'[i] = zones[j]
      BY <1>1, <1>3
    <3>2. QED
      BY <1>1, <1>2, <2>1, <3>1
  <2>3. ASSUME NEW i \in 1..n, i # k
        PROVE  \E j \in 1..(n - 1) : zones'[j] = zones[i]
    <3>1. CASE i < k
      BY <1>1, <1>3, <3>1
    <3>2. CASE i > k
      <4>1. i - 1 \in 1..(n - 1) /\ zones'[i - 1] = zones[i]
        BY <1>1, <1>3, <3>2
      <4>2. QED
        BY <4>1
    <3>3. QED
      BY <2>3, <3>1, <3>2
  <2>4. ASSUME NEW x \in Registered'
        PROVE  x \in Registered \ {id}
    BY <2>1, <2>2
  <2>5. ASSUME NEW x \in Registered \ {id}
        PROVE  x \in Registered'
    <3>1. PICK i \in 1..n : i # k /\ zones[i] = x
      BY <1>2, <2>1
    <3>2. QED
      BY <2>1, <2>3, <3>1
  <2>6. QED
    BY <2>4, <2>5
<1>7. mmb' = mmb /\ BlocksIn(id) = {}
  BY DEF ot_mmz_unregister
<1>8. \A b \in Live : mmb[b].zone # id
  BY <1>7 DEF BlocksIn
<1>9. QED
  BY <1>5, <1>6, <1>7, <1>8
     DEF IInv, TypeOK, ZonesDisjoint, NoEmptyBlock, WithinZone, NoOverlap, Live
-----------------------------------------------------------------------------
(* Blocks come and go *)

\* do_mmb_alloc of a free region in a registered zone keeps the invariant.
LEMMA PlaceKeeps ==
  ASSUME IInv, NEW id \in Registered, NEW s, NEW len \in Nat \ {0}, NEW align \in Nat,
         NEW mark \in Nat \cup {NoMark},
         FreeRegion(Zone[id], BlocksIn(id), s, len),
         do_mmb_alloc(id, s, len, align, mark)
  PROVE  IInv'
<1> DEFINE new == [zone |-> id, start |-> s, len |-> len, align |-> align, mark |-> mark]
<1>1. PICK b \in BlockIds \ Live : mmb' = [mmb EXCEPT ![b] = new]
  BY DEF do_mmb_alloc
<1>2. zones' = zones /\ Registered' = Registered
  BY DEF do_mmb_alloc, Registered
<1>3. id \in ZoneIds /\ Registered \subseteq ZoneIds
  BY ZoneListFacts DEF IInv, TypeOK, Registered
<1>4. s \in Nat /\ new \in Block
  BY <1>3 DEF FreeRegion, Block
<1>5. mmb' \in [BlockIds -> Block \cup {NoBlock}]
  BY <1>1, <1>4 DEF IInv, TypeOK
<1>6. mmb'[b] = new /\ \A c \in Live : c \in BlockIds /\ c # b /\ mmb'[c] = mmb[c]
  BY <1>1 DEF IInv, TypeOK, Live
<1>7. Live' = Live \cup {b}
  BY <1>1, <1>4, NoBlockAssumption DEF IInv, TypeOK, Live
<1>8. /\ Zone[id].start <= s /\ s + len <= ZoneEnd(Zone[id])
      /\ \A p \in BlocksIn(id) : s + len <= p.start \/ EndOf(p) <= s
  BY DEF FreeRegion
<1>9. new.zone = id /\ new.start = s /\ new.len = len /\ EndOf(new) = s + len
  BY DEF EndOf
<1> HIDE DEF new
<1>10. ASSUME NEW c \in Live
       PROVE  Disjoint(new, mmb[c])
  <2>1. CASE mmb[c].zone = id
    <3>1. mmb[c] \in BlocksIn(id)
      BY <2>1 DEF BlocksIn
    <3>2. QED
      BY <3>1, <1>8, <1>9 DEF Disjoint
  <2>2. CASE mmb[c].zone # id
    <3> DEFINE other == mmb[c].zone
    <3>1. /\ other \in Registered
          /\ Zone[other].start <= mmb[c].start /\ EndOf(mmb[c]) <= ZoneEnd(Zone[other])
      BY DEF IInv, WithinZone
    <3>2. \/ ZoneEnd(Zone[other]) <= Zone[id].start
          \/ ZoneEnd(Zone[id]) <= Zone[other].start
      BY <2>2, <3>1 DEF IInv, ZonesDisjoint
    <3>3. mmb[c] \in Block
      BY LiveBlock DEF IInv
    <3>4. /\ mmb[c].start \in Nat /\ EndOf(mmb[c]) \in Nat
          /\ Zone[other].start \in Nat /\ ZoneEnd(Zone[other]) \in Nat
          /\ Zone[id].start \in Nat /\ ZoneEnd(Zone[id]) \in Nat
      BY <1>3, <3>1, <3>3, ZoneAssumption DEF Block, EndOf, ZoneEnd
    <3> HIDE DEF other
    <3>5. QED
      BY <1>4, <1>8, <1>9, <3>1, <3>2, <3>4 DEF Disjoint
  <2>3. QED
    BY <2>1, <2>2
<1>11. NoOverlap'
  <2>1. ASSUME NEW c \in Live', NEW d \in Live', c # d
        PROVE  Disjoint(mmb'[c], mmb'[d])
    <3>1. CASE c = b
      BY <1>6, <1>7, <1>10, <2>1, <3>1
    <3>2. CASE d = b
      <4>1. Disjoint(new, mmb[c]) /\ mmb'[d] = new /\ mmb'[c] = mmb[c]
        BY <1>6, <1>7, <1>10, <2>1, <3>2
      <4>2. QED
        BY <4>1 DEF Disjoint
    <3>3. CASE c # b /\ d # b
      BY <1>6, <1>7, <2>1, <3>3 DEF IInv, NoOverlap
    <3>4. QED
      BY <3>1, <3>2, <3>3
  <2>2. QED
    BY <2>1 DEF NoOverlap
<1>12. WithinZone'
  BY <1>2, <1>6, <1>7, <1>8, <1>9 DEF IInv, WithinZone
<1>13. NoEmptyBlock'
  BY <1>6, <1>7, <1>9 DEF IInv, NoEmptyBlock
<1>14. TypeOK' /\ ZonesDisjoint'
  BY <1>2, <1>5 DEF IInv, TypeOK, ZonesDisjoint
<1>15. QED
  BY <1>11, <1>12, <1>13, <1>14 DEF IInv

\* A request for some bytes is rounded up to some bytes.
LEMMA RequestedSize ==
  ASSUME NEW q \in AllocRequests, q.size # 0
  PROVE  mmz_grain_align(q.size) \in Nat \ {0} /\ EffectiveAlign(q.align) \in Nat
<1>1. q.size \in Nat /\ q.align \in Nat
  BY RequestAssumption
<1>2. mmz_grain_align(q.size) \in Nat /\ q.size <= mmz_grain_align(q.size)
  BY <1>1, GrainBounds
<1>3. QED
  BY <1>1, <1>2, EffectiveAlignPositive

\* A region found for a request in a registered zone is free.
LEMMA FoundRegion ==
  ASSUME IInv, NEW i \in DOMAIN zones, NEW q \in AllocRequests, NEW size \in Nat,
         NEW s \in find_fit_region(Zone[zones[i]], BlocksIn(zones[i]), size, q.align)
  PROVE  /\ zones[i] \in Registered
         /\ FreeRegion(Zone[zones[i]], BlocksIn(zones[i]), s, size)
<1>1. zones[i] \in ZoneIds /\ zones[i] \in Registered
  BY ZoneListFacts DEF IInv, TypeOK, Registered
<1>2. /\ GoodZone(Zone[zones[i]]) /\ GoodBlocks(Zone[zones[i]], BlocksIn(zones[i]))
  BY <1>1, ZoneIsGood, BlocksAreGood
<1>3. q.align \in Nat /\ Zone[zones[i]].start % EffectiveAlign(q.align) = 0
  BY <1>1, RequestAssumption, ZonesAligned
<1>4. QED
  BY <1>1, <1>2, <1>3, FitSound

LEMMA AllocKeeps ==
  ASSUME IInv, NEW q \in AllocRequests, ot_mmb_alloc(q)
  PROVE  IInv'
<1> DEFINE size == mmz_grain_align(q.size)
<1>1. size \in Nat \ {0} /\ EffectiveAlign(q.align) \in Nat
  BY RequestedSize DEF ot_mmb_alloc
<1>2. PICK i \in DOMAIN zones :
        \E s \in find_fit_region(Zone[zones[i]], BlocksIn(zones[i]), size, q.align) :
          do_mmb_alloc(zones[i], s, size, EffectiveAlign(q.align), NoMark)
  BY DEF ot_mmb_alloc, FittingZone
<1>3. PICK s \in find_fit_region(Zone[zones[i]], BlocksIn(zones[i]), size, q.align) :
        do_mmb_alloc(zones[i], s, size, EffectiveAlign(q.align), NoMark)
  BY <1>2
<1> HIDE DEF size
<1>4. QED
  BY <1>1, <1>3, FoundRegion, PlaceKeeps

LEMMA AllocV2Keeps ==
  ASSUME IInv, NEW q \in AllocRequests, ot_mmb_alloc_v2(q)
  PROVE  IInv'
<1> DEFINE sizes == SizeAt(zones, q)
           last  == sizes[Len(zones)]
<1>1. PICK i \in DOMAIN zones :
        /\ Matches(zones[i], q)
        /\ \E s \in find_fit_region(Zone[zones[i]], BlocksIn(zones[i]), sizes[i], q.align) :
             do_mmb_alloc(zones[i], s, last, EffectiveAlign(q.align), NoMark)
  BY DEF ot_mmb_alloc_v2, FittingZone
<1>2. PICK s \in find_fit_region(Zone[zones[i]], BlocksIn(zones[i]), sizes[i], q.align) :
        do_mmb_alloc(zones[i], s, last, EffectiveAlign(q.align), NoMark)
  BY <1>1
<1>3. sizes[i] = last /\ sizes[i] \in Nat \ {0}
  BY <1>1, SizesAgree DEF IInv, TypeOK
<1>4. EffectiveAlign(q.align) \in Nat
  BY RequestAssumption, EffectiveAlignPositive
<1> HIDE DEF sizes, last
<1>5. zones[i] \in Registered /\ FreeRegion(Zone[zones[i]], BlocksIn(zones[i]), s, last)
  BY <1>2, <1>3, FoundRegion
<1>6. QED
  BY <1>2, <1>3, <1>4, <1>5, PlaceKeeps

\* A fixed-address request searches with a positive size and alignment, and
\* with an address that is a multiple of the alignment.
LEMMA FixedArguments ==
  ASSUME NEW q \in FixedRequests, q.size # 0
  PROVE  /\ FixedAlign(q) \in Nat \ {0} /\ FixedSize(q) \in Nat \ {0}
         /\ FixedMark(q) \in Nat /\ FixedMark(q) % FixedAlign(q) = 0
<1>1. q.size \in Nat /\ q.align \in Nat /\ q.mark \in Nat
  BY RequestAssumption
<1>2. FixedAlign(q) \in Nat \ {0}
  BY <1>1, EffectiveAlignPositive DEF FixedAlign
<1>3. FixedSize(q) \in Nat /\ q.size <= FixedSize(q)
  BY <1>1, <1>2, AlignBounds DEF FixedSize
<1>4. FixedMark(q) \in Nat /\ FixedMark(q) % FixedAlign(q) = 0
  BY <1>1, <1>2, RoundDown DEF FixedMark
<1>5. QED
  BY <1>1, <1>2, <1>3, <1>4

LEMMA AllocV3Keeps ==
  ASSUME IInv, NEW q \in FixedRequests, ot_mmb_alloc_v3(q)
  PROVE  IInv'
<1>1. PICK i \in DOMAIN zones : \E s \in FixedIn(zones[i], q).starts :
        do_mmb_alloc(zones[i], s, FixedSize(q), FixedAlign(q), FixedMark(q))
  BY DEF ot_mmb_alloc_v3
<1>2. PICK s \in FixedIn(zones[i], q).starts :
        do_mmb_alloc(zones[i], s, FixedSize(q), FixedAlign(q), FixedMark(q))
  BY <1>1
<1>3. /\ FixedAlign(q) \in Nat \ {0} /\ FixedSize(q) \in Nat \ {0}
      /\ FixedMark(q) \in Nat /\ FixedMark(q) % FixedAlign(q) = 0
  BY FixedArguments DEF ot_mmb_alloc_v3
<1>4. zones[i] \in ZoneIds /\ zones[i] \in Registered
  BY ZoneListFacts DEF IInv, TypeOK, Registered
<1>5. GoodZone(Zone[zones[i]]) /\ GoodBlocks(Zone[zones[i]], BlocksIn(zones[i]))
  BY <1>4, ZoneIsGood, BlocksAreGood
<1>6. Zone[zones[i]].start % FixedAlign(q) = 0 /\ FixedSize(q) <= Zone[zones[i]].nbytes
  BY <1>4, ZonesAligned, FixedRequestsFit
<1>7. FreeRegion(Zone[zones[i]], BlocksIn(zones[i]), s, FixedSize(q))
  BY <1>2, <1>3, <1>5, <1>6, FixedSound DEF FixedIn
<1>8. QED
  BY <1>2, <1>3, <1>4, <1>7, PlaceKeeps

LEMMA FreeKeeps ==
  ASSUME IInv, NEW b \in BlockIds, mmb_free(b)
  PROVE  IInv'
<1>1. mmb' = [mmb EXCEPT ![b] = NoBlock] /\ zones' = zones
  BY DEF mmb_free
<1>2. mmb' \in [BlockIds -> Block \cup {NoBlock}]
  BY <1>1 DEF IInv, TypeOK
<1>3. Live' = Live \ {b} /\ \A c \in Live' : mmb'[c] = mmb[c]
  BY <1>1 DEF IInv, TypeOK, Live
<1>4. Registered' = Registered
  BY <1>1 DEF Registered
<1>5. QED
  BY <1>1, <1>2, <1>3, <1>4
     DEF IInv, TypeOK, ZonesDisjoint, NoEmptyBlock, WithinZone, NoOverlap

\* Every step keeps the invariant.
LEMMA NextKeeps == IInv /\ [Next]_vars => IInv'
<1> SUFFICES ASSUME IInv, [Next]_vars PROVE IInv'
  OBVIOUS
<1>1. CASE UNCHANGED vars
  BY <1>1 DEF vars, IInv, TypeOK, ZonesDisjoint, NoEmptyBlock, WithinZone, NoOverlap,
              Live, Registered
<1>2. CASE Next
  BY <1>2, RegisterKeeps, UnregisterKeeps, AllocKeeps, AllocV2Keeps, AllocV3Keeps, FreeKeeps
     DEF Next
<1>3. QED
  BY <1>1, <1>2

-----------------------------------------------------------------------------
(* Blocks are placed as requested *)

\* What AsRequested asks of a step.
NewBlocksPlaced == \A b \in BlockIds : mmb[b] = NoBlock /\ mmb'[b] # NoBlock => Placed(b)

\* Where free memory of a zone ends.
Limit(z, bs, e) == e = ZoneEnd(z) \/ \E p \in bs : e = p.start

\* What is asked of the place that do_mmb_alloc is given is what is asked of the
\* new block, and no other block is new.
LEMMA PlaceAsRequested ==
  ASSUME TypeOK, NEW id \in ZoneIds, NEW s \in Nat, NEW len \in Nat,
         NEW align \in Nat, NEW mark \in Nat \cup {NoMark},
         do_mmb_alloc(id, s, len, align, mark),
         s % align = 0 \/ (mark # NoMark /\ Limit(Zone[id], BlocksIn(id), s + len)),
         mark # NoMark => s <= mark /\ mark < s + len
  PROVE  NewBlocksPlaced
<1> DEFINE new == [zone |-> id, start |-> s, len |-> len, align |-> align, mark |-> mark]
<1>1. PICK b \in BlockIds \ Live : mmb' = [mmb EXCEPT ![b] = new]
  BY DEF do_mmb_alloc
<1>2. /\ new.zone = id /\ new.start = s /\ new.align = align /\ new.mark = mark
      /\ EndOf(new) = s + len
  BY DEF EndOf
<1> HIDE DEF new
<1>3. mmb'[b] = new /\ \A c \in BlockIds \ {b} : mmb'[c] = mmb[c]
  BY <1>1 DEF TypeOK
<1>4. ASSUME Limit(Zone[id], BlocksIn(id), s + len)
      PROVE  EndsAtLimit(b)'
  <2>1. CASE s + len = ZoneEnd(Zone[id])
    BY <1>2, <1>3, <2>1 DEF EndsAtLimit
  <2>2. ASSUME NEW p \in BlocksIn(id), s + len = p.start
        PROVE  EndsAtLimit(b)'
    <3>1. PICK c \in Live : p = mmb[c] /\ mmb[c].zone = id
      BY DEF BlocksIn
    <3>2. c # b /\ c \in BlockIds
      BY DEF Live
    <3>3. mmb'[c] = mmb[c] /\ c \in Live'
      BY <1>3, <3>2 DEF Live
    <3>4. QED
      BY <1>2, <1>3, <2>2, <3>1, <3>3 DEF EndsAtLimit
  <2>3. QED
    BY <1>4, <2>1, <2>2 DEF Limit
<1>5. Placed(b)
  <2>1. mmb'[b].start % mmb'[b].align = 0 \/ (mmb'[b].mark # NoMark /\ EndsAtLimit(b)')
    <3>1. CASE s % align = 0
      BY <1>2, <1>3, <3>1
    <3>2. CASE mark # NoMark /\ Limit(Zone[id], BlocksIn(id), s + len)
      BY <1>2, <1>3, <1>4, <3>2
    <3>3. QED
      BY <3>1, <3>2
  <2>2. mmb'[b].mark # NoMark => mmb'[b].start <= mmb'[b].mark /\ mmb'[b].mark < EndOf(mmb'[b])
    BY <1>2, <1>3
  <2>3. QED
    BY <2>1, <2>2 DEF Placed
<1>6. QED
  BY <1>3, <1>5 DEF NewBlocksPlaced

\* find_fit_region returns aligned addresses.
LEMMA FitAligned ==
  ASSUME NEW z, NEW bs, GoodZone(z), GoodBlocks(z, bs), NEW size, NEW align \in Nat,
         NEW s \in find_fit_region(z, bs, size, align)
  PROVE  s % EffectiveAlign(align) = 0
<1> DEFINE a == EffectiveAlign(align)
<1>1. a \in Nat \ {0}
  BY EffectiveAlignPositive
<1>2. s = mmz_align2(z.start, a) \/ \E g \in Gaps(z, bs, a) : s = g.start
  BY DEF find_fit_region, FitGaps
<1> HIDE DEF a
<1>3. CASE s = mmz_align2(z.start, a)
  BY <1>1, <1>3, AlignMultiple DEF GoodZone, a
<1>4. ASSUME NEW g \in Gaps(z, bs, a), s = g.start
      PROVE  s % a = 0
  <2>1. g.from \in Nat /\ g.start = mmz_align2(g.from, a)
    BY <1>1, GapShape
  <2>2. QED
    BY <1>1, <1>4, <2>1, AlignMultiple
<1>5. QED
  BY <1>2, <1>3, <1>4 DEF a

\* A gap ends where its zone does or where a block starts.
LEMMA GapLimit ==
  ASSUME NEW z, NEW bs, NEW a, NEW g \in Gaps(z, bs, a)
  PROVE  Limit(z, bs, g.end)
<1>1. ASSUME NEW p \in bs, g = Gap("head", z.start, p.start, a)
      PROVE  g.end = p.start
  BY <1>1 DEF Gap
<1>2. ASSUME NEW p \in bs, NEW n \in bs, g = Gap("middle", EndOf(p), n.start, a)
      PROVE  g.end = n.start
  BY <1>2 DEF Gap
<1>3. ASSUME NEW p \in bs, g = Gap("tail", EndOf(p), ZoneEnd(z), a)
      PROVE  g.end = ZoneEnd(z)
  BY <1>3 DEF Gap
<1>4. QED
  BY <1>1, <1>2, <1>3 DEF Gaps, Limit

\* adjust_start_addr keeps the requested address in the block. It returns the
\* beginning of the gap, the address itself, or the last place that fits.
LEMMA AdjustHolds ==
  ASSUME NEW begin \in Nat, NEW end \in Nat, NEW mark \in Nat, NEW len \in Nat \ {0},
         begin <= mark, mark < end, begin + len <= end
  PROVE  LET s == adjust_start_addr(begin, end, mark, len)
         IN  /\ s <= mark /\ mark < s + len
             /\ s = begin \/ s = mark \/ s + len = end
  BY DEF adjust_start_addr

\* find_fixed_region returns a region that contains the requested address. It is
\* aligned unless it was moved down to end where the gap ends.
LEMMA FixedHolds ==
  ASSUME NEW z, NEW bs, GoodZone(z), GoodBlocks(z, bs),
         NEW mark \in Nat, NEW size \in Nat \ {0}, NEW a \in Nat \ {0},
         mark % a = 0, z.start % a = 0, size <= z.nbytes,
         NEW s \in find_fixed_region(z, bs, mark, size, a).starts
  PROVE  /\ s <= mark /\ mark < s + size
         /\ s % a = 0 \/ Limit(z, bs, s + size)
<1>1. z.start \in Nat /\ ZoneEnd(z) \in Nat /\ mmz_align2(z.start, a) = z.start
  BY AlignFixed DEF GoodZone, ZoneEnd
<1>2. ~(mark < z.start \/ mark >= ZoneEnd(z))
  BY DEF find_fixed_region
<1>3. CASE bs = {}
  <2>1. s = adjust_start_addr(z.start, ZoneEnd(z), mark, size)
    BY <1>1, <1>2, <1>3 DEF find_fixed_region
  <2>2. z.start + size <= ZoneEnd(z) /\ z.start <= mark /\ mark < ZoneEnd(z)
    BY <1>1, <1>2 DEF ZoneEnd, GoodZone
  <2>3. /\ s <= mark /\ mark < s + size
        /\ s = z.start \/ s = mark \/ s + size = ZoneEnd(z)
    BY <2>1, <2>2, <1>1, AdjustHolds
  <2>4. s % a = 0 \/ Limit(z, bs, s + size)
    BY <2>3 DEF Limit
  <2>5. QED
    BY <2>3, <2>4
<1>4. CASE bs # {}
  <2>1. PICK g \in Gaps(z, bs, a) :
          /\ g.from <= mark /\ mark < g.end /\ Enough(g, size)
          /\ s = adjust_start_addr(g.start, g.end, mark, size)
    BY <1>2, <1>4 DEF find_fixed_region
  <2>2. /\ g.from \in Nat /\ g.end \in Nat /\ g.start \in Nat
        /\ g.start = mmz_align2(g.from, a) /\ g.from <= g.start /\ g.end < Word
    BY GapShape
  <2>3. g.start <= mark /\ g.start <= g.end
    BY <2>1, <2>2, AlignLeast
  <2>4. g.start + size <= g.end
    BY <2>1, <2>2, <2>3, MinusExact DEF Enough
  <2>5. /\ s <= mark /\ mark < s + size
        /\ s = g.start \/ s = mark \/ s + size = g.end
    <3>1. g.start \in Nat /\ g.end \in Nat /\ g.start <= mark /\ mark < g.end
      BY <2>1, <2>2, <2>3
    <3> DEFINE at == adjust_start_addr(g.start, g.end, mark, size)
    <3>2. /\ at <= mark /\ mark < at + size
          /\ at = g.start \/ at = mark \/ at + size = g.end
      BY <2>4, <3>1, AdjustHolds
    <3> HIDE DEF at
    <3>3. QED
      BY <2>1, <3>2 DEF at
  <2>6. g.start % a = 0
    BY <2>2, AlignMultiple
  <2>7. s % a = 0 \/ Limit(z, bs, s + size)
    BY <2>5, <2>6, GapLimit
  <2>8. QED
    BY <2>5, <2>7
<1>5. QED
  BY <1>3, <1>4

LEMMA AllocAsRequested ==
  ASSUME IInv, NEW q \in AllocRequests, ot_mmb_alloc(q) \/ ot_mmb_alloc_v2(q)
  PROVE  NewBlocksPlaced
<1> DEFINE align == EffectiveAlign(q.align)
<1>1. q.size \in Nat /\ q.align \in Nat /\ align \in Nat
  BY RequestAssumption, EffectiveAlignPositive
<1>2. PICK i \in DOMAIN zones, size \in Nat \ {0}, len \in Nat :
        \E s \in find_fit_region(Zone[zones[i]], BlocksIn(zones[i]), size, q.align) :
          do_mmb_alloc(zones[i], s, len, align, NoMark)
  <2>1. CASE ot_mmb_alloc(q)
    <3>1. mmz_grain_align(q.size) \in Nat \ {0}
      BY <2>1, RequestedSize DEF ot_mmb_alloc
    <3>2. QED
      BY <2>1, <3>1 DEF ot_mmb_alloc, FittingZone
  <2>2. CASE ot_mmb_alloc_v2(q)
    <3> DEFINE sizes == SizeAt(zones, q)
               last  == sizes[Len(zones)]
    <3>1. PICK i \in DOMAIN zones :
            /\ Matches(zones[i], q)
            /\ \E s \in find_fit_region(Zone[zones[i]], BlocksIn(zones[i]), sizes[i], q.align) :
                 do_mmb_alloc(zones[i], s, last, align, NoMark)
      BY <2>2 DEF ot_mmb_alloc_v2, FittingZone
    <3>2. sizes[i] = last /\ sizes[i] \in Nat \ {0}
      BY <3>1, SizesAgree DEF IInv, TypeOK
    <3> HIDE DEF sizes, last
    <3>3. QED
      BY <3>1, <3>2
  <2>3. QED
    BY <2>1, <2>2
<1>3. PICK s \in find_fit_region(Zone[zones[i]], BlocksIn(zones[i]), size, q.align) :
        do_mmb_alloc(zones[i], s, len, align, NoMark)
  BY <1>2
<1>4. zones[i] \in ZoneIds
  BY ZoneListFacts DEF IInv, TypeOK
<1>5. GoodZone(Zone[zones[i]]) /\ GoodBlocks(Zone[zones[i]], BlocksIn(zones[i]))
  BY <1>4, ZoneIsGood, BlocksAreGood
<1>6. s % align = 0
  BY <1>1, <1>5, FitAligned
<1>7. s \in Nat
  BY FoundRegion DEF FreeRegion
<1> HIDE DEF align
<1>8. QED
  BY <1>1, <1>3, <1>4, <1>6, <1>7, PlaceAsRequested DEF IInv

LEMMA AllocV3AsRequested ==
  ASSUME IInv, NEW q \in FixedRequests, ot_mmb_alloc_v3(q)
  PROVE  NewBlocksPlaced
<1>1. PICK i \in DOMAIN zones : \E s \in FixedIn(zones[i], q).starts :
        do_mmb_alloc(zones[i], s, FixedSize(q), FixedAlign(q), FixedMark(q))
  BY DEF ot_mmb_alloc_v3
<1>2. PICK s \in FixedIn(zones[i], q).starts :
        do_mmb_alloc(zones[i], s, FixedSize(q), FixedAlign(q), FixedMark(q))
  BY <1>1
<1>3. /\ FixedAlign(q) \in Nat \ {0} /\ FixedSize(q) \in Nat \ {0}
      /\ FixedMark(q) \in Nat /\ FixedMark(q) % FixedAlign(q) = 0
  BY FixedArguments DEF ot_mmb_alloc_v3
<1>4. zones[i] \in ZoneIds
  BY ZoneListFacts DEF IInv, TypeOK
<1>5. GoodZone(Zone[zones[i]]) /\ GoodBlocks(Zone[zones[i]], BlocksIn(zones[i]))
  BY <1>4, ZoneIsGood, BlocksAreGood
<1>6. Zone[zones[i]].start % FixedAlign(q) = 0 /\ FixedSize(q) <= Zone[zones[i]].nbytes
  BY <1>4, ZonesAligned, FixedRequestsFit
<1>7. FreeRegion(Zone[zones[i]], BlocksIn(zones[i]), s, FixedSize(q))
  BY <1>2, <1>3, <1>5, <1>6, FixedSound DEF FixedIn
<1>8. /\ s <= FixedMark(q) /\ FixedMark(q) < s + FixedSize(q)
      /\ \/ s % FixedAlign(q) = 0
         \/ Limit(Zone[zones[i]], BlocksIn(zones[i]), s + FixedSize(q))
  BY <1>2, <1>3, <1>5, <1>6, FixedHolds DEF FixedIn
<1>9. s \in Nat /\ FixedMark(q) # NoMark
  BY <1>3, <1>7, NoMarkAssumption DEF FreeRegion
<1>10. QED
  BY <1>2, <1>3, <1>4, <1>8, <1>9, PlaceAsRequested DEF IInv

LEMMA NextAsRequested == IInv /\ [Next]_vars => [NewBlocksPlaced]_vars
<1> SUFFICES ASSUME IInv, [Next]_vars PROVE [NewBlocksPlaced]_vars
  OBVIOUS
<1>1. ASSUME mmb' = mmb
      PROVE  NewBlocksPlaced
  BY <1>1 DEF NewBlocksPlaced
<1>2. ASSUME NEW q \in AllocRequests, ot_mmb_alloc(q) \/ ot_mmb_alloc_v2(q)
      PROVE  NewBlocksPlaced
  BY <1>2, AllocAsRequested
<1>3. ASSUME NEW q \in FixedRequests, ot_mmb_alloc_v3(q)
      PROVE  NewBlocksPlaced
  BY <1>3, AllocV3AsRequested
<1>4. ASSUME NEW b \in BlockIds, mmb_free(b)
      PROVE  NewBlocksPlaced
  <2>1. mmb' = [mmb EXCEPT ![b] = NoBlock]
    BY <1>4 DEF mmb_free
  <2>2. \A c \in BlockIds : mmb'[c] = NoBlock \/ mmb'[c] = mmb[c]
    BY <2>1 DEF IInv, TypeOK
  <2>3. QED
    BY <2>2 DEF NewBlocksPlaced
<1>5. QED
  BY <1>1, <1>2, <1>3, <1>4 DEF Next, vars, ot_mmz_register, ot_mmz_unregister

-----------------------------------------------------------------------------
(* A refusal means that there is no room *)

\* A free run of a zone, as the searches see it.
LEMMA FreeRunRegion ==
  ASSUME NEW id \in ZoneIds, NEW s \in Zone[id].start..ZoneEnd(Zone[id]), NEW len \in Nat,
         FreeRun(id, s, len)
  PROVE  FreeRegion(Zone[id], BlocksIn(id), s, len)
<1>1. Zone[id].start \in Nat /\ ZoneEnd(Zone[id]) \in Nat
  BY ZoneAssumption DEF ZoneEnd
<1>2. s \in Nat /\ Zone[id].start <= s
  BY <1>1
<1>3. \A p \in BlocksIn(id) : s + len <= p.start \/ EndOf(p) <= s
  BY DEF FreeRun, Disjoint, EndOf
<1>4. QED
  BY <1>2, <1>3 DEF FreeRegion, FreeRun

LEMMA SearchMissesNothing == IInv => SearchComplete
<1> SUFFICES ASSUME IInv, NEW q \in AllocRequests, q.size # 0,
                    FittingZone(q, [j \in DOMAIN zones |-> mmz_grain_align(q.size)]) = {},
                    NEW id \in Registered, Matches(id, q),
                    NEW s \in AlignedIn(id, EffectiveAlign(q.align)),
                    FreeRun(id, s, mmz_grain_align(q.size))
             PROVE  FALSE
  BY DEF SearchComplete
<1> DEFINE size == mmz_grain_align(q.size)
           Fits(i) == /\ Matches(zones[i], q)
                      /\ find_fit_region(Zone[zones[i]], BlocksIn(zones[i]), size, q.align) # {}
           Fitting == {i \in DOMAIN zones : Fits(i)}
<1>1. size \in Nat \ {0} /\ q.align \in Nat
  BY RequestedSize, RequestAssumption
\* rounding the size again changes nothing
<1>2. mmz_grain_align(size) = size
  <2>1. size % Grain = 0
    BY AlignMultiple, RequestAssumption, UnitsAssumption DEF mmz_grain_align
  <2>2. QED
    BY <1>1, <2>1, AlignFixed, UnitsAssumption DEF mmz_grain_align
<1>3. PICK i \in DOMAIN zones : id = zones[i]
  BY DEF Registered
<1>4. id \in ZoneIds /\ DOMAIN zones \in SUBSET Nat
  BY <1>3, ZoneListFacts DEF IInv, TypeOK
<1>5. find_fit_region(Zone[id], BlocksIn(id), size, q.align) # {}
  <2>1. GoodZone(Zone[id]) /\ GoodBlocks(Zone[id], BlocksIn(id))
    BY <1>4, ZoneIsGood, BlocksAreGood
  <2>2. Zone[id].start > 0 /\ Zone[id].start % EffectiveAlign(q.align) = 0
    BY <1>4, ZoneAssumption, ZonesAligned
  <2>3. s \in Zone[id].start..ZoneEnd(Zone[id]) /\ s % EffectiveAlign(q.align) = 0
    BY DEF AlignedIn
  <2>4. FreeRegion(Zone[id], BlocksIn(id), s, size)
    BY <1>1, <1>4, <2>3, FreeRunRegion
  <2> HIDE DEF size
  <2>5. QED
    BY <1>1, <1>2, <2>1, <2>2, <2>3, <2>4, FitComplete
<1>6. i \in Fitting
  BY <1>3, <1>5
<1> HIDE DEF size
<1>7. PICK k \in Fitting : \A j \in Fitting : k <= j
  <2>1. Fitting \in SUBSET Nat /\ Fitting # {}
    BY <1>4, <1>6
  <2>2. QED
    BY <2>1, LeastElement
<1>8. \A j \in 1..(k - 1) : ~Fits(j)
  <2>1. DOMAIN zones = 1..Len(zones) /\ Len(zones) \in Nat
    BY ZoneListFacts DEF IInv, TypeOK
  <2>2. ASSUME NEW j \in 1..(k - 1), Fits(j)
        PROVE  FALSE
    <3>1. k \in 1..Len(zones)
      BY <2>1
    <3>2. j \in DOMAIN zones /\ j < k
      BY <2>1, <3>1
    <3>3. j \in Fitting
      BY <2>2, <3>2
    <3> HIDE DEF Fitting
    <3>4. QED
      BY <1>7, <3>1, <3>2, <3>3
  <2>3. QED
    BY <2>2
<1>9. k \in FittingZone(q, [j \in DOMAIN zones |-> size])
  <2> DEFINE sizes == [j \in DOMAIN zones |-> size]
  <2>1. \A j \in DOMAIN zones : sizes[j] = size
    OBVIOUS
  <2>2. \A j \in 1..(k - 1) : j \in DOMAIN zones
    BY ZoneListFacts DEF IInv, TypeOK
  <2> HIDE DEF sizes
  <2>3. k \in FittingZone(q, sizes)
    BY <1>7, <1>8, <2>1, <2>2 DEF FittingZone
  <2>4. QED
    BY <2>3 DEF sizes
<1>10. QED
  BY <1>9 DEF size

LEMMA FixedSearchMissesNothing == IInv => FixedSearchComplete
<1> SUFFICES ASSUME IInv, NEW q \in FixedRequests, NEW id \in Registered,
                    FixedIn(id, q).starts = {}, NEW s \in AlignedIn(id, FixedAlign(q)),
                    FreeRun(id, s, FixedSize(q)),
                    s <= FixedMark(q), FixedMark(q) < s + FixedSize(q)
             PROVE  FALSE
  BY DEF FixedSearchComplete
<1>1. q.size \in Nat /\ q.align \in Nat /\ q.mark \in Nat
  BY RequestAssumption
<1>2. FixedAlign(q) \in Nat \ {0}
  BY <1>1, EffectiveAlignPositive DEF FixedAlign
<1>3. FixedSize(q) \in Nat
  BY <1>1, <1>2, AlignBounds DEF FixedSize
<1>4. FixedMark(q) \in Nat
  BY <1>1, <1>2, RoundDown DEF FixedMark
<1>5. id \in ZoneIds
  BY ZoneListFacts DEF IInv, TypeOK, Registered
<1>6. GoodZone(Zone[id]) /\ GoodBlocks(Zone[id], BlocksIn(id))
  BY <1>5, ZoneIsGood, BlocksAreGood
<1>7. s \in Zone[id].start..ZoneEnd(Zone[id]) /\ s % FixedAlign(q) = 0
  BY DEF AlignedIn
<1>8. FreeRegion(Zone[id], BlocksIn(id), s, FixedSize(q))
  BY <1>3, <1>5, <1>7, FreeRunRegion
<1>9. QED
  BY <1>2, <1>3, <1>4, <1>6, <1>7, <1>8, FixedComplete DEF FixedIn

-----------------------------------------------------------------------------
(* The theorems *)

\* The zone list and the blocks keep their types: no zone is listed twice, and
\* no address or size is negative.
THEOREM TypeCorrect == Spec => []TypeOK
<1>1. IInv => TypeOK
  BY DEF IInv
<1>2. QED
  BY <1>1, InitIInv, NextKeeps, PTL DEF Spec

\* No address is given out twice, whatever zones are registered, whatever sizes,
\* alignments and addresses are asked for, in whatever order blocks come and go.
THEOREM NoOverlapCorrect == Spec => []NoOverlap
<1>1. IInv => NoOverlap
  BY DEF IInv
<1>2. QED
  BY <1>1, InitIInv, NextKeeps, PTL DEF Spec

\* No block reaches out of its zone, and no zone goes while it has a block.
THEOREM WithinZoneCorrect == Spec => []WithinZone
<1>1. IInv => WithinZone
  BY DEF IInv
<1>2. QED
  BY <1>1, InitIInv, NextKeeps, PTL DEF Spec

\* The "media-mem allocator bad" report of do_mmb_alloc never comes: what module
\* MCMmzUnaligned shows to happen does not happen in aligned zones.
THEOREM DistinctAddressesCorrect == Spec => []DistinctAddresses
<1>1. IInv => DistinctAddresses
  <2> SUFFICES ASSUME IInv, NEW b \in Live, NEW c \in Live, b # c
               PROVE  mmb[b].start # mmb[c].start
    BY DEF DistinctAddresses
  <2>1. /\ mmb[b].start \in Nat /\ mmb[b].len \in Nat /\ mmb[b].len > 0
        /\ mmb[c].start \in Nat /\ mmb[c].len \in Nat /\ mmb[c].len > 0
    BY LiveBlock DEF IInv, NoEmptyBlock, Block
  <2>2. Disjoint(mmb[b], mmb[c])
    BY DEF IInv, NoOverlap
  <2>3. QED
    BY <2>1, <2>2 DEF Disjoint, EndOf
<1>2. QED
  BY <1>1, InitIInv, NextKeeps, PTL DEF Spec

\* Every block is placed at a multiple of its alignment, except that a block asked
\* for at an address may be moved down to end where the free memory around it
\* ends; and it contains the address however adjust_start_addr moves it.
THEOREM PlacedAsRequested == Spec => AsRequested
<1> DEFINE New == \A b \in BlockIds : mmb[b] = NoBlock /\ mmb'[b] # NoBlock => Placed(b)
<1>1. IInv /\ [Next]_vars => [New]_vars
  BY NextAsRequested DEF NewBlocksPlaced
<1>2. QED
  BY <1>1, InitIInv, NextKeeps, PTL DEF Spec, AsRequested

\* ot_mmb_alloc of some bytes fails only when no matching zone has an aligned
\* free run of the size.
THEOREM NoRoomIsMissed == Spec => []SearchComplete
  BY SearchMissesNothing, InitIInv, NextKeeps, PTL DEF Spec

\* ot_mmb_alloc_v3 refuses an address of a zone only when no aligned free run
\* contains it.
THEOREM NoFixedRoomIsMissed == Spec => []FixedSearchComplete
  BY FixedSearchMissesNothing, InitIInv, NextKeeps, PTL DEF Spec
=============================================================================
