------------------------ MODULE MotionSensorBufProofs ------------------------
(***************************************************************************)
(* The positions of a user in the blocks of a ring stay in step and inside *)
(* the ring, whatever its size, the gap, and the number of users: through  *)
(* overflows, searches that wrap in either direction, and releases. And a  *)
(* read returns the samples of the time asked for, none of them left out.  *)
(***************************************************************************)
EXTENDS MotionSensorBuf, FiniteSetTheorems, SequenceTheorems, WellFoundedInduction, TLAPS

Index == 0..(N - 1)

-----------------------------------------------------------------------------
(* A set of numbers has a least element *)

LEMMA LeastElement ==
  ASSUME NEW S \in SUBSET Nat, S # {}
  PROVE  Min(S) \in S /\ \A k \in S : Min(S) <= k
<1>1. \A x, y \in Nat : <<x, y>> \in OpToRel(<, Nat) <=> x < y
  BY DEF OpToRel
<1>2. \E m \in S : \A k \in S : ~ (<<k, m>> \in OpToRel(<, Nat))
  BY NatLessThanWellFounded, WFMin, Zenon
<1>3. \E m \in S : \A k \in S : ~ (k < m)
  BY <1>1, <1>2, Zenon
<1>4. \E m \in S : \A k \in S : m <= k
  BY <1>3, SMT
<1>5. QED
  BY <1>4, Zenon DEF Min

-----------------------------------------------------------------------------
(* Walking round the ring *)

LEMMA WithinRing ==
  ASSUME NEW p \in Index, NEW k \in Nat
  PROVE  Ahead(p, k) \in Index /\ Back(p, k) \in Index
<1>1. \A i \in Int : i % N \in Index
  BY RingAssumption DEF Index
<1>2. p \in Nat /\ p < N /\ p + k \in Int /\ p - k \in Int
  BY RingAssumption DEF Index
<1>3. (p + k) % N \in Index /\ (p - k) % N \in Index
  BY <1>1, <1>2
<1>4. Ahead(p, k) \in Index
  BY <1>2, <1>3, RingAssumption DEF Ahead
<1>5. k <= p => p - k \in Index
  BY <1>2, RingAssumption DEF Index
<1>6. Back(p, k) \in Index
  BY <1>3, <1>5 DEF Back
<1>7. QED
  BY <1>4, <1>6

\* From entry p a search backwards meets w within p + N entries, and one forwards
\* after one to N entries.
LEMMA Meets ==
  ASSUME NEW p \in Index, NEW w \in Index
  PROVE  /\ \E k \in 0..(p + N) : Back(p, k) = w
         /\ \E k \in 1..N : Ahead(p, k) = w
<1>1. \E k \in 0..(p + N) : Back(p, k) = w
  <2>1. CASE w <= p
    <3>1. p - w \in 0..(p + N) /\ Back(p, p - w) = w
      BY <2>1, RingAssumption DEF Back, Index
    <3>2. QED
      BY <3>1
  <2>2. CASE p < w
    <3>1. (w - N) % N = w
      BY RingAssumption DEF Index
    <3>2. p + N - w \in 0..(p + N) /\ Back(p, p + N - w) = w
      BY <2>2, <3>1, RingAssumption DEF Back, Index
    <3>3. QED
      BY <3>2
  <2>3. QED
    BY <2>1, <2>2 DEF Index
<1>2. \E k \in 1..N : Ahead(p, k) = w
  <2>1. CASE p < w
    <3>1. w % N = w
      BY RingAssumption DEF Index
    <3>2. w - p \in 1..N /\ Ahead(p, w - p) = w
      BY <2>1, <3>1, RingAssumption DEF Ahead, Index
    <3>3. QED
      BY <3>2
  <2>2. CASE w <= p
    <3>1. (w + N) % N = w
      BY RingAssumption DEF Index
    <3>2. w + N - p \in 1..N /\ Ahead(p, w + N - p) = w
      BY <2>2, <3>1, RingAssumption DEF Ahead, Index
    <3>3. QED
      BY <3>2
  <2>3. QED
    BY <2>1, <2>2 DEF Index
<1>3. QED
  BY <1>1, <1>2

-----------------------------------------------------------------------------
(* The two searches, and what is released *)

LEMMA BackwardSearch ==
  ASSUME NEW r, r.pts \in Index, write_ptr.pts \in Index, NEW begin, NEW beyond
  PROVE  BackPosition(r, StepsBack(r, begin, beyond)).pts \in Index
<1> DEFINE S == {k \in 0..(r.pts + N) :
                   At(Back(r.pts, k), beyond) <= begin \/ Back(r.pts, k) = write_ptr.pts}
<1>1. S \in SUBSET Nat
  BY RingAssumption DEF Index
<1>2. S # {}
  BY Meets
<1>3. Min(S) \in S
  BY <1>1, <1>2, LeastElement
<1>4. StepsBack(r, begin, beyond) \in Nat
  BY <1>1, <1>3 DEF StepsBack
<1>5. QED
  BY <1>4, WithinRing DEF BackPosition

\* The search takes N steps at most.
LEMMA ForwardSearch ==
  ASSUME NEW p \in Index, write_ptr.pts \in Index, NEW end, NEW forward, NEW beyond
  PROVE  StepsAhead(p, end, forward, beyond) \in 0..N
<1> DEFINE S == {k \in 0..(N + 1) :
                   \/ Ahead(p, k) = write_ptr.pts /\ (k > 0 \/ forward)
                   \/ At(Ahead(p, k), beyond) > end}
<1>1. S \in SUBSET Nat
  BY RingAssumption
<1>2. PICK k \in 1..N : Ahead(p, k) = write_ptr.pts
  BY Meets
<1>3. k \in S
  BY <1>2, RingAssumption
<1>4. Min(S) \in S /\ Min(S) <= k
  BY <1>1, <1>3, LeastElement
<1>5. Min(S) \in 0..N
  BY <1>1, <1>2, <1>4, RingAssumption
<1>6. QED
  BY <1>5 DEF StepsAhead

\* What is released is an entry of the ring. The part of the samples after the
\* wrap is smaller than the ring, as it does not have the first one.
LEMMA ReleasedWithin ==
  ASSUME NEW p \in Index, NEW n \in 0..N, NEW begin, NEW beyond
  PROVE  /\ Released(Found(p, n, begin, beyond)).pts \in Index
         /\ Released(Found(p, n, begin, beyond)).x = Released(Found(p, n, begin, beyond)).pts
<1> DEFINE hits == {k \in 0..(n - 1) : At(Ahead(p, k), beyond) >= begin}
           first == Min(hits)
           before == {k \in hits : Ahead(p, k) >= Ahead(p, first)}
           f == Found(p, n, begin, beyond)
<1>1. CASE hits = {}
  <2>1. f = [at |-> p, num |-> <<0, 0>>]
    BY <1>1 DEF Found
  <2>2. QED
    BY <2>1, RingAssumption DEF Released, Index
<1>2. CASE hits # {}
  <2>1. f = [at |-> Ahead(p, first), num |-> <<Cardinality(before), Cardinality(hits \ before)>>]
    BY <1>2 DEF Found
  <2>2. first \in hits /\ first \in Nat
    BY <1>2, LeastElement
  <2>3. Ahead(p, first) \in Index
    BY <2>2, WithinRing
  <2>4. first \in before
    <3>1. Ahead(p, first) >= Ahead(p, first)
      BY <2>3 DEF Index
    <3>2. QED
      BY <2>2, <3>1
  <2>5. /\ IsFiniteSet(0..(n - 1)) /\ Cardinality(0..(n - 1)) <= N
    <3>1. 0 \in Int /\ n - 1 \in Int
      BY RingAssumption
    <3>2. /\ IsFiniteSet(0..(n - 1))
          /\ Cardinality(0..(n - 1)) = IF 0 > n - 1 THEN 0 ELSE n - 1 - 0 + 1
      BY <3>1, FS_Interval, Zenon
    <3>3. (IF 0 > n - 1 THEN 0 ELSE n - 1 - 0 + 1) <= N
      BY RingAssumption
    <3>4. QED
      BY <3>2, <3>3
  <2>6. IsFiniteSet(hits) /\ Cardinality(hits) <= Cardinality(0..(n - 1))
    <3>1. hits \in SUBSET (0..(n - 1))
      OBVIOUS
    <3>2. QED
      BY <2>5, <3>1, FS_Subset
  <2>7. IsFiniteSet(before)
    <3>1. before \in SUBSET hits
      OBVIOUS
    <3>2. QED
      BY <2>6, <3>1, FS_Subset
  <2>8. IsFiniteSet(hits \ before) /\ Cardinality(hits \ before) <= Cardinality(hits \ {first})
    <3>1. IsFiniteSet(hits \ {first})
      BY <2>6, FS_RemoveElement
    <3>2. hits \ before \in SUBSET (hits \ {first})
      BY <2>4
    <3>3. QED
      BY <3>1, <3>2, FS_Subset
  <2>9. Cardinality(hits \ {first}) = Cardinality(hits) - 1
    BY <2>2, <2>6, FS_RemoveElement
  <2>10. /\ Cardinality(before) \in Nat /\ Cardinality(hits \ before) \in Nat
         /\ Cardinality(hits) \in Nat /\ Cardinality(0..(n - 1)) \in Nat
    BY <2>5, <2>6, <2>7, <2>8, FS_CardinalityType
  <2>11. Cardinality(hits \ before) \in Index
    BY <2>5, <2>6, <2>8, <2>9, <2>10, RingAssumption DEF Index
  <2> HIDE DEF hits, first, before, f
  <2>12. Released(f).pts \in Index /\ Released(f).x = Released(f).pts
    <3> DEFINE a == Ahead(p, first)
               b == Cardinality(before)
               c == Cardinality(hits \ before)
    <3> HIDE DEF a, b, c
    <3>1. f.at = a /\ f.num[1] = b /\ f.num[2] = c
      BY <2>1 DEF a, b, c
    <3>2. a \in Index /\ b \in Nat /\ c \in Index
      BY <2>3, <2>10, <2>11 DEF a, b, c
    <3>3. QED
      BY <3>1, <3>2, RingAssumption DEF Released, Index
  <2>13. QED
    BY <2>12 DEF f
<1>3. QED
  BY <1>1, <1>2

-----------------------------------------------------------------------------
(* The inductive invariant *)

\* The positions a user may be given
Writing ==
  /\ write_ptr \in [x : Index, pts : Index]
  /\ adding # None => adding.x \in Index

Whole == user_ctx = [u \in Users |-> user_ctx[u]]

InStep(r) == r = [x |-> r.x, pts |-> r.pts] /\ r.pts \in Index /\ r.x = r.pts

BInv == Writing /\ Whole /\ \A u \in Active \ torn : InStep(user_ctx[u])

LEMMA BInit == Init => BInv
  BY RingAssumption DEF Init, BInv, Writing, Whole, Active, Index

LEMMA WriteSampleStep == BInv /\ WriteSample => BInv'
<1> SUFFICES ASSUME BInv, WriteSample PROVE BInv'
  OBVIOUS
<1> USE DEF BInv
<1>1. (write_ptr.x + 1) % N \in Index
  BY RingAssumption DEF Writing, Index
<1>2. Writing' /\ Whole'
  BY <1>1 DEF WriteSample, Writing, Whole, uservars
<1>3. ASSUME NEW u \in Active' \ torn'
      PROVE  InStep(user_ctx'[u])
  <2>1. u \in Users /\ torn' = torn
    BY <1>3 DEF Active, WriteSample
  <2>2. user_ctx'[u] = IF u \in Active /\ Overflows(u) THEN Skip(user_ctx[u]) ELSE user_ctx[u]
    BY <2>1 DEF WriteSample
  <2>3. u \in Active \ torn
    BY <1>3, <2>1, <2>2 DEF Active
  <2>4. InStep(user_ctx[u]) /\ InStep(Skip(user_ctx[u]))
    BY <2>3, RingAssumption DEF InStep, Skip, Index
  <2>5. QED
    BY <2>2, <2>4
<1>4. QED
  BY <1>2, <1>3

LEMMA ReadStep ==
  ASSUME BInv, NEW u \in Users, NEW begin, NEW end, msensor_buf_get_data(u, begin, end)
  PROVE  BInv'
<1> USE DEF BInv
<1>1. PICK beyond, forward :
        LET r == user_ctx[u]
            start == BackPosition(r, StepsBack(r, begin, beyond))
            f == Found(start.pts, StepsAhead(start.pts, end, forward, beyond), begin, beyond)
        IN  user_ctx' = [user_ctx EXCEPT ![u] = Released(f)]
  BY Zenon DEF msensor_buf_get_data
<1> DEFINE r == user_ctx[u]
           start == BackPosition(r, StepsBack(r, begin, beyond))
           f == Found(start.pts, StepsAhead(start.pts, end, forward, beyond), begin, beyond)
<1>2. u \in Active /\ UNCHANGED <<write_ptr, torn, adding>>
  BY DEF msensor_buf_get_data, uservars
<1>3. user_ctx' = [user_ctx EXCEPT ![u] = Released(f)]
  BY <1>1
<1>4. u \notin torn => InStep(Released(f))
  <2> SUFFICES ASSUME u \notin torn PROVE InStep(Released(f))
    OBVIOUS
  <2>1. r.pts \in Index /\ write_ptr.pts \in Index
    BY <1>2 DEF Writing, InStep
  <2>2. start.pts \in Index
    BY <2>1, BackwardSearch
  <2>3. StepsAhead(start.pts, end, forward, beyond) \in 0..N
    BY <2>1, <2>2, ForwardSearch
  <2>4. Released(f).pts \in Index /\ Released(f).x = Released(f).pts
    BY <2>2, <2>3, ReleasedWithin
  <2>5. Released(f) = [x |-> Released(f).x, pts |-> Released(f).pts]
    BY DEF Released
  <2>6. QED
    BY <2>4, <2>5 DEF InStep
<1> HIDE DEF f
<1>5. Writing' /\ Whole'
  BY <1>2, <1>3 DEF Writing, Whole
<1>6. ASSUME NEW v \in Active' \ torn' PROVE InStep(user_ctx'[v])
  <2>1. v \in Users /\ v \notin torn
    BY <1>2, <1>6 DEF Active
  <2>2. CASE v = u
    BY <1>3, <1>4, <2>1, <2>2 DEF Whole
  <2>3. CASE v # u
    <3>1. user_ctx'[v] = user_ctx[v]
      BY <1>3, <2>1, <2>3 DEF Whole
    <3>2. QED
      BY <1>6, <2>1, <3>1 DEF Active
  <2>4. QED
    BY <2>2, <2>3
<1>7. QED
  BY <1>5, <1>6

\* Only a user whose two copies agree counts as in step.
LEMMA AddUserDoneStep == BInv /\ AddUserDone => BInv'
<1> SUFFICES ASSUME BInv, AddUserDone PROVE BInv'
  OBVIOUS
<1> USE DEF BInv
<1> DEFINE w == adding.user
           ctx == [x |-> adding.x, pts |-> write_ptr.pts]
<1>1. /\ adding # None /\ adding' = None /\ write_ptr' = write_ptr
      /\ user_ctx' = [user_ctx EXCEPT ![w] = ctx]
      /\ torn' = IF adding.x = write_ptr.pts THEN torn \ {w} ELSE torn \cup {w}
  BY DEF AddUserDone
<1>2. w \notin torn' => InStep(ctx)
  BY <1>1 DEF Writing, InStep
<1> HIDE DEF w, ctx
<1>3. Writing' /\ Whole'
  BY <1>1 DEF Writing, Whole
<1>4. ASSUME NEW v \in Active' \ torn' PROVE InStep(user_ctx'[v])
  <2>1. v \in Users
    BY <1>4 DEF Active
  <2>2. CASE v = w
    BY <1>1, <1>2, <1>4, <2>1, <2>2 DEF Whole
  <2>3. CASE v # w
    <3>1. user_ctx'[v] = user_ctx[v] /\ v \notin torn
      BY <1>1, <1>4, <2>1, <2>3 DEF Whole
    <3>2. QED
      BY <1>4, <2>1, <3>1 DEF Active
  <2>4. QED
    BY <2>2, <2>3
<1>5. QED
  BY <1>3, <1>4

LEMMA DeleteUserDoneStep ==
  ASSUME BInv, NEW t \in Threads, DeleteUserDone(t)
  PROVE  BInv'
<1> USE DEF BInv
<1> DEFINE d == deleting[t]
<1>1. /\ UNCHANGED <<write_ptr, adding>>
      /\ user_ctx' = [user_ctx EXCEPT ![d] = NoCtx] /\ torn' = torn \ {d}
  BY DEF DeleteUserDone
<1> HIDE DEF d
<1>2. Writing' /\ Whole'
  BY <1>1 DEF Writing, Whole
<1>3. ASSUME NEW v \in Active' \ torn' PROVE InStep(user_ctx'[v])
  <2>1. v \in Users /\ v # d
    BY <1>1, <1>3 DEF Active, Whole
  <2>2. user_ctx'[v] = user_ctx[v] /\ v \notin torn
    BY <1>1, <1>3, <2>1 DEF Whole
  <2>3. QED
    BY <1>3, <2>1, <2>2 DEF Active
<1>4. QED
  BY <1>2, <1>3

LEMMA BStep == BInv /\ [Next]_vars => BInv'
<1> SUFFICES ASSUME BInv, [Next]_vars PROVE BInv'
  OBVIOUS
<1> USE DEF BInv
<1>1. CASE WriteSample
  BY <1>1, WriteSampleStep
<1>2. CASE WritePts
  BY <1>2 DEF WritePts, uservars, Writing, Whole, Active
<1>3. ASSUME NEW u \in Users, NEW begin \in 1..MaxPts, NEW end \in 1..MaxPts,
             msensor_buf_get_data(u, begin, end)
      PROVE  BInv'
  BY <1>3, ReadStep
<1>4. CASE AddUser
  BY <1>4 DEF AddUser, Writing, Whole, Active
<1>5. CASE AddUserDone
  BY <1>5, AddUserDoneStep
<1>6. ASSUME NEW t \in Threads, DeleteUserDone(t) PROVE BInv'
  BY <1>6, DeleteUserDoneStep
<1>7. ASSUME NEW t \in Threads, NEW u \in Users, DeleteUser(t, u) PROVE BInv'
  BY <1>7 DEF DeleteUser, Writing, Whole, Active
<1>8. CASE UNCHANGED vars
  BY <1>8 DEF vars, uservars, Writing, Whole, Active
<1>9. QED
  BY <1>1, <1>2, <1>3, <1>4, <1>5, <1>6, <1>7, <1>8 DEF Next

\* The positions of a user that was added between samples are one entry of the
\* ring in every block, for every size of the ring and any gap, any number of
\* users, deletions and searches. (motionsensor_buf.c:63-150, 317-446, 484-632)
THEOREM BlocksInStepAlways == Spec => []BlocksInStep
<1>1. BInv => BlocksInStep
  <2> SUFFICES ASSUME BInv, NEW u \in Active \ torn
               PROVE  user_ctx[u].x = user_ctx[u].pts /\ user_ctx[u].x < N
    BY DEF BlocksInStep
  <2>1. user_ctx[u].pts \in Index /\ user_ctx[u].x = user_ctx[u].pts
    BY DEF BInv, InStep
  <2>2. QED
    BY <2>1, RingAssumption DEF Index
<1>2. QED
  BY <1>1, BInit, BStep, PTL DEF Spec

-----------------------------------------------------------------------------
(* Walking round the ring, in numbers *)

LEMMA Remainders ==
  ASSUME NEW i \in Int, -N <= i, i < 2 * N
  PROVE  i % N = IF i < 0 THEN i + N ELSE IF i < N THEN i ELSE i - N
  BY RingAssumption

LEMMA Entries ==
  ASSUME NEW p \in Index
  PROVE  /\ \A k \in 0..N : Ahead(p, k) = IF p + k < N THEN p + k ELSE p + k - N
         /\ \A k \in 0..(p + N) : Back(p, k) = IF k <= p THEN p - k ELSE p - k + N
<1>1. p \in Nat /\ p < N /\ N \in Nat
  BY RingAssumption DEF Index
<1>2. ASSUME NEW k \in 0..N
      PROVE  Ahead(p, k) = IF p + k < N THEN p + k ELSE p + k - N
  <2>1. (p + k) % N = IF p + k < N THEN p + k ELSE p + k - N
    BY <1>1, Remainders
  <2>2. QED
    BY <1>1, <2>1 DEF Ahead
<1>3. ASSUME NEW k \in 0..(p + N)
      PROVE  Back(p, k) = IF k <= p THEN p - k ELSE p - k + N
  <2>1. (p - k) % N = IF p - k < 0 THEN p - k + N ELSE p - k
    BY <1>1, Remainders
  <2>2. QED
    BY <1>1, <2>1 DEF Back
<1>4. QED
  BY <1>2, <1>3

\* How many entries lie between the next one to be written and entry i: the
\* oldest entry is that one, the newest is the last
Rank(i) == IF i < write_ptr.x THEN i - write_ptr.x + N ELSE i - write_ptr.x

LEMMA RankSteps ==
  ASSUME write_ptr.x \in Index, NEW p \in Index
  PROVE  /\ Rank(p) \in 0..(N - 1) /\ (Rank(p) = 0 <=> p = write_ptr.x)
         /\ \A k \in 0..Rank(p) : Back(p, k) \in Index /\ Rank(Back(p, k)) = Rank(p) - k
         /\ \A k \in 0..(N - 1 - Rank(p)) : Ahead(p, k) \in Index /\ Rank(Ahead(p, k)) = Rank(p) + k
         /\ Ahead(p, N - Rank(p)) = write_ptr.x
<1>1. p \in Nat /\ p < N /\ write_ptr.x \in Nat /\ write_ptr.x < N /\ N \in Nat
  BY RingAssumption DEF Index
<1>2. Rank(p) \in 0..(N - 1) /\ (Rank(p) = 0 <=> p = write_ptr.x) /\ Rank(p) <= p + N
  BY <1>1 DEF Rank
<1>3. ASSUME NEW k \in 0..Rank(p)
      PROVE  Back(p, k) \in Index /\ Rank(Back(p, k)) = Rank(p) - k
  <2>1. k \in 0..(p + N)
    BY <1>1, <1>2
  <2>2. Back(p, k) = IF k <= p THEN p - k ELSE p - k + N
    BY <2>1, Entries
  <2>3. QED
    BY <1>1, <2>2 DEF Rank, Index
<1>4. ASSUME NEW k \in 0..(N - 1 - Rank(p))
      PROVE  Ahead(p, k) \in Index /\ Rank(Ahead(p, k)) = Rank(p) + k
  <2>1. k \in 0..N
    BY <1>1, <1>2
  <2>2. Ahead(p, k) = IF p + k < N THEN p + k ELSE p + k - N
    BY <2>1, Entries
  <2>3. QED
    BY <1>1, <2>2 DEF Rank, Index
<1>5. Ahead(p, N - Rank(p)) = write_ptr.x
  <2>1. N - Rank(p) \in 0..N
    BY <1>1, <1>2
  <2>2. Ahead(p, N - Rank(p)) = IF p + (N - Rank(p)) < N THEN p + (N - Rank(p)) ELSE p + (N - Rank(p)) - N
    BY <2>1, Entries
  <2>3. QED
    BY <1>1, <2>2 DEF Rank
<1>6. QED
  BY <1>2, <1>3, <1>4, <1>5

\* The sample at rank d: the ring holds the last N samples, or all of them.
Sample(d) == IF last + 1 + d > N THEN last + 1 + d - N ELSE 0

Stored ==
  /\ last \in Nat /\ ring \in [Index -> Nat]
  /\ \A i \in Index : ring[i] = Sample(Rank(i))

-----------------------------------------------------------------------------
(* The two searches by rank *)

LEMMA SearchBack ==
  ASSUME Stored, Unlocked, write_ptr.pts \in Index, NEW r, InStep(r), NEW begin
  PROVE  LET back == StepsBack(r, begin, 0) IN
         /\ back \in 0..Rank(r.pts)
         /\ BackPosition(r, back).pts \in Index
         /\ Rank(BackPosition(r, back).pts) = Rank(r.pts) - back
<1> DEFINE p == r.pts
           S == {k \in 0..(p + N) : At(Back(p, k), 0) <= begin \/ Back(p, k) = write_ptr.pts}
<1>1. p \in Index /\ write_ptr.x \in Index /\ write_ptr.pts = write_ptr.x
  BY DEF InStep, Unlocked
<1>2. p \in Nat /\ N \in Nat
  BY <1>1, RingAssumption DEF Index
<1>3. Rank(p) \in 0..(N - 1) /\ Rank(p) \in 0..Rank(p)
  BY <1>1, <1>2, RankSteps
<1>4. Rank(Back(p, Rank(p))) = 0 /\ Back(p, Rank(p)) \in Index
  BY <1>1, <1>3, RankSteps
<1>5. Back(p, Rank(p)) = write_ptr.x
  BY <1>1, <1>4, RankSteps
<1>6. S \in SUBSET Nat /\ Rank(p) \in S
  BY <1>1, <1>2, <1>3, <1>5
<1>7. Min(S) \in S /\ Min(S) <= Rank(p)
  BY <1>6, LeastElement
<1>8. StepsBack(r, begin, 0) = Min(S)
  BY DEF StepsBack
<1>9. StepsBack(r, begin, 0) \in 0..Rank(p)
  BY <1>2, <1>3, <1>7, <1>8
<1>10. QED
  BY <1>1, <1>9, RankSteps DEF BackPosition

\* Every entry passed holds a sample no later than end; the search ends at the
\* next entry to be written or at a later sample.
LEMMA SearchAhead ==
  ASSUME Stored, Unlocked, write_ptr.pts \in Index, NEW p \in Index, NEW end \in Int, NEW forward
  PROVE  LET steps == StepsAhead(p, end, forward, 0) IN
         /\ steps \in 0..(N - Rank(p))
         /\ \A k \in 0..(steps - 1) : Sample(Rank(p) + k) <= end
         /\ steps < N - Rank(p) =>
              (Rank(p) + steps = 0 /\ forward) \/ Sample(Rank(p) + steps) > end
<1> DEFINE S == {k \in 0..(N + 1) : \/ Ahead(p, k) = write_ptr.pts /\ (k > 0 \/ forward)
                                    \/ At(Ahead(p, k), 0) > end}
           steps == StepsAhead(p, end, forward, 0)
<1>1. write_ptr.x \in Index /\ write_ptr.pts = write_ptr.x
  BY DEF Unlocked
<1>2. N \in Nat /\ Rank(p) \in 0..(N - 1)
  BY <1>1, RankSteps, RingAssumption
<1>3. N - Rank(p) \in 0..(N + 1) /\ N - Rank(p) > 0
  BY <1>2
<1>4. Ahead(p, N - Rank(p)) = write_ptr.pts
  BY <1>1, RankSteps
<1>5. S \in SUBSET Nat /\ N - Rank(p) \in S
  BY <1>3, <1>4
<1>6. Min(S) \in S /\ Min(S) <= N - Rank(p) /\ \A k \in S : Min(S) <= k
  BY <1>5, LeastElement
<1>7. steps = Min(S)
  BY DEF StepsAhead
<1>8. steps \in 0..(N - Rank(p))
  BY <1>2, <1>6, <1>7
<1>9. \A k \in 0..(N - 1 - Rank(p)) : /\ At(Ahead(p, k), 0) = Sample(Rank(p) + k)
                                      /\ Ahead(p, k) = write_ptr.pts <=> Rank(p) + k = 0
  <2> TAKE k \in 0..(N - 1 - Rank(p))
  <2>1. Ahead(p, k) \in Index /\ Rank(Ahead(p, k)) = Rank(p) + k
    BY <1>1, RankSteps
  <2>2. Ahead(p, k) < N
    BY <1>2, <2>1 DEF Index
  <2>3. At(Ahead(p, k), 0) = Sample(Rank(p) + k)
    BY <2>1, <2>2 DEF At, Stored
  <2>4. Ahead(p, k) = write_ptr.x <=> Rank(Ahead(p, k)) = 0
    BY <1>1, <2>1, RankSteps
  <2>5. QED
    BY <1>1, <2>1, <2>3, <2>4
<1>10. ASSUME NEW k \in 0..(steps - 1)
       PROVE  Sample(Rank(p) + k) <= end
  <2>1. k \in 0..(N - 1 - Rank(p)) /\ k \in 0..(N + 1) /\ ~ (steps <= k)
    BY <1>2, <1>8
  <2>2. k \notin S
    BY <1>6, <1>7, <2>1
  <2>3. ~ (Sample(Rank(p) + k) > end)
    BY <1>9, <2>1, <2>2
  <2>4. Sample(Rank(p) + k) \in Int
    BY <1>2, <2>1 DEF Sample, Stored
  <2>5. QED
    BY <2>3, <2>4
<1>11. ASSUME steps < N - Rank(p)
       PROVE  (Rank(p) + steps = 0 /\ forward) \/ Sample(Rank(p) + steps) > end
  <2>1. steps \in 0..(N - 1 - Rank(p))
    BY <1>2, <1>8, <1>11
  <2>2. steps > 0 => Rank(p) + steps # 0
    BY <1>2, <1>8
  <2>3. (Ahead(p, steps) = write_ptr.pts /\ (steps > 0 \/ forward))
        \/ At(Ahead(p, steps), 0) > end
    BY <1>6, <1>7
  <2>4. QED
    BY <1>9, <2>1, <2>2, <2>3
<1> HIDE DEF steps
<1>12. QED
  BY <1>8, <1>10, <1>11 DEF steps

-----------------------------------------------------------------------------
(* What is found between two entries *)

LEMMA Interval ==
  ASSUME NEW a \in Nat, NEW m \in Nat
  PROVE  Cardinality(a..(a + m - 1)) = m
<1> DEFINE b == a + m - 1
<1>1. a \in Int /\ b \in Int
  OBVIOUS
<1>2. (IF a > b THEN 0 ELSE b - a + 1) = m
  OBVIOUS
<1> HIDE DEF b
<1>3. Cardinality(a..b) = IF a > b THEN 0 ELSE b - a + 1
  BY <1>1, FS_Interval, Zenon
<1>4. QED
  BY <1>2, <1>3 DEF b

\* The place of the i-th sample of what was found
Place(f, i) == IF i <= f.num[1] THEN f.at + i - 1 ELSE i - f.num[1] - 1

\* The samples from begin on are the last ones of the n visited, and are at the
\* places given to the user, before and after the wrap.
LEMMA FoundSamples ==
  ASSUME Stored, write_ptr.x \in Index, NEW p \in Index, NEW n \in 0..(N - Rank(p)),
         NEW begin \in Nat, begin > 0
  PROVE  LET f == Found(p, n, begin, 0) IN
         /\ f.num[1] \in Nat /\ f.num[2] \in Nat
         /\ \E a \in 0..n :
              /\ f.num[1] + f.num[2] = n - a
              /\ \A k \in 0..(n - 1) : Sample(Rank(p) + k) >= begin <=> a <= k
              /\ \A i \in 1..(n - a) : ring[Place(f, i)] = Sample(Rank(p) + a + i - 1)
<1> DEFINE hits == {k \in 0..(n - 1) : At(Ahead(p, k), 0) >= begin}
           first == Min(hits)
           before == {k \in hits : Ahead(p, k) >= Ahead(p, first)}
           f == Found(p, n, begin, 0)
<1>1. N \in Nat /\ Rank(p) \in 0..(N - 1) /\ p \in Nat /\ p < N /\ last \in Nat
  BY RankSteps, RingAssumption DEF Index, Stored
<1>2. n \in Nat /\ n <= N - Rank(p) /\ n <= N
  BY <1>1
<1>3. ASSUME NEW k \in 0..(n - 1)
      PROVE  /\ Ahead(p, k) \in Index /\ ring[Ahead(p, k)] = Sample(Rank(p) + k)
             /\ At(Ahead(p, k), 0) = Sample(Rank(p) + k)
             /\ Ahead(p, k) = IF p + k < N THEN p + k ELSE p + k - N
  <2>1. k \in 0..(N - 1 - Rank(p)) /\ k \in 0..N
    BY <1>1, <1>2
  <2>2. Ahead(p, k) \in Index /\ Rank(Ahead(p, k)) = Rank(p) + k
    BY <2>1, RankSteps
  <2>3. Ahead(p, k) < N
    BY <1>1, <2>2 DEF Index
  <2>4. QED
    BY <2>1, <2>2, <2>3, Entries DEF At, Stored
<1>4. hits = {k \in 0..(n - 1) : Sample(Rank(p) + k) >= begin}
  BY <1>3
<1>5. CASE hits = {}
  <2>1. f.num[1] = 0 /\ f.num[2] = 0
    BY <1>5 DEF Found
  <2>2. \A k \in 0..(n - 1) : ~ (Sample(Rank(p) + k) >= begin)
    BY <1>4, <1>5
  <2>3. n \in 0..n /\ f.num[1] + f.num[2] = n - n
    BY <1>2, <2>1
  <2>4. \A k \in 0..(n - 1) : Sample(Rank(p) + k) >= begin <=> n <= k
    BY <1>2, <2>2
  <2>5. \A i \in 1..(n - n) : ring[Place(f, i)] = Sample(Rank(p) + n + i - 1)
    BY <1>2
  <2> HIDE DEF f
  <2>6. QED
    BY <2>1, <2>3, <2>4, <2>5 DEF f
<1>6. CASE hits # {}
  <2>1. hits \in SUBSET Nat
    BY <1>2
  <2>2. first \in hits /\ \A k \in hits : first <= k
    BY <1>6, <2>1, LeastElement
  <2>3. first \in 0..(n - 1) /\ first \in Nat /\ n > 0 /\ Sample(Rank(p) + first) >= begin
    BY <1>2, <1>4, <2>2
  <2> DEFINE at == Ahead(p, first)
             b == IF at + n - first <= N THEN n - first ELSE N - at
  <2>4. at \in 0..(N - 1) /\ at = IF p + first < N THEN p + first ELSE p + first - N
    BY <1>3, <2>3 DEF Index
  <2>5. \A k \in 0..(n - 1) : Sample(Rank(p) + k) >= begin <=> first <= k
    <3> TAKE k \in 0..(n - 1)
    <3>1. Sample(Rank(p) + k) >= begin => first <= k
      BY <1>4, <2>2
    <3>2. Sample(Rank(p) + first) <= Sample(Rank(p) + k) \/ ~ (first <= k)
      BY <1>1, <1>2, <2>3 DEF Sample
    <3>3. Sample(Rank(p) + first) \in Nat /\ Sample(Rank(p) + k) \in Nat
      BY <1>1, <1>2, <2>3 DEF Sample
    <3>4. QED
      BY <2>3, <3>1, <3>2, <3>3
  <2>6. hits = first..(n - 1)
    BY <1>2, <1>4, <2>3, <2>5
  <2> HIDE DEF hits, first
  <2>7. b \in Nat /\ b <= n - first
    BY <1>1, <1>2, <2>3, <2>4
  <2>8. before = first..(first + b - 1)
    <3>1. \A k \in first..(n - 1) : Ahead(p, k) = IF at + (k - first) < N THEN at + (k - first)
                                                    ELSE at + (k - first) - N
      BY <1>1, <1>2, <1>3, <2>3, <2>4
    <3>2. \A k \in first..(n - 1) : Ahead(p, k) >= at <=> k \in first..(first + b - 1)
      BY <1>1, <1>2, <2>3, <2>4, <3>1
    <3>3. first..(first + b - 1) \subseteq first..(n - 1)
      BY <1>2, <2>3, <2>7
    <3>4. QED
      BY <2>6, <3>2, <3>3
  <2> HIDE DEF b
  <2>9. hits \ before = (first + b)..(n - 1)
    BY <1>2, <2>3, <2>6, <2>7, <2>8
  <2>10. Cardinality(before) = b /\ Cardinality(hits \ before) = n - first - b
    <3>1. Cardinality(before) = b
      BY <2>3, <2>7, <2>8, Interval, Zenon
    <3>2. first + b \in Nat /\ n - first - b \in Nat
      BY <1>2, <2>3, <2>7
    <3>3. hits \ before = (first + b)..(first + b + (n - first - b) - 1)
      BY <1>2, <2>3, <2>7, <2>9
    <3>4. Cardinality((first + b)..(first + b + (n - first - b) - 1)) = n - first - b
      BY ONLY <3>2, Interval, Zenon
    <3>5. QED
      BY ONLY <3>1, <3>3, <3>4, Zenon
  <2>11. f = [at |-> at, num |-> <<Cardinality(before), Cardinality(hits \ before)>>]
    BY <1>6 DEF Found, hits, first
  <2>12. f.at = at /\ f.num[1] = b /\ f.num[2] = n - first - b
    BY <2>10, <2>11
  <2> HIDE DEF f, at, before
  <2>13. \A i \in 1..(n - first) : ring[Place(f, i)] = Sample(Rank(p) + first + i - 1)
    <3> TAKE i \in 1..(n - first)
    <3>1. first + i - 1 \in 0..(n - 1)
      BY <1>2, <2>3
    <3>2. /\ ring[Ahead(p, first + i - 1)] = Sample(Rank(p) + (first + i - 1))
          /\ Ahead(p, first + i - 1) =
               IF p + (first + i - 1) < N THEN p + (first + i - 1) ELSE p + (first + i - 1) - N
      BY <1>3, <3>1
    <3>3. Ahead(p, first + i - 1) = Place(f, i)
      BY <1>1, <1>2, <2>3, <2>4, <2>7, <2>12, <3>2 DEF Place, b
    <3>4. Rank(p) + (first + i - 1) = Rank(p) + first + i - 1
      BY <1>1, <2>3
    <3>5. QED
      BY <3>2, <3>3, <3>4
  <2>14. first \in 0..n /\ f.num[1] + f.num[2] = n - first /\ f.num[1] \in Nat /\ f.num[2] \in Nat
    BY <1>2, <2>3, <2>7, <2>12
  <2>15. QED
    BY <2>5, <2>13, <2>14 DEF f
<1>7. QED
  BY <1>5, <1>6

-----------------------------------------------------------------------------
(* Reading what is asked *)

\* What the user has not read is at ranks from its position on.
LEMMA UnreadRanks ==
  ASSUME write_ptr.x \in Index, write_ptr.pts = write_ptr.x, NEW r, r.pts \in Index,
         NEW e \in Unread(r)
  PROVE  e \in Index /\ Rank(r.pts) > 0 /\ Rank(r.pts) <= Rank(e)
<1> DEFINE p == r.pts
           w == write_ptr.x
<1> HIDE DEF p, w
<1>1. e \in Index /\ e # w /\ (e - p) % N < (w - p) % N /\ p \in Index /\ w \in Index
  BY DEF Unread, Index, p, w
<1>2. /\ N \in Nat /\ p \in Nat /\ w \in Nat /\ e \in Nat
      /\ p < N /\ w < N /\ e < N
  BY <1>1, RingAssumption DEF Index
<1>3. (e - p) % N = IF e - p < 0 THEN e - p + N ELSE e - p
  BY <1>2, Remainders
<1>4. (w - p) % N = IF w - p < 0 THEN w - p + N ELSE w - p
  BY <1>2, Remainders
<1>5. Rank(p) > 0 /\ Rank(p) <= Rank(e)
  BY <1>1, <1>2, <1>3, <1>4 DEF Rank, w
<1>6. QED
  BY <1>1, <1>5 DEF p

LEMMA ReadAnswers ==
  ASSUME BInv, Stored, NEW u \in Users, NEW begin \in 1..MaxPts, NEW end \in 1..MaxPts,
         msensor_buf_get_data(u, begin, end)
  PROVE  ReadsWhatIsAsked'
<1>1. SUFFICES ASSUME out' # None, ~out'.torn, ~out'.raced
               PROVE  /\ \A i \in DOMAIN Returned' :
                           /\ out'.begin <= Returned'[i] /\ Returned'[i] <= out'.end
                           /\ i > 1 => Returned'[i] = Returned'[i - 1] + 1
                      /\ \A v \in out'.unread :
                           out'.begin <= v /\ v <= out'.end => Contains(Returned', v)
  BY Zenon DEF ReadsWhatIsAsked
<1> DEFINE r == user_ctx[u]
           start(beyond) == BackPosition(r, StepsBack(r, begin, beyond))
           ahead(forward, beyond) == StepsAhead(start(beyond).pts, end, forward, beyond)
           found(forward, beyond) == Found(start(beyond).pts, ahead(forward, beyond), begin, beyond)
<1>2. /\ Unlocked /\ u \in Active /\ UNCHANGED <<ring, last, write_ptr>>
      /\ \E beyond \in (IF r.pts < N THEN {0} ELSE 0..MaxPts),
            raced \in (IF adding = None THEN {FALSE} ELSE BOOLEAN) :
           LET forward == (g_forward /\ StepsBack(r, begin, beyond) = 0) \/ raced
               f == found(forward, beyond)
           IN  out' = [user |-> u, begin |-> begin, end |-> end,
                       torn |-> u \in torn, raced |-> raced,
                       at |-> f.at, num |-> f.num, unread |-> {ring[k] : k \in Unread(r)}]
  BY ZenonT(60) DEF msensor_buf_get_data
<1>3. PICK beyond \in (IF r.pts < N THEN {0} ELSE 0..MaxPts),
           raced \in (IF adding = None THEN {FALSE} ELSE BOOLEAN) :
        LET forward == (g_forward /\ StepsBack(r, begin, beyond) = 0) \/ raced
            f == found(forward, beyond)
        IN  out' = [user |-> u, begin |-> begin, end |-> end,
                    torn |-> u \in torn, raced |-> raced,
                    at |-> f.at, num |-> f.num, unread |-> {ring[k] : k \in Unread(r)}]
  BY <1>2, Zenon
<1> DEFINE back == StepsBack(r, begin, 0)
           forward == (g_forward /\ back = 0) \/ raced
           p == start(0).pts
           n == ahead(forward, 0)
           f == found(forward, 0)
<1>4. u \notin torn /\ ~raced
  BY <1>1, <1>3
<1>5. InStep(r) /\ write_ptr.x \in Index /\ write_ptr.pts \in Index
  BY <1>2, <1>4 DEF BInv, Writing
<1>6. beyond = 0
  BY <1>5, RingAssumption DEF InStep, Index
<1>7. /\ out'.begin = begin /\ out'.end = end /\ out'.at = f.at /\ out'.num = f.num
      /\ out'.unread = {ring[k] : k \in Unread(r)}
  BY <1>3, <1>6
<1>8. /\ back \in 0..Rank(r.pts) /\ p \in Index /\ Rank(p) = Rank(r.pts) - back
  BY <1>2, <1>5, SearchBack
<1> HIDE DEF p, back, f, forward
<1>9. begin \in Nat /\ begin > 0 /\ end \in Int
  BY RingAssumption
<1>10. /\ n \in 0..(N - Rank(p))
       /\ \A k \in 0..(n - 1) : Sample(Rank(p) + k) <= end
       /\ n < N - Rank(p) => (Rank(p) + n = 0 /\ forward) \/ Sample(Rank(p) + n) > end
  BY <1>2, <1>5, <1>8, <1>9, SearchAhead DEF p
<1> HIDE DEF n
<1>11. f = Found(p, n, begin, 0)
  BY DEF f, p, n
<1>12. /\ f.num[1] \in Nat /\ f.num[2] \in Nat
       /\ \E a \in 0..n :
            /\ f.num[1] + f.num[2] = n - a
            /\ \A k \in 0..(n - 1) : Sample(Rank(p) + k) >= begin <=> a <= k
            /\ \A i \in 1..(n - a) : ring[Place(f, i)] = Sample(Rank(p) + a + i - 1)
  BY <1>5, <1>8, <1>9, <1>10, <1>11, FoundSamples
<1>13. PICK a \in 0..n :
         /\ f.num[1] + f.num[2] = n - a
         /\ \A k \in 0..(n - 1) : Sample(Rank(p) + k) >= begin <=> a <= k
         /\ \A i \in 1..(n - a) : ring[Place(f, i)] = Sample(Rank(p) + a + i - 1)
  BY <1>12
<1>14. N \in Nat /\ Rank(p) \in Nat /\ n \in Nat /\ a \in Nat /\ last \in Nat
  BY <1>5, <1>8, <1>10, RankSteps, RingAssumption DEF Stored
<1>15. Returned' = [i \in 1..(n - a) |-> Sample(Rank(p) + a + i - 1)]
  <2>1. Returned' = [i \in 1..(f.num[1] + f.num[2]) |->
                       ring[IF i <= f.num[1] THEN f.at + i - 1 ELSE i - f.num[1] - 1]]
    BY <1>2, <1>7 DEF Returned
  <2>2. Returned' = [i \in 1..(n - a) |-> ring[Place(f, i)]]
    BY <1>13, <2>1 DEF Place
  <2>3. QED
    BY <1>13, <2>2
<1>16. ASSUME NEW i \in 1..(n - a)
       PROVE  /\ Returned'[i] = last + 1 + Rank(p) + a + i - 1 - N
              /\ begin <= Returned'[i] /\ Returned'[i] <= end
  <2>1. a + i - 1 \in 0..(n - 1) /\ a <= a + i - 1
    BY <1>14
  <2>2. Sample(Rank(p) + (a + i - 1)) >= begin /\ Sample(Rank(p) + (a + i - 1)) <= end
    BY <1>10, <1>13, <2>1
  <2>3. Returned'[i] = Sample(Rank(p) + (a + i - 1))
    BY <1>14, <1>15
  <2>4. Sample(Rank(p) + (a + i - 1)) = last + 1 + Rank(p) + a + i - 1 - N
    BY <1>9, <1>14, <2>2 DEF Sample
  <2>5. Sample(Rank(p) + (a + i - 1)) \in Int
    BY <1>14, <2>4
  <2>6. QED
    BY <1>9, <2>2, <2>3, <2>4, <2>5
<1>17. ASSUME NEW i \in DOMAIN Returned'
       PROVE  /\ out'.begin <= Returned'[i] /\ Returned'[i] <= out'.end
              /\ i > 1 => Returned'[i] = Returned'[i - 1] + 1
  <2>1. i \in 1..(n - a)
    BY <1>15
  <2>2. ASSUME i > 1 PROVE Returned'[i] = Returned'[i - 1] + 1
    <3>1. i - 1 \in 1..(n - a)
      BY <1>14, <2>1, <2>2
    <3>2. /\ Returned'[i - 1] = last + 1 + Rank(p) + a + (i - 1) - 1 - N
          /\ Returned'[i] = last + 1 + Rank(p) + a + i - 1 - N
      BY <1>16, <2>1, <3>1
    <3>3. QED
      BY <1>14, <2>1, <3>2
  <2>3. QED
    BY <1>7, <1>16, <2>1, <2>2
<1>18. ASSUME NEW v \in out'.unread, out'.begin <= v, v <= out'.end
       PROVE  Contains(Returned', v)
  <2>1. PICK e \in Unread(r) : v = ring[e]
    BY <1>7
  <2>2. e \in Index /\ Rank(r.pts) > 0 /\ Rank(r.pts) <= Rank(e)
    BY <1>2, <1>5, UnreadRanks DEF InStep, Unlocked
  <2>3. Rank(e) \in 0..(N - 1) /\ Rank(r.pts) \in 0..(N - 1)
    BY <1>5, <2>2, RankSteps DEF InStep
  <2>4. v = Sample(Rank(e)) /\ begin <= Sample(Rank(e)) /\ Sample(Rank(e)) <= end
    BY <1>7, <1>18, <2>1, <2>2 DEF Stored
  <2> DEFINE k == Rank(e) - Rank(p)
  <2>5. k \in Nat /\ k < N - Rank(p) /\ Rank(e) = Rank(p) + k
    BY <1>8, <1>14, <2>2, <2>3
  <2> HIDE DEF k
  <2>6. ASSUME n <= k PROVE FALSE
    <3>1. n < N - Rank(p)
      BY <1>14, <2>5, <2>6
    <3>2. ~ (Rank(p) + n = 0 /\ forward)
      <4>1. Rank(p) + n = 0 => back # 0
        BY <1>8, <1>14, <2>2, <2>3
      <4>2. QED
        BY <1>4, <4>1 DEF forward
    <3>3. Sample(Rank(p) + n) > end
      BY <1>10, <3>1, <3>2
    <3>4. Sample(Rank(p) + n) <= Sample(Rank(p) + k)
      BY <1>14, <2>5, <2>6 DEF Sample
    <3>5. Sample(Rank(p) + n) \in Int /\ Sample(Rank(p) + k) \in Int
      BY <1>14, <2>5 DEF Sample
    <3>6. QED
      BY <1>9, <2>4, <2>5, <3>3, <3>4, <3>5
  <2>7. k \in 0..(n - 1)
    BY <1>14, <2>5, <2>6
  <2>8. a <= k
    <3>1. Sample(Rank(p) + k) \in Int
      BY <1>14, <2>5 DEF Sample
    <3>2. Sample(Rank(p) + k) >= begin
      BY <1>9, <2>4, <2>5, <3>1
    <3>3. QED
      BY <1>13, <2>7, <3>2
  <2>9. k - a + 1 \in 1..(n - a)
    BY <1>14, <2>7, <2>8
  <2>10. Returned'[k - a + 1] = v
    <3>1. Returned'[k - a + 1] = Sample(Rank(p) + a + (k - a + 1) - 1)
      BY <1>15, <2>9
    <3>2. Rank(p) + a + (k - a + 1) - 1 = Rank(e)
      BY <1>14, <2>5
    <3>3. QED
      BY <2>4, <3>1, <3>2
  <2>11. Len(Returned') = n - a
    <3>1. n - a \in Nat /\ Returned' \in [1..(n - a) -> Int]
      BY <1>14, <1>15 DEF Sample
    <3>2. Returned' \in Seq(Int)
      BY <3>1, SeqDef
    <3>3. Len(Returned') \in Nat /\ DOMAIN Returned' = 1..Len(Returned')
      BY <3>2, LenProperties
    <3>4. DOMAIN Returned' = 1..(n - a)
      BY <1>15
    <3>5. QED
      BY <3>1, <3>3, <3>4
  <2>12. QED
    BY <2>9, <2>10, <2>11 DEF Contains
<1>19. QED
  BY <1>17, <1>18

-----------------------------------------------------------------------------
(* The ring holds the newest samples *)

LEMMA StoredStep ==
  ASSUME BInv, Stored, WriteSample
  PROVE  Stored'
<1>1. /\ write_ptr.x \in Index /\ write_ptr.pts = write_ptr.x
      /\ last' = last + 1 /\ ring' = [ring EXCEPT ![write_ptr.x] = last + 1]
      /\ write_ptr'.x = (write_ptr.x + 1) % N
  BY DEF WriteSample, BInv, Writing, Unlocked
<1>2. N \in Nat /\ write_ptr.x \in Nat /\ write_ptr.x < N /\ last \in Nat /\ ring \in [Index -> Nat]
  BY <1>1, RingAssumption DEF Index, Stored
<1>3. write_ptr'.x = IF write_ptr.x + 1 < N THEN write_ptr.x + 1 ELSE write_ptr.x + 1 - N
  BY <1>1, <1>2, Remainders
<1>4. last' \in Nat /\ ring' \in [Index -> Nat]
  BY <1>1, <1>2
<1>5. ASSUME NEW i \in Index
      PROVE  ring'[i] = Sample(Rank(i))'
  <2>1. i \in Nat /\ i < N /\ ring[i] = Sample(Rank(i))
    BY <1>2 DEF Stored, Index
  <2>2. Rank(i)' = IF i = write_ptr.x THEN N - 1 ELSE Rank(i) - 1
    BY <1>2, <1>3, <2>1 DEF Rank
  <2>3. Rank(i) \in Nat
    BY <1>2, <2>1 DEF Rank
  <2>4. Sample(Rank(i))' = IF last' + 1 + Rank(i)' > N THEN last' + 1 + Rank(i)' - N ELSE 0
    BY DEF Sample
  <2>5. CASE i = write_ptr.x
    <3>1. ring'[i] = last + 1
      BY <1>1, <1>2, <2>5
    <3>2. Sample(Rank(i))' = last + 1
      BY <1>1, <1>2, <2>2, <2>4, <2>5
    <3>3. QED
      BY <3>1, <3>2
  <2>6. CASE i # write_ptr.x
    <3>1. ring'[i] = Sample(Rank(i))
      BY <1>1, <1>2, <2>1, <2>6
    <3>2. Sample(Rank(i))' = Sample(Rank(i))
      BY <1>1, <1>2, <2>2, <2>3, <2>4, <2>6 DEF Sample
    <3>3. QED
      BY <3>1, <3>2
  <2>7. QED
    BY <2>5, <2>6
<1>6. QED
  BY <1>4, <1>5 DEF Stored

RInv == BInv /\ Stored /\ ReadsWhatIsAsked

LEMMA RInit == Init => RInv
<1> SUFFICES ASSUME Init PROVE RInv
  OBVIOUS
<1>1. BInv /\ ReadsWhatIsAsked
  BY BInit, Zenon DEF Init, ReadsWhatIsAsked
<1>2. last = 0 /\ ring = [i \in Index |-> 0] /\ write_ptr.x = 0
  BY DEF Init, Index
<1>3. \A i \in Index : Sample(Rank(i)) = 0
  BY <1>2, RingAssumption DEF Sample, Rank, Index
<1>4. QED
  BY <1>1, <1>2, <1>3 DEF RInv, Stored

LEMMA RStep == RInv /\ [Next]_vars => RInv'
<1> SUFFICES ASSUME RInv, [Next]_vars PROVE RInv'
  OBVIOUS
<1>1. BInv' /\ BInv /\ Stored
  BY BStep DEF RInv
<1>2. ASSUME UNCHANGED <<ring, last>>, write_ptr'.x = write_ptr.x
      PROVE  Stored'
  BY <1>1, <1>2 DEF Stored, Sample, Rank
<1>3. ASSUME out' = None PROVE ReadsWhatIsAsked'
  BY <1>3, Zenon DEF ReadsWhatIsAsked
<1>4. CASE WriteSample
  <2>1. out' = None
    BY <1>4 DEF WriteSample
  <2>2. QED
    BY <1>1, <1>3, <1>4, <2>1, StoredStep DEF RInv
<1>5. CASE WritePts
  <2>1. out' = None /\ UNCHANGED <<ring, last>> /\ write_ptr'.x = write_ptr.x
    BY <1>1, <1>5 DEF WritePts, BInv, Writing
  <2>2. QED
    BY <1>1, <1>2, <1>3, <2>1 DEF RInv
<1>6. ASSUME NEW u \in Users, NEW begin \in 1..MaxPts, NEW end \in 1..MaxPts,
             msensor_buf_get_data(u, begin, end)
      PROVE  RInv'
  <2>1. UNCHANGED <<ring, last, write_ptr>>
    BY <1>6 DEF msensor_buf_get_data
  <2>2. QED
    BY <1>1, <1>2, <1>6, <2>1, ReadAnswers DEF RInv
<1>7. ASSUME AddUser \/ AddUserDone \/ \E t \in Threads : DeleteUserDone(t) \/ \E u \in Users : DeleteUser(t, u)
      PROVE  RInv'
  <2>1. out' = None /\ UNCHANGED <<ring, last, write_ptr>>
    BY <1>7 DEF AddUser, AddUserDone, DeleteUserDone, DeleteUser
  <2>2. QED
    BY <1>1, <1>2, <1>3, <2>1 DEF RInv
<1>8. CASE UNCHANGED vars
  <2>1. UNCHANGED <<ring, last, write_ptr, out>>
    BY <1>8 DEF vars
  <2>2. ReadsWhatIsAsked'
    BY <2>1, ZenonT(60) DEF RInv, ReadsWhatIsAsked, Returned
  <2>3. QED
    BY <1>1, <1>2, <2>1, <2>2 DEF RInv
<1>9. QED
  BY <1>4, <1>5, <1>6, <1>7, <1>8 DEF Next

\* A read returns consecutive samples of the time asked for, and all of them
\* that the user has not read, for every size of the ring and any gap, number of
\* users and number of samples: wherever the ring wraps, however often the writer
\* has gone round it, however far the searches go, and whether a search that
\* begins at the write position takes the ring for empty or for full.
\* (motionsensor_buf.c:152-446, 484-632)
THEOREM ReadsWhatIsAskedAlways == Spec => []ReadsWhatIsAsked
<1>1. RInv => ReadsWhatIsAsked
  BY DEF RInv
<1>2. QED
  BY <1>1, RInit, RStep, PTL DEF Spec
=============================================================================
