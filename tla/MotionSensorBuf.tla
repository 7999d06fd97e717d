---------------------------- MODULE MotionSensorBuf ----------------------------
(***************************************************************************)
(* The sample buffer of the motion sensor manager                          *)
(* (vendor/motionsensor/motionsensor_mng/src/motionsensor_buf.c): one ring *)
(* per sensor, one writer, a read position per registered user. This is    *)
(* one of the rings; the others differ in nothing but their size.          *)
(*                                                                         *)
(* A ring has five blocks of N entries: x, y, z, temperature and time      *)
(* stamp. The first four positions move alike, so a position is a pair     *)
(* [x, pts]. A sample is its time stamp, and samples are 1, 2, 3, ...      *)
(*                                                                         *)
(* Writing and reading run under mng_lock. Adding a user does not: it      *)
(* copies the write positions one by one while a sample may be written,    *)
(* and sets g_forward while a read may look at it. (The first four copies  *)
(* may also miss each other, which concerns torn users only.)              *)
(* Initialising and deinitialising the buffer is left out.                 *)
(***************************************************************************)
EXTENDS Integers, FiniteSets, Sequences, SequencesExt, FiniteSetsExt

CONSTANTS
  N,        \* entries of a block
  Gap,      \* WR_GAP
  MaxUsers, \* MAX_USER_NUM
  Word,     \* one more than the largest value of user_cnt
  Threads,  \* callers of msensor_buf_delete_user
  MaxPts,   \* bound on the samples written
  NoCtx,    \* user_ctx[id] is NULL
  None      \* no call under way, no result

\* The ring is longer than the gap, and a count of users fits its counter.
ASSUME RingAssumption ==
  /\ N \in Nat /\ Gap \in Nat /\ 0 < Gap /\ Gap < N
  /\ MaxUsers \in Nat /\ MaxUsers + 1 < Word /\ MaxPts \in Nat

Users == 0..(MaxUsers - 1)

VARIABLES
  ring,      \* [0..N-1 -> time stamps], 0 where nothing has been written
  last,      \* the latest sample written
  write_ptr, \* [x, pts]
  user_ctx,  \* [Users -> read positions [x, pts] or NoCtx]
  user_cnt,
  g_forward, \* shared by all users: the last search has moved forward
  adding,    \* the msensor_buf_add_user that holds mng_mutex: its user and x
  deleting,  \* [Threads -> the user a delete has found registered]
  torn,      \* users whose positions were copied while samples were written,
             \* a history variable
  out        \* what the last msensor_buf_get_data returned, a history variable

vars == <<ring, last, write_ptr, user_ctx, user_cnt, g_forward, adding, deleting, torn, out>>
uservars == <<user_cnt, adding, deleting>>

Active == {u \in Users : user_ctx[u] # NoCtx}

\* mng_lock is free: no sample is half written.
Unlocked == write_ptr.x = write_ptr.pts

-----------------------------------------------------------------------------
(* Writing: msensor_buf_write_data *)

\* A reader the writer has come too close to loses one sample. Whether its
\* positions wrap is decided by x.
Skip(r) == IF r.x + 1 >= N THEN [x |-> 0, pts |-> 0] ELSE [x |-> r.x + 1, pts |-> r.pts + 1]

Overflows(u) == user_ctx[u].x = (write_ptr.x + Gap) % N

\* The sample is stored and the first four write positions move.
WriteSample ==
  /\ Unlocked /\ last < MaxPts
  /\ last' = last + 1
  /\ ring' = [ring EXCEPT ![write_ptr.pts] = last + 1]
  /\ user_ctx' = [u \in Users |->
       IF u \in Active /\ Overflows(u) THEN Skip(user_ctx[u]) ELSE user_ctx[u]]
  /\ write_ptr' = [write_ptr EXCEPT !.x = (@ + 1) % N]
  /\ out' = None
  /\ UNCHANGED <<g_forward, torn, uservars>>

\* The position of the time stamp moves.
WritePts ==
  /\ ~Unlocked
  /\ write_ptr' = [write_ptr EXCEPT !.pts = write_ptr.x]
  /\ out' = None
  /\ UNCHANGED <<ring, last, user_ctx, g_forward, torn, uservars>>

-----------------------------------------------------------------------------
(* Reading: msensor_buf_get_data *)

\* A position outside the ring reads as "beyond", whatever that is.
At(i, beyond) == IF i < N THEN ring[i] ELSE beyond

\* The position k entries before p, and k entries after it
Back(p, k) == IF k <= p THEN p - k ELSE (p - k) % N
Ahead(p, k) == IF k = 0 THEN p ELSE IF p >= N THEN k - 1 ELSE (p + k) % N

\* msensor_buf_arrive_back_start_addr: back to the first sample not after
\* begin, or to the oldest one
StepsBack(r, begin, beyond) ==
  Min({k \in 0..(r.pts + N) :
         At(Back(r.pts, k), beyond) <= begin \/ Back(r.pts, k) = write_ptr.pts})

\* x is set from the time stamps if the search has wrapped, and else moved.
BackPosition(r, k) ==
  LET p == Back(r.pts, k)
  IN  [x |-> IF k > r.pts THEN p ELSE r.x - k, pts |-> p]

\* Mutant: a search that meets the write position always ends there.
StepsAhead_empty(p, end, forward, beyond) ==
  Min({k \in 0..(N + 1) : Ahead(p, k) = write_ptr.pts \/ At(Ahead(p, k), beyond) > end})

\* msensor_buf_get_data_process: forward to the write position or the first
\* sample after end. At the write position the ring is full if the search went
\* back to it, and empty if it did not.
StepsAhead(p, end, forward, beyond) ==
  Min({k \in 0..(N + 1) :
         \/ Ahead(p, k) = write_ptr.pts /\ (k > 0 \/ forward)
         \/ At(Ahead(p, k), beyond) > end})

\* The entries given to the user: num[1] from x and pts on, then num[2] from the
\* start of the blocks. A search in n steps from p that finds nothing gives none.
Found(p, n, begin, beyond) ==
  LET hits == {k \in 0..(n - 1) : At(Ahead(p, k), beyond) >= begin}
      first == Min(hits)
      before == {k \in hits : Ahead(p, k) >= Ahead(p, first)}
  IN  IF hits = {} THEN [at |-> p, num |-> <<0, 0>>]
      ELSE [at |-> Ahead(p, first),
            num |-> <<Cardinality(before), Cardinality(hits \ before)>>]

\* Mutant: the end of the first part is not taken round.
Released_straight(f) ==
  LET i == IF f.num[2] > 0 THEN f.num[2] ELSE f.at + f.num[1]
  IN  [x |-> i, pts |-> i]

\* msensor_buf_get_data_assign and msensor_buf_release: the position after what
\* was found, the same in every block
Released(f) ==
  LET i == IF f.num[2] > 0 THEN f.num[2]
           ELSE IF f.num[1] > 0 /\ f.at + f.num[1] >= N THEN 0
           ELSE f.at + f.num[1]
  IN  [x |-> i, pts |-> i]

\* The entries of the ring a user with position r has not read
Unread(r) == {k \in 0..(N - 1) : k # write_ptr.pts /\
               (k - r.pts) % N < (write_ptr.pts - r.pts) % N}

\* raced: a user being added sets g_forward between the two searches.
msensor_buf_get_data(u, begin, end) ==
  /\ Unlocked /\ u \in Active
  /\ \E beyond \in (IF user_ctx[u].pts < N THEN {0} ELSE 0..MaxPts),
        raced \in (IF adding = None THEN {FALSE} ELSE BOOLEAN) :
       LET r == user_ctx[u]
           back == StepsBack(r, begin, beyond)
           forward == (g_forward /\ back = 0) \/ raced
           start == BackPosition(r, back)
           steps == StepsAhead(start.pts, end, forward, beyond)
           f == Found(start.pts, steps, begin, beyond)
       IN  /\ user_ctx' = [user_ctx EXCEPT ![u] = Released(f)]
           /\ g_forward' = (forward \/ steps > 0)
           /\ out' = [user |-> u, begin |-> begin, end |-> end,
                      torn |-> u \in torn, raced |-> raced,
                      at |-> f.at, num |-> f.num, unread |-> {ring[k] : k \in Unread(r)}]
  /\ UNCHANGED <<ring, last, write_ptr, torn, uservars>>

-----------------------------------------------------------------------------
(* Users *)

\* msensor_buf_add_user takes mng_mutex and copies the first write positions.
AddUser ==
  /\ adding = None
  /\ user_cnt <= MaxUsers
  /\ Active # Users
  /\ adding' = [user |-> Min(Users \ Active), x |-> write_ptr.x]
  /\ out' = None
  /\ UNCHANGED <<ring, last, write_ptr, user_ctx, user_cnt, g_forward, deleting, torn>>

\* It copies the last one and publishes the context.
AddUserDone ==
  /\ adding # None
  /\ LET u == adding.user IN
     /\ user_ctx' = [user_ctx EXCEPT ![u] = [x |-> adding.x, pts |-> write_ptr.pts]]
     /\ torn' = IF adding.x = write_ptr.pts THEN torn \ {u} ELSE torn \cup {u}
  /\ user_cnt' = (user_cnt + 1) % Word
  /\ g_forward' = TRUE
  /\ adding' = None
  /\ out' = None
  /\ UNCHANGED <<ring, last, write_ptr, deleting>>

\* msensor_buf_delete_user finds the user registered, before it takes a lock.
DeleteUser(t, u) ==
  /\ deleting[t] = None
  /\ u \in Active
  /\ deleting' = [deleting EXCEPT ![t] = u]
  /\ out' = None
  /\ UNCHANGED <<ring, last, write_ptr, user_ctx, user_cnt, g_forward, adding, torn>>

DeleteUserDone(t) ==
  /\ deleting[t] # None
  /\ adding = None /\ Unlocked
  /\ user_ctx' = [user_ctx EXCEPT ![deleting[t]] = NoCtx]
  /\ user_cnt' = (user_cnt - 1) % Word
  /\ torn' = torn \ {deleting[t]}
  /\ deleting' = [deleting EXCEPT ![t] = None]
  /\ out' = None
  /\ UNCHANGED <<ring, last, write_ptr, g_forward, adding>>

-----------------------------------------------------------------------------
Init ==
  /\ ring = [i \in 0..(N - 1) |-> 0]
  /\ last = 0
  /\ write_ptr = [x |-> 0, pts |-> 0]
  /\ user_ctx = [u \in Users |-> NoCtx]
  /\ user_cnt = 0
  /\ g_forward = TRUE
  /\ adding = None
  /\ deleting = [t \in Threads |-> None]
  /\ torn = {}
  /\ out = None

Next ==
  \/ WriteSample \/ WritePts
  \/ \E u \in Users, begin, end \in 1..MaxPts : begin < end /\ msensor_buf_get_data(u, begin, end)
  \/ AddUser \/ AddUserDone
  \/ \E t \in Threads : DeleteUserDone(t) \/ \E u \in Users : DeleteUser(t, u)

Spec == Init /\ [][Next]_vars

-----------------------------------------------------------------------------
(* Correctness *)

Position == [x : Nat, pts : Nat]

TypeOK ==
  /\ ring \in [0..(N - 1) -> 0..MaxPts]
  /\ last \in 0..MaxPts
  /\ write_ptr \in [x : 0..(N - 1), pts : 0..(N - 1)]
  /\ user_ctx \in [Users -> Position \cup {NoCtx}]
  /\ user_cnt \in 0..(Word - 1)
  /\ g_forward \in BOOLEAN
  /\ adding \in [user : Users, x : 0..(N - 1)] \cup {None}
  /\ deleting \in [Threads -> Users \cup {None}]
  /\ torn \subseteq Users

\* The positions of a user in the five blocks stay at one entry of the ring,
\* through overflows, searches back and forth and releases; only a user added
\* while samples were written may be out of step.
BlocksInStep ==
  \A u \in Active \ torn : user_ctx[u].x = user_ctx[u].pts /\ user_ctx[u].x < N

\* The samples at the addresses the last read returned, in order
Returned ==
  [i \in 1..(out.num[1] + out.num[2]) |->
     ring[IF i <= out.num[1] THEN out.at + i - 1 ELSE i - out.num[1] - 1]]

\* A read returns consecutive samples of the time asked for, and none of those
\* the user has not read is missing, wherever the ring wraps and however far
\* the search goes back. (When a user is added during the read, the whole ring
\* may be taken for an empty one.)
ReadsWhatIsAsked ==
  out # None /\ ~out.torn /\ ~out.raced =>
    /\ \A i \in DOMAIN Returned :
         /\ out.begin <= Returned[i] /\ Returned[i] <= out.end
         /\ i > 1 => Returned[i] = Returned[i - 1] + 1
    /\ \A p \in out.unread : out.begin <= p /\ p <= out.end => Contains(Returned, p)

\* The writer keeps away from a reader, as the comment on WR_GAP says
\* (motionsensor_buf.h:20): a reader is level with it or at least Gap ahead.
GapKept ==
  \A u \in Active \ torn :
    LET ahead == (user_ctx[u].x - write_ptr.x) % N IN ahead = 0 \/ ahead >= Gap

\* "motionsensor ID has reached toplimit" (motionsensor_buf.c:122) is printed
\* when every ID is in use.
ToplimitMeansFull == user_cnt > MaxUsers => Active = Users
=============================================================================
