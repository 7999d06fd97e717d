--------------------------- MODULE MmzUserdevProofs ---------------------------
(***************************************************************************)
(* Proofs about media memory blocks and the device that hands them out, for *)
(* any sessions, blocks and bounds.                                         *)
(*                                                                          *)
(* The first half is about MediaMem: the accounting invariant, inductive    *)
(* together with the type invariant; the stability of the cache attribute;  *)
(* and the refinement of BlockLifetime. All three rest on what one          *)
(* operation does to one block that agrees with its rights.                 *)
(*                                                                          *)
(* The second half is about MmzUserdev. Its inductive invariant has three   *)
(* parts: what holds of one session and one block (Pair), who has the block,*)
(* and that the rights MediaMem records for a block are what its session    *)
(* and the drivers have of it (Held). That every step of the device is one  *)
(* of a disciplined caller, or leaves the blocks alone, brings the          *)
(* invariant of MediaMem with it.                                           *)
(***************************************************************************)
EXTENDS MmzUserdev, FiniteSetTheorems, TLAPS

-----------------------------------------------------------------------------
(* One block *)

\* A block and the rights to it, of their types and in agreement.
Sound(m, r) == m \in Mmb /\ r \in Rights /\ Agree(m, r)

\* Somebody has a right to a block: it has an owner, references or mappings.
LEMMA SomeRight ==
  ASSUME NEW r \in Rights
  PROVE  r # NoRights <=> r.own \/ r.refs > 0 \/ r.maps > 0
<1>1. r = [own |-> r.own, refs |-> r.refs, maps |-> r.maps]
  BY DEF Rights
<1>2. r.own \in BOOLEAN /\ r.refs \in Nat /\ r.maps \in Nat
  BY DEF Rights
<1>3. ASSUME ~r.own, r.refs = 0, r.maps = 0
      PROVE  r = NoRights
  BY <1>1, <1>2, <1>3 DEF NoRights
<1>4. ASSUME r = NoRights
      PROVE  ~r.own /\ r.refs = 0 /\ r.maps = 0
  BY <1>4 DEF NoRights
<1>5. QED
  BY <1>2, <1>3, <1>4

\* A block that is not allocated agrees with nobody having a right to it.
LEMMA NoneSound == Sound(NoMmb, NoRights)
<1>1. /\ NoMmb \in Mmb /\ NoMmb.phy_ref = 0 /\ NoMmb.map_ref = 0
      /\ ~NoMmb.live /\ ~NoMmb.MAP2KERN /\ ~NoMmb.RELEASED
  <2>1. /\ NewMmb \in Mmb /\ NewMmb.phy_ref = 0 /\ NewMmb.map_ref = 0
        /\ ~NewMmb.MAP2KERN /\ ~NewMmb.RELEASED
    BY DEF NewMmb, Mmb
  <2>2. QED
    BY <2>1 DEF NoMmb, Mmb
<1>2. /\ NoRights \in Rights /\ NoRights.refs = 0 /\ NoRights.maps = 0
  BY DEF NoRights, Rights
<1>3. Agree(NoMmb, NoRights)
  BY <1>1, <1>2 DEF Agree
<1>4. QED
  BY <1>1, <1>2, <1>3 DEF Sound

\* A new block agrees with its owner's right.
LEMMA AllocSound ==
  ASSUME NEW m, NEW r, Sound(m, r), ~m.live
  PROVE  /\ Sound(NewMmb, [r EXCEPT !.own = TRUE])
         /\ r = NoRights
<1>1. r = NoRights
  BY DEF Sound, Agree
<1> DEFINE given == [r EXCEPT !.own = TRUE]
<1>2. given \in Rights /\ given.own /\ given.refs = 0 /\ given.maps = 0
  BY <1>1 DEF Sound, Rights, NoRights
<1>3. given # NoRights
  BY <1>2 DEF NoRights
<1>4. Agree(NewMmb, given) /\ NewMmb \in Mmb
  BY <1>2, <1>3 DEF Agree, NewMmb, Mmb
<1>5. QED
  BY <1>1, <1>2, <1>4 DEF Sound

\* ot_mmb_get of a block somebody has a right to keeps it in agreement, and live.
LEMMA GetSound ==
  ASSUME NEW m, NEW r, Sound(m, r), r # NoRights
  PROVE  Sound([m EXCEPT !.phy_ref = @ + 1], [r EXCEPT !.refs = @ + 1])
  BY DEF Sound, Agree, Mmb, Rights, NoRights

\* ot_mmb_put of a reference: the block goes exactly when it was the last right.
LEMMA PutSound ==
  ASSUME NEW m, NEW r, Sound(m, r), r.refs > 0
  PROVE  Sound(PutMmb(m), [r EXCEPT !.refs = @ - 1])
<1> DEFINE n == [m EXCEPT !.phy_ref = @ - 1]
           left == [r EXCEPT !.refs = @ - 1]
<1>1. /\ m \in Mmb /\ r \in Rights /\ Agree(m, r) /\ m.live
  BY SomeRight DEF Sound, Agree
<1>2. /\ left \in Rights
      /\ left.own = r.own /\ left.refs = r.refs - 1 /\ left.maps = r.maps
  BY <1>1 DEF Rights
<1>3. /\ n \in Mmb
      /\ n.phy_ref = left.refs /\ n.map_ref = left.maps
      /\ n.live /\ n.MAP2KERN = m.MAP2KERN /\ n.RELEASED = m.RELEASED
  BY <1>1, <1>2 DEF Mmb, Agree
<1>4. left = NoRights <=> n.RELEASED /\ n.phy_ref = 0 /\ n.map_ref = 0
  BY <1>1, <1>2, <1>3, SomeRight DEF Agree, Rights
<1>5. CASE left = NoRights
  <2>1. PutMmb(m) = NoMmb
    BY <1>4, <1>5 DEF PutMmb
  <2>2. Sound(NoMmb, NoRights)
    BY NoneSound
  <2>3. QED
    BY <2>1, <2>2, <1>5
<1>6. CASE left # NoRights
  <2>1. PutMmb(m) = n
    BY <1>4, <1>6 DEF PutMmb
  <2>2. Agree(n, left)
    BY <1>1, <1>2, <1>3, <1>6 DEF Agree
  <2>3. QED
    BY <2>1, <2>2, <1>2, <1>3 DEF Sound
<1>7. QED
  BY <1>5, <1>6

\* ot_mmb_free: the block goes if nothing but the ownership was left of it.
LEMMA FreeSound ==
  ASSUME NEW m, NEW r, Sound(m, r), r # NoRights
  PROVE  Sound(FreeMmb(m), [r EXCEPT !.own = FALSE])
<1> DEFINE left == [r EXCEPT !.own = FALSE]
           n == [m EXCEPT !.RELEASED = TRUE]
<1>1. m \in Mmb /\ r \in Rights /\ Agree(m, r) /\ m.live
  BY DEF Sound, Agree
<1>2. left \in Rights /\ ~left.own /\ left.refs = r.refs /\ left.maps = r.maps
  BY <1>1 DEF Rights
<1>3. n \in Mmb /\ n.phy_ref = m.phy_ref /\ n.map_ref = m.map_ref /\ n.live /\ n.RELEASED
      /\ n.MAP2KERN = m.MAP2KERN
  BY <1>1 DEF Mmb
<1>4. left # NoRights <=> m.phy_ref > 0 \/ m.MAP2KERN
  BY <1>1, <1>2, SomeRight DEF Agree
<1>5. CASE m.RELEASED
  <2>1. left = r
    BY <1>1, <1>5 DEF Agree, Rights
  <2>2. QED
    BY <2>1, <1>5 DEF FreeMmb
<1>6. CASE ~m.RELEASED /\ left # NoRights
  <2>1. FreeMmb(m) = n
    BY <1>4, <1>6 DEF FreeMmb
  <2>2. Agree(n, left)
    BY <1>1, <1>2, <1>3, <1>6 DEF Agree
  <2>3. QED
    BY <2>1, <2>2, <1>2, <1>3 DEF Sound
<1>7. CASE ~m.RELEASED /\ left = NoRights
  BY <1>4, <1>7, NoneSound DEF FreeMmb
<1>8. QED
  BY <1>5, <1>6, <1>7

\* __mmb_map2kern, when it succeeds.
LEMMA MapSound ==
  ASSUME NEW m, NEW r, NEW c \in BOOLEAN, Sound(m, r), r # NoRights
  PROVE  Sound(MapMmb(m, c), [r EXCEPT !.maps = @ + 1])
<1> DEFINE more == [r EXCEPT !.maps = @ + 1]
           n == MapMmb(m, c)
<1>1. m \in Mmb /\ r \in Rights /\ Agree(m, r) /\ m.live
  BY DEF Sound, Agree
<1>2. more \in Rights /\ more.own = r.own /\ more.refs = r.refs /\ more.maps = r.maps + 1
  BY <1>1 DEF Rights
<1>3. n \in Mmb /\ n.phy_ref = m.phy_ref /\ n.map_ref = m.map_ref + 1 /\ n.live
      /\ n.MAP2KERN /\ n.RELEASED = m.RELEASED
  <2>1. CASE m.MAP2KERN
    BY <1>1, <2>1 DEF Mmb, MapMmb
  <2>2. CASE ~m.MAP2KERN
    <3> DEFINE marked == [m EXCEPT !.MAP2KERN = TRUE, !.MAP2KERN_CACHED = c]
    <3>1. marked \in Mmb /\ marked.phy_ref = m.phy_ref /\ marked.map_ref = m.map_ref
          /\ marked.live /\ marked.MAP2KERN /\ marked.RELEASED = m.RELEASED
      BY <1>1 DEF Mmb
    <3>2. MapMmb(m, c) =
            [m EXCEPT !.MAP2KERN = TRUE, !.MAP2KERN_CACHED = c, !.map_ref = m.map_ref + 1]
      BY <2>2 DEF MapMmb
    <3>3. MapMmb(m, c) = [marked EXCEPT !.map_ref = m.map_ref + 1]
      BY <1>1, <3>2 DEF Mmb
    <3> HIDE DEF marked
    <3>4. QED
      BY <1>1, <3>1, <3>3 DEF Mmb
  <2>3. QED
    BY <2>1, <2>2
<1>4. more # NoRights /\ r.maps \in Nat
  BY <1>1, <1>2, SomeRight DEF Rights
<1>5. Agree(n, more)
  BY <1>1, <1>2, <1>3, <1>4 DEF Agree
<1>6. QED
  BY <1>2, <1>3, <1>5 DEF Sound

\* __mmb_map2kern, when it fails.
LEMMA MapFailsSound ==
  ASSUME NEW m, NEW r, Sound(m, r)
  PROVE  Sound(MapFailsMmb(m), r) /\ MapFailsMmb(m).live = m.live
  BY DEF Sound, Agree, Mmb, MapFailsMmb

\* __mmb_unmap of a mapping: the last one takes a released block with it.
LEMMA UnmapSound ==
  ASSUME NEW m, NEW r, Sound(m, r), r.maps > 0
  PROVE  Sound(UnmapMmb(m), [r EXCEPT !.maps = @ - 1])
<1> DEFINE left == [r EXCEPT !.maps = @ - 1]
           fewer == [m EXCEPT !.map_ref = m.map_ref - 1]
           n == [m EXCEPT !.map_ref = m.map_ref - 1, !.MAP2KERN = FALSE,
                          !.MAP2KERN_CACHED = FALSE]
<1>1. m \in Mmb /\ r \in Rights /\ Agree(m, r) /\ m.live /\ m.MAP2KERN
  BY SomeRight DEF Sound, Agree
<1>2. left \in Rights /\ left.own = r.own /\ left.refs = r.refs /\ left.maps = r.maps - 1
  BY <1>1 DEF Rights
<1>3. /\ fewer \in Mmb /\ fewer.phy_ref = m.phy_ref /\ fewer.map_ref = m.map_ref - 1
      /\ fewer.live /\ fewer.MAP2KERN /\ fewer.RELEASED = m.RELEASED
  BY <1>1 DEF Mmb
<1>4. /\ n \in Mmb /\ n.phy_ref = m.phy_ref /\ n.map_ref = m.map_ref - 1
      /\ n.live /\ ~n.MAP2KERN /\ n.RELEASED = m.RELEASED
  <2>1. n = [fewer EXCEPT !.MAP2KERN = FALSE, !.MAP2KERN_CACHED = FALSE]
    BY <1>1 DEF Mmb
  <2>2. QED
    BY <2>1, <1>3 DEF Mmb
<1>5. UnmapMmb(m) = IF m.map_ref - 1 # 0 THEN fewer
                    ELSE IF n.RELEASED /\ n.phy_ref = 0 THEN NoMmb ELSE n
  BY <1>1 DEF UnmapMmb
<1>6. CASE left.maps # 0
  <2>1. UnmapMmb(m) = fewer /\ left # NoRights
    BY <1>1, <1>2, <1>5, <1>6 DEF Agree, NoRights
  <2>2. Agree(fewer, left)
    BY <2>1, <1>1, <1>2, <1>3, <1>6 DEF Agree, Rights
  <2>3. QED
    BY <2>1, <2>2, <1>2, <1>3 DEF Sound
<1>7. CASE left.maps = 0 /\ left = NoRights
  <2>1. n.RELEASED /\ n.phy_ref = 0 /\ m.map_ref - 1 = 0
    BY <1>1, <1>2, <1>4, <1>7, SomeRight DEF Agree, NoRights
  <2>2. QED
    BY <2>1, <1>5, <1>7, NoneSound
<1>8. CASE left.maps = 0 /\ left # NoRights
  <2>1. UnmapMmb(m) = n
    BY <1>1, <1>2, <1>4, <1>5, <1>8, SomeRight DEF Agree, Rights
  <2>2. Agree(n, left)
    BY <1>1, <1>2, <1>4, <1>8 DEF Agree
  <2>3. QED
    BY <2>1, <2>2, <1>2, <1>4 DEF Sound
<1>9. QED
  BY <1>6, <1>7, <1>8

-----------------------------------------------------------------------------
(* All blocks *)

\* The two invariants together are inductive.
IInv == TypeOK /\ Accounting

LEMMA IInvIsSound == IInv <=> /\ mmb \in [BlockIds -> Mmb]
                              /\ rights \in [BlockIds -> Rights]
                              /\ \A b \in BlockIds : Sound(mmb[b], rights[b])
  BY DEF IInv, TypeOK, Accounting, Sound

\* A step that leaves block b sound, and the others alone, keeps the invariant.
LEMMA OneBlock ==
  ASSUME IInv, NEW b \in BlockIds, NEW m, NEW r, Sound(m, r),
         mmb' = [mmb EXCEPT ![b] = m], rights' = [rights EXCEPT ![b] = r]
  PROVE  IInv'
<1>1. m \in Mmb /\ r \in Rights
  BY DEF Sound
<1>2. mmb' \in [BlockIds -> Mmb] /\ rights' \in [BlockIds -> Rights]
  BY <1>1, IInvIsSound
<1>3. ASSUME NEW c \in BlockIds
      PROVE  Sound(mmb'[c], rights'[c])
  BY IInvIsSound
<1>4. QED
  BY <1>2, <1>3 DEF IInv, TypeOK, Accounting, Sound

\* The initial states: no block, no rights.
LEMMA InitIInv == Init => IInv
<1> SUFFICES ASSUME Init PROVE IInv
  OBVIOUS
<1>1. NoMmb \in Mmb /\ NoRights \in Rights
  BY NoneSound DEF Sound
<1>2. QED
  BY <1>1, NoneSound, IInvIsSound DEF Init

LEMMA AllocKeeps ==
  ASSUME IInv, NEW b \in BlockIds, ot_mmb_alloc(b)
  PROVE  IInv' /\ rights[b] = NoRights
<1>1. Sound(mmb[b], rights[b]) /\ ~mmb[b].live
  BY IInvIsSound DEF ot_mmb_alloc
<1>2. rights' = [rights EXCEPT ![b] = [rights[b] EXCEPT !.own = TRUE]]
  BY DEF ot_mmb_alloc
<1>3. mmb' = [mmb EXCEPT ![b] = NewMmb]
  BY DEF ot_mmb_alloc
<1>4. Sound(NewMmb, [rights[b] EXCEPT !.own = TRUE]) /\ rights[b] = NoRights
  BY <1>1, AllocSound
<1>5. IInv'
  BY <1>2, <1>3, <1>4, OneBlock
<1>6. QED
  BY <1>4, <1>5

LEMMA GetKeeps ==
  ASSUME IInv, NEW b \in BlockIds, Get(b)
  PROVE  IInv'
<1>1. Sound(mmb[b], rights[b]) /\ rights[b] # NoRights
  BY IInvIsSound DEF Get, HasRight
<1>2. /\ mmb' = [mmb EXCEPT ![b] = [mmb[b] EXCEPT !.phy_ref = @ + 1]]
      /\ rights' = [rights EXCEPT ![b] = [rights[b] EXCEPT !.refs = @ + 1]]
  BY DEF Get, ot_mmb_get
<1>3. QED
  BY <1>1, <1>2, GetSound, OneBlock

LEMMA PutKeeps ==
  ASSUME IInv, NEW b \in BlockIds, Put(b)
  PROVE  IInv'
<1>1. Sound(mmb[b], rights[b]) /\ rights[b].refs > 0
  BY IInvIsSound DEF Put
<1>2. /\ mmb' = [mmb EXCEPT ![b] = PutMmb(mmb[b])]
      /\ rights' = [rights EXCEPT ![b] = [rights[b] EXCEPT !.refs = @ - 1]]
  BY DEF Put, ot_mmb_put
<1>3. QED
  BY <1>1, <1>2, PutSound, OneBlock

LEMMA FreeKeeps ==
  ASSUME IInv, NEW b \in BlockIds, Free(b)
  PROVE  IInv'
<1>1. Sound(mmb[b], rights[b]) /\ rights[b] # NoRights
  BY IInvIsSound DEF Free, HasRight
<1>2. /\ mmb' = [mmb EXCEPT ![b] = FreeMmb(mmb[b])]
      /\ rights' = [rights EXCEPT ![b] = [rights[b] EXCEPT !.own = FALSE]]
  BY DEF Free, ot_mmb_free
<1>3. QED
  BY <1>1, <1>2, FreeSound, OneBlock

LEMMA MapKeeps ==
  ASSUME IInv, NEW b \in BlockIds, Map(b)
  PROVE  IInv'
<1>1. Sound(mmb[b], rights[b]) /\ rights[b] # NoRights
  BY IInvIsSound DEF Map, HasRight
<1>2. PICK cached \in BOOLEAN : ot_mmb_map2kern(b, cached)
  BY DEF Map
<1>3. CASE /\ mmb' = [mmb EXCEPT ![b] = MapMmb(mmb[b], cached)]
           /\ rights' = [rights EXCEPT ![b] = [rights[b] EXCEPT !.maps = @ + 1]]
  BY <1>1, <1>3, MapSound, OneBlock
<1>4. CASE /\ mmb' = [mmb EXCEPT ![b] = MapFailsMmb(mmb[b])]
           /\ rights' = rights
  <2>1. rights' = [rights EXCEPT ![b] = rights[b]]
    BY <1>4, IInvIsSound
  <2>2. QED
    BY <1>1, <1>4, <2>1, MapFailsSound, OneBlock
<1>5. QED
  BY <1>2, <1>3, <1>4 DEF ot_mmb_map2kern

LEMMA UnmapKeeps ==
  ASSUME IInv, NEW b \in BlockIds, Unmap(b)
  PROVE  IInv'
<1>1. Sound(mmb[b], rights[b]) /\ rights[b].maps > 0
  BY IInvIsSound DEF Unmap
<1>2. /\ mmb' = [mmb EXCEPT ![b] = UnmapMmb(mmb[b])]
      /\ rights' = [rights EXCEPT ![b] = [rights[b] EXCEPT !.maps = @ - 1]]
  BY DEF Unmap, ot_mmb_unmap
<1>3. QED
  BY <1>1, <1>2, UnmapSound, OneBlock

\* Every step keeps the invariant.
LEMMA NextKeeps == IInv /\ [Next]_vars => IInv'
<1> SUFFICES ASSUME IInv, [Next]_vars PROVE IInv'
  OBVIOUS
<1>1. CASE UNCHANGED vars
  BY <1>1 DEF IInv, TypeOK, Accounting, Agree, vars
<1>2. CASE Next
  BY <1>2, AllocKeeps, GetKeeps, PutKeeps, FreeKeeps, MapKeeps, UnmapKeeps DEF Next
<1>3. QED
  BY <1>1, <1>2

\* The counters and flags keep their types, whatever callers do that give back
\* no more than they took.
THEOREM TypeCorrect == Spec => []TypeOK
<1>1. IInv => TypeOK
  BY DEF IInv
<1>2. QED
  BY <1>1, InitIInv, NextKeeps, PTL DEF Spec

\* The counters and flags always say exactly what rights the callers hold, and
\* a block lives exactly while somebody has one: the bookkeeping of
\* ot_mmb_get, put, free, map2kern and unmap neither leaks nor frees early.
THEOREM AccountingCorrect == Spec => []Accounting
<1>1. IInv => Accounting
  BY DEF IInv
<1>2. QED
  BY <1>1, InitIInv, NextKeeps, PTL DEF Spec

-----------------------------------------------------------------------------
(* The cache attribute *)

\* An operation leaves the attribute of a block alone that is mapped before and
\* after it.
LEMMA StepKeepsAttribute ==
  ASSUME IInv, Next, NEW b \in BlockIds, mmb[b].map_ref > 0, mmb'[b].map_ref > 0
  PROVE  mmb'[b].MAP2KERN_CACHED = mmb[b].MAP2KERN_CACHED
<1>1. /\ mmb[b] \in Mmb /\ rights[b] \in Rights /\ Agree(mmb[b], rights[b])
      /\ mmb[b].MAP2KERN /\ mmb[b].live
      /\ mmb \in [BlockIds -> Mmb]
  BY IInvIsSound, SomeRight DEF Sound, Agree
<1>2. PICK c \in BlockIds : \/ ot_mmb_alloc(c) \/ Get(c) \/ Put(c) \/ Free(c)
                            \/ Map(c) \/ Unmap(c)
  BY DEF Next
<1>3. CASE c # b
  BY <1>1, <1>2, <1>3 DEF ot_mmb_alloc, Get, ot_mmb_get, Put, ot_mmb_put, Free, ot_mmb_free,
                          Map, ot_mmb_map2kern, Unmap, ot_mmb_unmap
<1>4. CASE c = b
  <2>1. CASE ot_mmb_alloc(b)
    BY <1>1, <2>1 DEF ot_mmb_alloc
  <2>2. CASE Get(b)
    BY <1>1, <2>2 DEF Get, ot_mmb_get, Mmb
  <2>3. CASE Put(b)
    <3>1. mmb'[b] = PutMmb(mmb[b])
      BY <1>1, <2>3 DEF Put, ot_mmb_put
    <3>2. NoMmb.map_ref = 0
      BY DEF NoMmb, NewMmb
    <3>3. mmb'[b] = [mmb[b] EXCEPT !.phy_ref = @ - 1]
      BY <3>1, <3>2 DEF PutMmb
    <3>4. QED
      BY <1>1, <3>3 DEF Mmb
  <2>4. CASE Free(b)
    <3>1. mmb'[b] = FreeMmb(mmb[b])
      BY <1>1, <2>4 DEF Free, ot_mmb_free
    <3>2. QED
      BY <1>1, <3>1 DEF FreeMmb, Mmb
  <2>5. CASE Map(b)
    <3>1. \E cached \in BOOLEAN : mmb'[b] \in {MapMmb(mmb[b], cached), MapFailsMmb(mmb[b])}
      BY <1>1, <2>5 DEF Map, ot_mmb_map2kern
    <3>2. QED
      BY <1>1, <3>1 DEF MapMmb, MapFailsMmb, Mmb
  <2>6. CASE Unmap(b)
    <3>1. mmb'[b] = UnmapMmb(mmb[b]) /\ NoMmb.map_ref = 0
      BY <1>1, <2>6 DEF Unmap, ot_mmb_unmap, NoMmb, NewMmb
    <3> DEFINE fewer == [mmb[b] EXCEPT !.map_ref = mmb[b].map_ref - 1]
               n == [mmb[b] EXCEPT !.map_ref = mmb[b].map_ref - 1, !.MAP2KERN = FALSE,
                                   !.MAP2KERN_CACHED = FALSE]
    <3>2. mmb'[b] = IF mmb[b].map_ref - 1 # 0 THEN fewer
                    ELSE IF n.RELEASED /\ n.phy_ref = 0 THEN NoMmb ELSE n
      BY <1>1, <3>1 DEF UnmapMmb
    <3>3. n.map_ref = mmb[b].map_ref - 1
      BY <1>1 DEF Mmb
    <3>4. mmb'[b] = fewer
      BY <3>1, <3>2, <3>3
    <3>5. QED
      BY <1>1, <3>4 DEF Mmb
  <2>7. QED
    BY <1>2, <1>4, <2>1, <2>2, <2>3, <2>4, <2>5, <2>6
<1>5. QED
  BY <1>3, <1>4

\* No caller's mapping changes its cache attribute under another caller's: the
\* attribute is fixed from the first ot_mmb_map2kern to the last ot_mmb_unmap.
THEOREM CacheAttributeCorrect == Spec => CacheAttributeStable
<1> DEFINE Stable == \A b \in BlockIds :
                       mmb[b].map_ref > 0 /\ mmb'[b].map_ref > 0
                         => mmb'[b].MAP2KERN_CACHED = mmb[b].MAP2KERN_CACHED
<1>1. IInv /\ [Next]_vars => [Stable]_vars
  BY StepKeepsAttribute
<1>2. QED
  BY <1>1, InitIInv, NextKeeps, PTL DEF Spec, CacheAttributeStable

-----------------------------------------------------------------------------
(* The blocks implement the abstract lifetime *)

LiveBlocks == {b \in BlockIds : mmb[b].live}

\* The set of live blocks after a step on block b.
LEMMA LiveAfter ==
  ASSUME IInv, IInv', NEW b \in BlockIds, NEW m, mmb' = [mmb EXCEPT ![b] = m]
  PROVE  LiveBlocks' = IF rights'[b] = NoRights THEN LiveBlocks \ {b}
                                                ELSE LiveBlocks \cup {b}
<1>1. mmb'[b].live <=> rights'[b] # NoRights
  BY DEF IInv, Accounting, Agree
<1>2. \A c \in BlockIds : c # b => mmb'[c] = mmb[c]
  BY DEF IInv, TypeOK
<1>3. QED
  BY <1>1, <1>2 DEF LiveBlocks

\* A step that gives one right to b back, or takes one, as BlockLifetime allows.
LEMMA LifetimeTake ==
  ASSUME IInv, IInv', NEW b \in BlockIds, mmb[b].live, NEW m, mmb' = [mmb EXCEPT ![b] = m],
         \/ rights' = [rights EXCEPT ![b].refs = @ + 1]
         \/ rights' = [rights EXCEPT ![b].maps = @ + 1]
  PROVE  Lifetime!Take(b)
<1>1. rights'[b].refs > 0 \/ rights'[b].maps > 0
  BY DEF IInv, TypeOK, Rights
<1>2. rights'[b] # NoRights
  BY <1>1 DEF NoRights
<1>3. LiveBlocks' = LiveBlocks
  BY <1>2, LiveAfter DEF LiveBlocks
<1>4. QED
  BY <1>3 DEF Lifetime!Take, LiveBlocks

LEMMA LifetimeGiveBack ==
  ASSUME IInv, IInv', NEW b \in BlockIds, mmb[b].live, NEW m, mmb' = [mmb EXCEPT ![b] = m],
         \/ rights[b].own /\ rights' = [rights EXCEPT ![b].own = FALSE]
         \/ rights[b].refs > 0 /\ rights' = [rights EXCEPT ![b].refs = @ - 1]
         \/ rights[b].maps > 0 /\ rights' = [rights EXCEPT ![b].maps = @ - 1]
  PROVE  Lifetime!GiveBack(b)
<1>1. LiveBlocks' = IF rights'[b] = NoRights THEN LiveBlocks \ {b} ELSE LiveBlocks
  BY LiveAfter DEF LiveBlocks
<1>2. QED
  BY <1>1 DEF Lifetime!GiveBack, Lifetime!NoRights, NoRights, LiveBlocks

\* Every step is a step of the abstract lifetime or changes nothing it sees.
LEMMA LifetimeStep ==
  IInv /\ IInv' /\ [Next]_vars => [Lifetime!Next]_<<LiveBlocks, rights>>
<1> SUFFICES ASSUME IInv, IInv', [Next]_vars
             PROVE  Lifetime!Next \/ UNCHANGED <<LiveBlocks, rights>>
  OBVIOUS
<1>1. CASE UNCHANGED vars
  BY <1>1 DEF vars, LiveBlocks
<1>2. ASSUME NEW b \in BlockIds, ot_mmb_alloc(b)
      PROVE  Lifetime!Create(b)
  <2>1. rights[b] = NoRights
    BY <1>2, AllocKeeps
  <2>2. rights' = [rights EXCEPT ![b] = [NoRights EXCEPT !.own = TRUE]]
    BY <1>2, <2>1 DEF ot_mmb_alloc
  <2>3. rights'[b].own
    BY <1>2, <2>1 DEF ot_mmb_alloc, IInv, TypeOK, NoRights
  <2>4. rights'[b] # NoRights
    BY <2>3 DEF NoRights
  <2>5. mmb' = [mmb EXCEPT ![b] = NewMmb] /\ ~mmb[b].live
    BY <1>2 DEF ot_mmb_alloc
  <2>6. LiveBlocks' = LiveBlocks \cup {b}
    BY <2>4, <2>5, LiveAfter
  <2>7. QED
    BY <2>2, <2>5, <2>6 DEF Lifetime!Create, Lifetime!NoRights, NoRights, LiveBlocks
<1>3. ASSUME NEW b \in BlockIds, Get(b)
      PROVE  Lifetime!Take(b)
  <2>1. mmb[b].live
    BY <1>3 DEF Get, HasRight, IInv, Accounting, Agree
  <2>2. mmb' = [mmb EXCEPT ![b] = [mmb[b] EXCEPT !.phy_ref = @ + 1]]
    BY <1>3 DEF Get, ot_mmb_get
  <2>3. rights' = [rights EXCEPT ![b].refs = @ + 1]
    BY <1>3 DEF Get, ot_mmb_get
  <2>4. QED
    BY <2>1, <2>2, <2>3, LifetimeTake
<1>4. ASSUME NEW b \in BlockIds, Put(b)
      PROVE  Lifetime!GiveBack(b)
  <2>1. mmb[b].live /\ rights[b].refs > 0
    BY <1>4, IInvIsSound, SomeRight DEF Put, Sound, Agree
  <2>2. /\ mmb' = [mmb EXCEPT ![b] = PutMmb(mmb[b])]
        /\ rights' = [rights EXCEPT ![b].refs = @ - 1]
    BY <1>4 DEF Put, ot_mmb_put
  <2>3. QED
    BY <2>1, <2>2, LifetimeGiveBack
<1>5. ASSUME NEW b \in BlockIds, Free(b)
      PROVE  Lifetime!GiveBack(b) \/ UNCHANGED <<LiveBlocks, rights>>
  <2>1. mmb[b].live /\ rights[b] \in Rights
    BY <1>5, IInvIsSound DEF Free, HasRight, Sound, Agree
  <2>2. /\ mmb' = [mmb EXCEPT ![b] = FreeMmb(mmb[b])]
        /\ rights' = [rights EXCEPT ![b].own = FALSE]
    BY <1>5 DEF Free, ot_mmb_free
  <2>3. CASE rights[b].own
    BY <2>1, <2>2, <2>3, LifetimeGiveBack
  <2>4. CASE ~rights[b].own
    <3>1. mmb[b].RELEASED
      BY <2>1, <2>4 DEF IInv, Accounting, Agree
    <3>2. mmb' = mmb
      BY <2>2, <3>1 DEF FreeMmb, IInv, TypeOK
    <3>3. [rights[b] EXCEPT !.own = FALSE] = rights[b]
      BY <2>1, <2>4 DEF Rights
    <3>4. rights' = rights
      BY <2>2, <3>3 DEF IInv, TypeOK
    <3>5. QED
      BY <3>2, <3>4 DEF LiveBlocks
  <2>5. QED
    BY <2>3, <2>4
<1>6. ASSUME NEW b \in BlockIds, Map(b)
      PROVE  Lifetime!Take(b) \/ UNCHANGED <<LiveBlocks, rights>>
  <2>1. mmb[b].live /\ Sound(mmb[b], rights[b])
    BY <1>6, IInvIsSound DEF Map, HasRight, Sound, Agree
  <2>2. PICK cached \in BOOLEAN : ot_mmb_map2kern(b, cached)
    BY <1>6 DEF Map
  <2>3. CASE /\ mmb' = [mmb EXCEPT ![b] = MapMmb(mmb[b], cached)]
             /\ rights' = [rights EXCEPT ![b].maps = @ + 1]
    BY <2>1, <2>3, LifetimeTake
  <2>4. CASE /\ mmb' = [mmb EXCEPT ![b] = MapFailsMmb(mmb[b])]
             /\ rights' = rights
    <3>1. MapFailsMmb(mmb[b]).live = mmb[b].live
      BY <2>1, MapFailsSound
    <3>2. QED
      BY <2>4, <3>1 DEF LiveBlocks, IInv, TypeOK
  <2>5. QED
    BY <2>2, <2>3, <2>4 DEF ot_mmb_map2kern
<1>7. ASSUME NEW b \in BlockIds, Unmap(b)
      PROVE  Lifetime!GiveBack(b)
  <2>1. mmb[b].live /\ rights[b].maps > 0
    BY <1>7, IInvIsSound, SomeRight DEF Unmap, Sound, Agree
  <2>2. /\ mmb' = [mmb EXCEPT ![b] = UnmapMmb(mmb[b])]
        /\ rights' = [rights EXCEPT ![b].maps = @ - 1]
    BY <1>7 DEF Unmap, ot_mmb_unmap
  <2>3. QED
    BY <2>1, <2>2, LifetimeGiveBack
<1>8. QED
  BY <1>1, <1>2, <1>3, <1>4, <1>5, <1>6, <1>7 DEF Next, Lifetime!Next

\* The reference counting of media_mem.c implements the abstract lifetime: a
\* block goes in the very step that gives the last right to it back, whichever
\* operation that is, and in no other.
THEOREM LifetimeImplemented == Spec => ImplementsLifetime
<1>1. Init => Lifetime!Init
  BY DEF Init, Lifetime!Init, Lifetime!NoRights, NoRights, NoMmb, NewMmb
<1>2. QED
  BY <1>1, InitIInv, NextKeeps, LifetimeStep, PTL
     DEF Spec, ImplementsLifetime, Lifetime!Spec, LiveBlocks

-----------------------------------------------------------------------------
(* Where a session is *)

\* Two places are the same if the step and the block are.
LEMMA Places ==
  ASSUME NEW x \in Steps, NEW y \in Steps, NEW b, NEW c
  PROVE  /\ At(x, b) # Idle
         /\ At(x, b) = At(y, c) <=> x = y /\ b = c
<1>1. At(x, b).at = x /\ At(x, b).blk = b /\ At(y, c).at = y /\ At(y, c).blk = c
  BY DEF At
<1>2. Idle.at = "idle" /\ x # "idle"
  BY DEF Idle, Steps
<1>3. QED
  BY <1>1, <1>2 DEF At

-----------------------------------------------------------------------------
(* The inductive invariant *)

\* The device's variables keep their types.
Typed ==
  /\ sess \in [Sessions -> {"closed", "open", "closing"}]
  /\ info \in [Sessions -> [BlockIds -> Info \cup {NoInfo}]]
  /\ vma  \in [Sessions -> [BlockIds -> VMAs]]
  /\ pc   \in [Sessions -> {Idle} \cup [at : Steps, blk : BlockIds]]
  /\ failed \subseteq BlockIds

\* A session has a block in its list, or in the hands of its running ioctl.
Own(s, b) == info[s][b] # NoInfo \/ pc[s] \in {At("alloc", b), At("free", b)}
Refs(s, b) == IF info[s][b] = NoInfo THEN 0 ELSE 1 + info[s][b].mmb_ref

\* The steps of an ioctl find the block where the step before left it.
Placed(s, b) ==
  /\ pc[s] \in {At("put", b), At("mapped", b), At("munmap", b)} => info[s][b] # NoInfo
  /\ pc[s] \in {At("alloc", b), At("free", b)} => info[s][b] = NoInfo
  /\ pc[s] = At("put", b) => info[s][b].mmb_ref = 0
  /\ pc[s] = At("mapped", b) => info[s][b].mmb_ref < MaxRefs
  /\ sess[s] = "closed" => info[s][b] = NoInfo /\ pc[s] = Idle

\* A mapping has a mapping reference, or its ioctl is about to count or remove it.
Mapped(s, b) ==
  vma[s][b] # "none" =>
    \/ b \in failed
    \/ /\ info[s][b] # NoInfo /\ sess[s] = "open" /\ pc[s] # At("put", b)
       /\ info[s][b].map_ref > 0 \/ pc[s] \in {At("mapped", b), At("munmap", b)}

\* A free that is due is about to take place.
Due(s, b) ==
  info[s][b] # NoInfo /\ FreeDue(info[s][b]) =>
    b \in failed \/ sess[s] = "closing" \/ pc[s] \in {At("put", b), At("munmap", b)}

Pair(s, b) == Placed(s, b) /\ Mapped(s, b) /\ Due(s, b)

\* Nobody but its session has a block, and its rights are the session's.
Held(b) ==
  /\ \A s, t \in Sessions : Own(s, b) /\ Own(t, b) => s = t
  /\ \A s \in Sessions : Own(s, b) => rights[b].own /\ rights[b].refs = Refs(s, b)
  /\ (\A s \in Sessions : ~Own(s, b)) => ~rights[b].own /\ rights[b].refs = 0

DInv ==
  /\ IInv
  /\ Typed
  /\ \A s \in Sessions, b \in BlockIds : Pair(s, b)
  /\ \A b \in BlockIds : Held(b)

-----------------------------------------------------------------------------
(* What a step does to one session and one block *)

LEMMA SetInfoOne ==
  ASSUME Typed, NEW s \in Sessions, NEW b \in BlockIds, NEW p \in Info \cup {NoInfo}, SetInfo(s, b, p)
  PROVE  /\ info' \in [Sessions -> [BlockIds -> Info \cup {NoInfo}]]
         /\ info'[s][b] = p
         /\ \A t \in Sessions, c \in BlockIds : t # s \/ c # b => info'[t][c] = info[t][c]
<1>1. info' = [info EXCEPT ![s] = [info[s] EXCEPT ![b] = p]]
  BY DEF SetInfo, Typed
<1>2. [info[s] EXCEPT ![b] = p] \in [BlockIds -> Info \cup {NoInfo}]
  BY DEF Typed
<1>3. QED
  BY <1>1, <1>2 DEF Typed

LEMMA GotoOne ==
  ASSUME Typed, NEW s \in Sessions, NEW w \in {Idle} \cup [at : Steps, blk : BlockIds], Goto(s, w)
  PROVE  /\ pc' \in [Sessions -> {Idle} \cup [at : Steps, blk : BlockIds]]
         /\ pc'[s] = w
         /\ \A t \in Sessions : t # s => pc'[t] = pc[t]
  BY DEF Typed, Goto

LEMMA PlaceTypes ==
  ASSUME NEW x \in Steps, NEW b \in BlockIds
  PROVE  At(x, b) \in {Idle} \cup [at : Steps, blk : BlockIds]
  BY DEF At

LEMMA VmaOne ==
  ASSUME Typed, NEW s \in Sessions, NEW b \in BlockIds, NEW v \in VMAs,
         vma' = [vma EXCEPT ![s][b] = v]
  PROVE  /\ vma' \in [Sessions -> [BlockIds -> VMAs]]
         /\ vma'[s][b] = v
         /\ \A t \in Sessions, c \in BlockIds : t # s \/ c # b => vma'[t][c] = vma[t][c]
<1>1. vma' = [vma EXCEPT ![s] = [vma[s] EXCEPT ![b] = v]]
  BY DEF Typed
<1>2. [vma[s] EXCEPT ![b] = v] \in [BlockIds -> VMAs]
  BY DEF Typed
<1>3. QED
  BY <1>1, <1>2 DEF Typed

\* A session's ioctl is at no block, or at b.
Near(s, b) == pc[s] = Idle \/ \E x \in Steps : pc[s] = At(x, b)

\* A step of an ioctl of session s on block b, which no other session has, keeps
\* the invariant if it leaves the two of them sound and the rest alone.
LEMMA OneSession ==
  ASSUME DInv, IInv', Typed',
         NEW s \in Sessions, NEW b \in BlockIds,
         \A t \in Sessions : t # s => pc'[t] = pc[t] /\ sess'[t] = sess[t] /\ ~Own(t, b),
         \A t \in Sessions, c \in BlockIds :
           t # s \/ c # b => info'[t][c] = info[t][c] /\ vma'[t][c] = vma[t][c],
         \A c \in BlockIds : c # b =>
           /\ rights'[c].own = rights[c].own /\ rights'[c].refs = rights[c].refs
           /\ c \in failed' <=> c \in failed,
         b \in failed \ failed' => \A t \in Sessions : vma[t][b] = "none",
         sess'[s] = sess[s], Near(s, b), Near(s, b)',
         Pair(s, b)',
         Own(s, b)' <=> rights'[b].own,
         rights'[b].refs = IF Own(s, b)' THEN Refs(s, b)' ELSE 0
  PROVE  DInv'
<1>1. ASSUME NEW c \in BlockIds, c # b
      PROVE  Held(c)'
  <2>1. \A t \in Sessions : (Own(t, c)' <=> Own(t, c)) /\ Refs(t, c)' = Refs(t, c)
    <3> SUFFICES ASSUME NEW t \in Sessions
                 PROVE  (Own(t, c)' <=> Own(t, c)) /\ Refs(t, c)' = Refs(t, c)
      OBVIOUS
    <3>1. info'[t][c] = info[t][c]
      BY <1>1
    <3>2. pc'[t] \in {At("alloc", c), At("free", c)} <=> pc[t] \in {At("alloc", c), At("free", c)}
      BY <1>1, Places DEF Near, Steps
    <3>3. QED
      BY <3>1, <3>2 DEF Own, Refs
  <2>2. Held(c)
    BY DEF DInv
  <2>3. QED
    BY <1>1, <2>1, <2>2 DEF Held
<1>2. Held(b)'
  <2>1. \A t \in Sessions : t # s => ~Own(t, b)'
    BY DEF Own
  <2>2. QED
    BY <2>1 DEF Held
<1>3. ASSUME NEW t \in Sessions, t # s
      PROVE  Pair(t, b)'
  <2>1. info'[t][b] = info[t][b] /\ vma'[t][b] = vma[t][b] /\ pc'[t] = pc[t] /\ sess'[t] = sess[t]
    BY <1>3
  <2>2. info[t][b] = NoInfo
    BY <1>3 DEF Own
  <2>3. Pair(t, b)
    BY DEF DInv
  <2>4. Placed(t, b)' /\ Due(t, b)'
    BY <2>1, <2>2, <2>3 DEF Pair, Placed, Due
  <2>5. Mapped(t, b)'
    BY <2>1, <2>2, <2>3 DEF Pair, Mapped
  <2>6. QED
    BY <2>4, <2>5 DEF Pair
<1>4. ASSUME NEW t \in Sessions, NEW c \in BlockIds, c # b
      PROVE  Pair(t, c)'
  <2>1. /\ info'[t][c] = info[t][c] /\ vma'[t][c] = vma[t][c] /\ sess'[t] = sess[t]
        /\ c \in failed' <=> c \in failed
    BY <1>4
  <2>2. Pair(t, c)
    BY DEF DInv
  <2>3. \A x \in Steps : pc'[t] = At(x, c) <=> pc[t] = At(x, c)
    BY <1>4, Places DEF Near
  <2>4. Placed(t, c)'
    BY <2>1, <2>2, <2>3 DEF Pair, Placed, Steps
  <2>5. Mapped(t, c)' /\ Due(t, c)'
    BY <2>1, <2>2, <2>3 DEF Pair, Mapped, Due, Steps
  <2>6. QED
    BY <2>4, <2>5 DEF Pair
<1>5. QED
  BY <1>1, <1>2, <1>3, <1>4 DEF DInv

-----------------------------------------------------------------------------
(* What a call into media_mem.c does to the rights *)

LEMMA RightsTyped ==
  ASSUME IInv, NEW b \in BlockIds
  PROVE  /\ rights[b].own \in BOOLEAN /\ rights[b].refs \in Nat /\ rights[b].maps \in Nat
         /\ rights \in [BlockIds -> Rights]
         /\ rights[b].own \/ rights[b].refs > 0 \/ rights[b].maps > 0 <=> rights[b] # NoRights
         /\ mmb[b].live <=> rights[b] # NoRights
<1>1. /\ rights \in [BlockIds -> Rights] /\ Agree(mmb[b], rights[b])
  BY DEF IInv, TypeOK, Accounting
<1>2. rights[b] # NoRights <=> rights[b].own \/ rights[b].refs > 0 \/ rights[b].maps > 0
  BY <1>1, SomeRight
<1>3. QED
  BY <1>1, <1>2 DEF Rights, Agree

\* A step that is one of a disciplined caller, and what it leaves of the rights.
Books(b, own, refs) ==
  /\ [Next]_vars
  /\ IInv'
  /\ rights'[b].own = own /\ rights'[b].refs = refs
  /\ \A c \in BlockIds : c # b => rights'[c] = rights[c]

LEMMA NoBlock ==
  ASSUME IInv, NEW b \in BlockIds, UnchangedMmb
  PROVE  Books(b, rights[b].own, rights[b].refs)
<1>1. UNCHANGED vars /\ rights' = rights
  BY DEF UnchangedMmb, vars
<1>2. QED
  BY <1>1, NextKeeps DEF Books

LEMMA AllocBooks ==
  ASSUME IInv, NEW b \in BlockIds, ot_mmb_alloc(b)
  PROVE  ~rights[b].own /\ Books(b, TRUE, 0)
<1>1. Next
  BY DEF Next
<1>2. ~rights[b].own /\ rights[b].refs = 0 /\ rights \in [BlockIds -> Rights]
  BY RightsTyped DEF ot_mmb_alloc
<1>3. rights' = [rights EXCEPT ![b] = [rights[b] EXCEPT !.own = TRUE]]
  BY DEF ot_mmb_alloc
<1>4. rights'[b] = [rights[b] EXCEPT !.own = TRUE] /\ rights[b] \in Rights
  BY <1>2, <1>3
<1>5. rights'[b].own /\ rights'[b].refs = 0
  BY <1>2, <1>4 DEF Rights
<1>6. QED
  BY <1>1, <1>2, <1>3, <1>5, NextKeeps DEF Books

LEMMA GetBooks ==
  ASSUME IInv, NEW b \in BlockIds, rights[b].own, rights[b].refs <= MaxRefs, ot_mmb_get(b)
  PROVE  Books(b, TRUE, rights[b].refs + 1)
<1>1. rights[b] \in Rights /\ rights \in [BlockIds -> Rights] /\ rights[b] # NoRights
  BY RightsTyped
<1>2. rights[b].refs < MaxRights
  BY <1>1, BoundsAssumption, MaxRightsAssumption DEF Rights
<1>3. Next
  BY <1>1, <1>2 DEF Next, Get, HasRight
<1>4. rights' = [rights EXCEPT ![b] = [rights[b] EXCEPT !.refs = rights[b].refs + 1]]
  BY DEF ot_mmb_get
<1>5. rights'[b].own /\ rights'[b].refs = rights[b].refs + 1
  BY <1>1, <1>4 DEF Rights
<1>6. QED
  BY <1>1, <1>3, <1>4, <1>5, NextKeeps DEF Books

LEMMA PutBooks ==
  ASSUME IInv, NEW b \in BlockIds, rights[b].refs > 0, ot_mmb_put(b)
  PROVE  Books(b, rights[b].own, rights[b].refs - 1)
<1>1. rights[b] \in Rights /\ rights \in [BlockIds -> Rights]
  BY RightsTyped
<1>2. Next
  BY DEF Next, Put
<1>3. rights' = [rights EXCEPT ![b] = [rights[b] EXCEPT !.refs = rights[b].refs - 1]]
  BY DEF ot_mmb_put
<1>4. rights'[b].own = rights[b].own /\ rights'[b].refs = rights[b].refs - 1
  BY <1>1, <1>3 DEF Rights
<1>5. QED
  BY <1>1, <1>2, <1>3, <1>4, NextKeeps DEF Books

LEMMA FreeBooks ==
  ASSUME IInv, NEW b \in BlockIds, rights[b].own, ot_mmb_free(b)
  PROVE  Books(b, FALSE, rights[b].refs)
<1>1. rights[b] \in Rights /\ rights \in [BlockIds -> Rights] /\ rights[b] # NoRights
  BY RightsTyped
<1>2. Next
  BY <1>1 DEF Next, Free, HasRight
<1>3. rights' = [rights EXCEPT ![b] = [rights[b] EXCEPT !.own = FALSE]]
  BY DEF ot_mmb_free
<1>4. ~rights'[b].own /\ rights'[b].refs = rights[b].refs
  BY <1>1, <1>3 DEF Rights
<1>5. QED
  BY <1>1, <1>2, <1>3, <1>4, NextKeeps DEF Books

LEMMA MapBooks ==
  ASSUME IInv, NEW b \in BlockIds,
         \/ /\ rights[b].own /\ rights[b].maps <= MaxMaps
            /\ \E cached \in BOOLEAN : ot_mmb_map2kern(b, cached)
         \/ rights[b].maps > 0 /\ ot_mmb_unmap(b)
  PROVE  Books(b, rights[b].own, rights[b].refs)
<1>1. rights[b] \in Rights /\ rights \in [BlockIds -> Rights]
      /\ (rights[b].own => rights[b] # NoRights)
  BY RightsTyped
<1>2. rights[b].maps <= MaxMaps => rights[b].maps < MaxRights
  BY <1>1, BoundsAssumption, MaxRightsAssumption DEF Rights
<1>3. Next
  BY <1>1, <1>2 DEF Next, Map, Unmap, HasRight
<1>4. \/ rights' = [rights EXCEPT ![b] = [rights[b] EXCEPT !.maps = rights[b].maps + 1]]
      \/ rights' = [rights EXCEPT ![b] = [rights[b] EXCEPT !.maps = rights[b].maps - 1]]
      \/ rights' = rights
  BY DEF ot_mmb_map2kern, ot_mmb_unmap
<1>5. rights'[b].own = rights[b].own /\ rights'[b].refs = rights[b].refs
  BY <1>1, <1>4 DEF Rights
<1>6. QED
  BY <1>1, <1>3, <1>4, <1>5, NextKeeps DEF Books

-----------------------------------------------------------------------------
(* The steps of a session on a block *)

Where == {Idle} \cup [at : Steps, blk : BlockIds]

\* What session s now has for block b, and where it is; the rest is as before.
Acts(s, b, p, v, w) ==
  /\ info' \in [Sessions -> [BlockIds -> Info \cup {NoInfo}]] /\ info'[s][b] = p
  /\ vma' \in [Sessions -> [BlockIds -> VMAs]] /\ vma'[s][b] = v
  /\ pc' \in [Sessions -> Where] /\ pc'[s] = w
  /\ sess' = sess
  /\ \A t \in Sessions, c \in BlockIds :
       t # s \/ c # b => info'[t][c] = info[t][c] /\ vma'[t][c] = vma[t][c]
  /\ \A t \in Sessions : t # s => pc'[t] = pc[t]

LEMMA Acting ==
  ASSUME Typed, NEW s \in Sessions, NEW b \in BlockIds,
         NEW p \in Info \cup {NoInfo}, NEW v \in VMAs, NEW w \in Where,
         SetInfo(s, b, p) \/ (p = info[s][b] /\ info' = info),
         vma' = [vma EXCEPT ![s][b] = v] \/ (v = vma[s][b] /\ vma' = vma),
         Goto(s, w) \/ (w = pc[s] /\ pc' = pc),
         sess' = sess
  PROVE  Acts(s, b, p, v, w)
<1>1. /\ info' \in [Sessions -> [BlockIds -> Info \cup {NoInfo}]] /\ info'[s][b] = p
      /\ \A t \in Sessions, c \in BlockIds : t # s \/ c # b => info'[t][c] = info[t][c]
  BY SetInfoOne DEF Typed
<1>2. /\ vma' \in [Sessions -> [BlockIds -> VMAs]] /\ vma'[s][b] = v
      /\ \A t \in Sessions, c \in BlockIds : t # s \/ c # b => vma'[t][c] = vma[t][c]
  BY VmaOne DEF Typed
<1>3. /\ pc' \in [Sessions -> Where] /\ pc'[s] = w
      /\ \A t \in Sessions : t # s => pc'[t] = pc[t]
  BY GotoOne DEF Typed, Where
<1>4. QED
  BY <1>1, <1>2, <1>3 DEF Acts

\* Such a step keeps the invariant if the session has the block afterwards as its
\* rights say, in a sound state.
LEMMA ActsKeep ==
  ASSUME DInv, NEW s \in Sessions, NEW b \in BlockIds, NEW p, NEW v, NEW w, NEW own, NEW refs,
         Acts(s, b, p, v, w), Books(b, own, refs),
         failed' \subseteq BlockIds,
         \A c \in BlockIds : c # b => (c \in failed' <=> c \in failed),
         b \in failed \ failed' => \A t \in Sessions : vma[t][b] = "none",
         \A t \in Sessions : t # s => ~Own(t, b),
         Near(s, b), Near(s, b)',
         Pair(s, b)',
         own <=> (p # NoInfo \/ w \in {At("alloc", b), At("free", b)}),
         refs = IF p = NoInfo THEN 0 ELSE 1 + p.mmb_ref
  PROVE  DInv' /\ [Next]_vars
<1>1. Typed'
  BY DEF Acts, Typed, Where, DInv
<1>2. Own(s, b)' <=> rights'[b].own
  BY DEF Acts, Own, Books
<1>3. rights'[b].refs = IF Own(s, b)' THEN Refs(s, b)' ELSE 0
  BY DEF Acts, Own, Refs, Books
<1>4. \A t \in Sessions : t # s => pc'[t] = pc[t] /\ sess'[t] = sess[t] /\ ~Own(t, b)
  BY DEF Acts
<1>5. \A c \in BlockIds : c # b =>
           /\ rights'[c].own = rights[c].own /\ rights'[c].refs = rights[c].refs
           /\ c \in failed' <=> c \in failed
  BY DEF Books
<1>6. IInv' /\ [Next]_vars /\ sess'[s] = sess[s]
  BY DEF Books, Acts
<1>7. \A t \in Sessions, c \in BlockIds :
        t # s \/ c # b => info'[t][c] = info[t][c] /\ vma'[t][c] = vma[t][c]
  BY DEF Acts
<1>8. DInv'
  BY <1>1, <1>2, <1>3, <1>4, <1>5, <1>6, <1>7, OneSession
<1>9. QED
  BY <1>6, <1>8

\* What the invariant says of a session that has a block.
LEMMA Owner ==
  ASSUME DInv, NEW s \in Sessions, NEW b \in BlockIds, Own(s, b)
  PROVE  /\ rights[b].own /\ rights[b].refs = Refs(s, b)
         /\ \A t \in Sessions : t # s => ~Own(t, b)
  BY DEF DInv, Held

\* Such a step leaves the session and the block sound, said of the new values.
LEMMA PairAfter ==
  ASSUME NEW s \in Sessions, NEW b \in BlockIds, NEW p, NEW v, NEW w, Acts(s, b, p, v, w),
         w \in {At("put", b), At("mapped", b), At("munmap", b)} => p # NoInfo,
         w \in {At("alloc", b), At("free", b)} => p = NoInfo,
         w = At("put", b) => p.mmb_ref = 0,
         w = At("mapped", b) => p.mmb_ref < MaxRefs,
         sess[s] = "closed" => p = NoInfo /\ w = Idle,
         v # "none" =>
           \/ b \in failed'
           \/ /\ p # NoInfo /\ sess[s] = "open" /\ w # At("put", b)
              /\ p.map_ref > 0 \/ w \in {At("mapped", b), At("munmap", b)},
         p # NoInfo /\ FreeDue(p) =>
           b \in failed' \/ sess[s] = "closing" \/ w \in {At("put", b), At("munmap", b)}
  PROVE  Pair(s, b)'
<1>1. info'[s][b] = p /\ vma'[s][b] = v /\ pc'[s] = w /\ sess' = sess
  BY DEF Acts
<1>2. Placed(s, b)'
  BY <1>1 DEF Placed
<1>3. Mapped(s, b)' /\ Due(s, b)'
  BY <1>1 DEF Mapped, Due, FreeDue
<1>4. QED
  BY <1>2, <1>3 DEF Pair

LEMMA InfoFields ==
  ASSUME Typed, NEW s \in Sessions, NEW b \in BlockIds
  PROVE  /\ info[s][b] \in Info \cup {NoInfo} /\ vma[s][b] \in VMAs /\ pc[s] \in Where
         /\ info[s][b] # NoInfo =>
              /\ info[s][b].mapped \in BOOLEAN /\ info[s][b].map_cached \in BOOLEAN
              /\ info[s][b].map_ref \in Nat /\ info[s][b].mmb_ref \in Nat
              /\ info[s][b].delayed_free \in BOOLEAN
  BY DEF Typed, Where, Info

-----------------------------------------------------------------------------
(* Each step of a session on a block keeps the invariant *)

LEMMA AllocBlockKeeps ==
  ASSUME DInv, NEW s \in Sessions, NEW b \in BlockIds, AllocBlock(s, b)
  PROVE  DInv' /\ [Next]_vars
<1>1. ~rights[b].own /\ Books(b, TRUE, 0)
  BY AllocBooks DEF AllocBlock, DInv
<1>2. \A t \in Sessions : ~Own(t, b)
  BY <1>1 DEF DInv, Held
<1>3. /\ info[s][b] = NoInfo /\ vma[s][b] = "none" /\ pc[s] = Idle /\ sess[s] = "open"
      /\ \A t \in Sessions : vma[t][b] = "none"
  BY <1>2 DEF Own, AllocBlock
<1>4. At("alloc", b) \in Where /\ "alloc" \in Steps
  BY PlaceTypes DEF Where, Steps
<1>5. Acts(s, b, NoInfo, "none", At("alloc", b))
  BY <1>3, <1>4, Acting DEF AllocBlock, DInv, VMAs
<1>6. failed' = failed \ {b} /\ failed' \subseteq BlockIds
  BY DEF AllocBlock, DInv, Typed
<1>7. Pair(s, b)'
  BY <1>3, <1>5, Places DEF Acts, Pair, Placed, Mapped, Due, Steps
<1>8. Near(s, b) /\ Near(s, b)'
  BY <1>3, <1>4, <1>5 DEF Near, Acts
<1>9. QED
  BY <1>1, <1>2, <1>3, <1>5, <1>6, <1>7, <1>8, ActsKeep

LEMMA AllocInfoKeeps ==
  ASSUME DInv, NEW s \in Sessions, NEW b \in BlockIds, AllocInfo(s, b)
  PROVE  DInv' /\ [Next]_vars
<1>1. /\ Own(s, b) /\ pc[s] = At("alloc", b) /\ info[s][b] = NoInfo
      /\ Placed(s, b) /\ Mapped(s, b)
  BY DEF AllocInfo, Own, DInv, Pair, Placed
<1>2. rights[b].own /\ rights[b].refs = 0 /\ \A t \in Sessions : t # s => ~Own(t, b)
  BY <1>1, Owner DEF Refs
<1>3. /\ vma[s][b] \in VMAs /\ Idle \in Where /\ "alloc" \in Steps /\ Typed
      /\ vma' = vma /\ sess' = sess /\ failed' = failed /\ failed \subseteq BlockIds
  BY InfoFields DEF Where, Steps, AllocInfo, DInv, Typed
<1>4. Idle # At("alloc", b) /\ Idle # At("free", b) /\ \A x \in Steps : Idle # At(x, b)
  BY Places DEF Steps
<1>5. sess[s] # "closed" /\ (vma[s][b] # "none" => b \in failed')
  BY <1>1, <1>3, <1>4 DEF Placed, Mapped
<1>6. CASE ot_mmb_get(b) /\ SetInfo(s, b, NewInfo)
  <2>1. Books(b, TRUE, rights[b].refs + 1)
    <3>1. IInv /\ rights[b].own /\ rights[b].refs <= MaxRefs
      BY <1>2, BoundsAssumption DEF DInv
    <3>2. QED
      BY <3>1, <1>6, GetBooks
  <2>2. NewInfo \in Info /\ NewInfo.mmb_ref = 0 /\ NewInfo.map_ref = 0 /\ ~NewInfo.delayed_free
    BY DEF NewInfo, Info
  <2> HIDE DEF NewInfo
  <2>3. NewInfo # NoInfo
    BY <2>2, NoInfoAssumption
  <2>4. Acts(s, b, NewInfo, vma[s][b], Idle)
    BY <1>3, <1>6, <2>2, Acting DEF AllocInfo
  <2>5. Pair(s, b)'
    BY <1>4, <1>5, <2>2, <2>4, PairAfter DEF FreeDue, Steps
  <2>6. Near(s, b) /\ Near(s, b)'
    BY <1>1, <1>3, <2>4 DEF Near, Acts
  <2>7. rights[b].refs + 1 = IF NewInfo = NoInfo THEN 0 ELSE 1 + NewInfo.mmb_ref
    BY <1>2, <2>2, <2>3
  <2>8. QED
    BY <1>2, <1>3, <2>1, <2>3, <2>4, <2>5, <2>6, <2>7, ActsKeep
<1>7. CASE ot_mmb_free(b) /\ info' = info
  <2>1. Books(b, FALSE, 0)
    BY <1>2, <1>7, FreeBooks DEF DInv
  <2>2. Acts(s, b, NoInfo, vma[s][b], Idle)
    BY <1>1, <1>3, <1>7, Acting DEF AllocInfo
  <2>3. Pair(s, b)'
    BY <1>4, <1>5, <2>2, PairAfter DEF Steps
  <2>4. Near(s, b) /\ Near(s, b)'
    BY <1>1, <1>3, <2>2 DEF Near, Acts
  <2>5. QED
    BY <1>2, <1>3, <1>4, <2>1, <2>2, <2>3, <2>4, ActsKeep
<1>8. QED
  BY <1>6, <1>7 DEF AllocInfo

\* What holds when a program's call finds a block in its session's list.
LEMMA ReadyFacts ==
  ASSUME DInv, NEW s \in Sessions, NEW b \in BlockIds, Ready(s, b)
  PROVE  /\ Typed /\ failed \subseteq BlockIds /\ Idle \in Where
         /\ sess[s] = "open" /\ pc[s] = Idle /\ info[s][b] # NoInfo /\ Near(s, b)
         /\ rights[b].own /\ rights[b].refs = 1 + info[s][b].mmb_ref
         /\ \A t \in Sessions : t # s => ~Own(t, b)
         /\ info[s][b] \in Info /\ vma[s][b] \in VMAs
         /\ info[s][b].map_ref \in Nat /\ info[s][b].mmb_ref \in Nat
         /\ vma[s][b] # "none" => b \in failed \/ info[s][b].map_ref > 0
         /\ FreeDue(info[s][b]) => b \in failed
         /\ \A x \in Steps : Idle # At(x, b)
<1>1. Own(s, b) /\ Pair(s, b)
  BY DEF Ready, Own, DInv
<1>2. rights[b].own /\ rights[b].refs = Refs(s, b) /\ \A t \in Sessions : t # s => ~Own(t, b)
  BY <1>1, Owner
<1>3. \A x \in Steps : Idle # At(x, b)
  BY Places
<1>4. pc[s] = Idle /\ sess[s] = "open" /\ info[s][b] # NoInfo
  BY DEF Ready
<1>5. /\ vma[s][b] # "none" => b \in failed \/ info[s][b].map_ref > 0
      /\ FreeDue(info[s][b]) => b \in failed
  BY <1>1, <1>3, <1>4 DEF Pair, Placed, Mapped, Due, Steps
<1>6. QED
  BY <1>2, <1>3, <1>4, <1>5, InfoFields DEF DInv, Typed, Near, Refs, Where

\* What holds when a running ioctl is at a block of its session's list.
LEMMA AtFacts ==
  ASSUME DInv, NEW s \in Sessions, NEW b \in BlockIds, NEW x \in {"put", "mapped", "munmap"},
         pc[s] = At(x, b)
  PROVE  /\ Typed /\ failed \subseteq BlockIds /\ Idle \in Where
         /\ sess[s] # "closed" /\ info[s][b] # NoInfo /\ Near(s, b)
         /\ rights[b].own /\ rights[b].refs = 1 + info[s][b].mmb_ref
         /\ \A t \in Sessions : t # s => ~Own(t, b)
         /\ info[s][b] \in Info /\ vma[s][b] \in VMAs
         /\ info[s][b].map_ref \in Nat /\ info[s][b].mmb_ref \in Nat
         /\ x = "put" => info[s][b].mmb_ref = 0
         /\ x = "mapped" => info[s][b].mmb_ref < MaxRefs
         /\ vma[s][b] # "none" => b \in failed \/ (sess[s] = "open" /\ x # "put")
         /\ FreeDue(info[s][b]) => b \in failed \/ sess[s] = "closing" \/ x # "mapped"
         /\ \A y \in Steps : Idle # At(y, b)
<1>1. x \in Steps /\ \A y \in Steps : Idle # At(y, b) /\ (pc[s] = At(y, b) <=> y = x)
  BY Places DEF Steps
<1>2. Placed(s, b) /\ Mapped(s, b) /\ Due(s, b)
  BY DEF DInv, Pair
<1>3. info[s][b] # NoInfo /\ sess[s] # "closed"
  BY <1>1, <1>2 DEF Placed
<1>4. rights[b].own /\ rights[b].refs = Refs(s, b) /\ \A t \in Sessions : t # s => ~Own(t, b)
  BY <1>3, Owner DEF Own
<1>5. /\ x = "put" => info[s][b].mmb_ref = 0
      /\ x = "mapped" => info[s][b].mmb_ref < MaxRefs
  BY <1>2, <1>3 DEF Placed
<1>6. /\ vma[s][b] # "none" => b \in failed \/ (sess[s] = "open" /\ x # "put")
      /\ FreeDue(info[s][b]) => b \in failed \/ sess[s] = "closing" \/ x # "mapped"
  BY <1>1, <1>2, <1>3 DEF Mapped, Due, Steps
<1>7. Typed /\ failed \subseteq BlockIds /\ Idle \in Where
  BY DEF DInv, Typed, Where
<1>8. /\ info[s][b] \in Info /\ vma[s][b] \in VMAs
      /\ info[s][b].map_ref \in Nat /\ info[s][b].mmb_ref \in Nat
  BY <1>3, <1>7, InfoFields
<1>9. Near(s, b)
  BY <1>1 DEF Near
<1>10. Refs(s, b) = 1 + info[s][b].mmb_ref
  BY <1>3 DEF Refs
<1>11. QED
  BY ONLY <1>1, <1>3, <1>4, <1>5, <1>6, <1>7, <1>8, <1>9, <1>10

LEMMA IoctlFreeKeeps ==
  ASSUME DInv, NEW s \in Sessions, NEW b \in BlockIds, ioctl_mmb_free(s, b)
  PROVE  DInv' /\ [Next]_vars
<1> DEFINE p == info[s][b]
           q == [p EXCEPT !.delayed_free = TRUE]
<1>1. Ready(s, b) /\ UnchangedMmb /\ sess' = sess /\ vma' = vma /\ failed' = failed
  BY DEF ioctl_mmb_free
<1>2. Books(b, rights[b].own, rights[b].refs)
  BY <1>1, NoBlock DEF DInv
<1>3. CASE (p.map_ref > 0 \/ p.mmb_ref > 0) /\ SetInfo(s, b, q) /\ pc' = pc
  <2>1. q \in Info /\ q.map_ref = p.map_ref /\ q.mmb_ref = p.mmb_ref
    <3>1. p \in Info
      BY <1>1, ReadyFacts
    <3>2. QED
      BY ONLY <3>1 DEF Info
  <2> HIDE DEF q
  <2>2. q # NoInfo /\ ~FreeDue(q)
    BY <1>1, <1>3, <2>1, ReadyFacts, NoInfoAssumption DEF FreeDue
  <2>3. Acts(s, b, q, vma[s][b], Idle)
    BY <1>1, <1>3, <2>1, ReadyFacts, Acting
  <2>4. Pair(s, b)'
    BY <1>1, <2>1, <2>2, <2>3, ReadyFacts, PairAfter DEF Steps
  <2>5. Near(s, b)'
    BY <2>3 DEF Near, Acts
  <2>6. QED
    BY <1>1, <1>2, <2>1, <2>2, <2>3, <2>4, <2>5, ReadyFacts, ActsKeep
<1>4. CASE ~(p.map_ref > 0 \/ p.mmb_ref > 0) /\ Goto(s, At("put", b)) /\ info' = info
  <2>1. At("put", b) \in Where /\ "put" \in Steps
    BY PlaceTypes DEF Where, Steps
  <2>2. Acts(s, b, p, vma[s][b], At("put", b))
    BY <1>1, <1>4, <2>1, ReadyFacts, Acting
  <2>3. p.map_ref = 0 /\ p.mmb_ref = 0
    BY <1>1, <1>4, ReadyFacts
  <2>4. At("put", b) # At("alloc", b) /\ At("put", b) # At("free", b) /\ At("put", b) # At("mapped", b)
    BY Places DEF Steps
  <2>5. Pair(s, b)'
    BY <1>1, <2>2, <2>3, <2>4, ReadyFacts, PairAfter
  <2>6. Near(s, b)'
    BY <2>1, <2>2 DEF Near, Acts
  <2>7. QED
    BY <1>1, <1>2, <2>2, <2>4, <2>5, <2>6, ReadyFacts, ActsKeep
<1>5. QED
  BY <1>3, <1>4 DEF ioctl_mmb_free

LEMMA UsrdevPutKeeps ==
  ASSUME DInv, NEW s \in Sessions, NEW b \in BlockIds, UsrdevPut(s, b)
  PROVE  DInv' /\ [Next]_vars
<1>1. /\ pc[s] = At("put", b) /\ sess' = sess /\ vma' = vma /\ failed' = failed
      /\ SetInfo(s, b, NoInfo) /\ Goto(s, At("free", b)) /\ ot_mmb_put(b)
  BY DEF UsrdevPut
<1>2. Books(b, rights[b].own, rights[b].refs - 1) /\ rights[b].refs - 1 = 0
  BY <1>1, AtFacts, PutBooks DEF DInv
<1>3. At("free", b) \in Where /\ "free" \in Steps
  BY PlaceTypes DEF Where, Steps
<1>4. Acts(s, b, NoInfo, vma[s][b], At("free", b))
  BY <1>1, <1>3, AtFacts, Acting
<1>5. /\ At("free", b) # At("put", b) /\ At("free", b) # At("mapped", b)
      /\ At("free", b) # At("munmap", b)
  BY Places DEF Steps
<1>6. Pair(s, b)'
  BY <1>1, <1>4, <1>5, AtFacts, PairAfter
<1>7. Near(s, b)'
  BY <1>3, <1>4 DEF Near, Acts
<1>8. QED
  BY <1>1, <1>2, <1>4, <1>6, <1>7, AtFacts, ActsKeep

LEMMA UsrdevFreeKeeps ==
  ASSUME DInv, NEW s \in Sessions, NEW b \in BlockIds, UsrdevFree(s, b)
  PROVE  DInv' /\ [Next]_vars
<1>1. /\ pc[s] = At("free", b) /\ sess' = sess /\ vma' = vma /\ failed' = failed /\ info' = info
      /\ Goto(s, Idle) /\ ot_mmb_free(b)
  BY DEF UsrdevFree
<1>2. /\ Placed(s, b) /\ Mapped(s, b) /\ Typed /\ vma[s][b] \in VMAs /\ Idle \in Where
      /\ failed \subseteq BlockIds
  BY InfoFields DEF DInv, Pair, Where, Typed
<1>3. \A x \in Steps : Idle # At(x, b)
  BY Places
<1>4. info[s][b] = NoInfo /\ sess[s] # "closed" /\ (vma[s][b] # "none" => b \in failed)
  BY <1>1, <1>2, <1>3 DEF Placed, Mapped, Steps
<1>5. rights[b].own /\ rights[b].refs = 0 /\ \A t \in Sessions : t # s => ~Own(t, b)
  BY <1>1, <1>4, Owner DEF Own, Refs
<1>6. Books(b, FALSE, rights[b].refs)
  BY <1>1, <1>5, FreeBooks DEF DInv
<1>7. Acts(s, b, NoInfo, vma[s][b], Idle)
  BY <1>1, <1>2, <1>4, Acting
<1>8. Pair(s, b)'
  BY <1>1, <1>3, <1>4, <1>7, PairAfter DEF Steps
<1>9. Near(s, b) /\ Near(s, b)'
  BY <1>1, <1>7 DEF Near, Acts, Steps
<1>10. ~(NoInfo # NoInfo \/ Idle \in {At("alloc", b), At("free", b)})
  BY <1>3 DEF Steps
<1>11. QED
  BY <1>1, <1>2, <1>5, <1>6, <1>7, <1>8, <1>9, <1>10, ActsKeep

\* A record with other counters, and one with a mapping too.
Recount(p, m, n) == [p EXCEPT !.map_ref = m, !.mmb_ref = n]
Remap(p, m, n) == [p EXCEPT !.mapped = TRUE, !.map_ref = m, !.mmb_ref = n]

LEMMA Counted ==
  ASSUME NEW p \in Info, NEW m \in Nat, NEW n \in Nat, NEW q,
         q \in {Recount(p, m, n), Remap(p, m, n)}
  PROVE  q \in Info /\ q.map_ref = m /\ q.mmb_ref = n /\ q.delayed_free = p.delayed_free
<1> DEFINE With(r) == [r EXCEPT !.map_ref = m]
           And(r) == [r EXCEPT !.mmb_ref = n]
<1>1. ASSUME NEW r \in Info
      PROVE  /\ With(r) \in Info /\ With(r).map_ref = m /\ With(r).delayed_free = r.delayed_free
             /\ And(r) \in Info /\ And(r).mmb_ref = n /\ And(r).map_ref = r.map_ref
             /\ And(r).delayed_free = r.delayed_free
             /\ And(With(r)) = [r EXCEPT !.map_ref = m, !.mmb_ref = n]
  BY DEF Info
<1>2. /\ [p EXCEPT !.mapped = TRUE] \in Info
      /\ [p EXCEPT !.mapped = TRUE].delayed_free = p.delayed_free
      /\ [p EXCEPT !.mapped = TRUE, !.map_ref = m, !.mmb_ref = n]
           = [[p EXCEPT !.mapped = TRUE] EXCEPT !.map_ref = m, !.mmb_ref = n]
  BY DEF Info
<1>3. ASSUME NEW r \in Info, q = [r EXCEPT !.map_ref = m, !.mmb_ref = n]
      PROVE  q \in Info /\ q.map_ref = m /\ q.mmb_ref = n /\ q.delayed_free = r.delayed_free
  <2>1. q = And(With(r)) /\ With(r) \in Info /\ With(r).map_ref = m
        /\ With(r).delayed_free = r.delayed_free
    BY <1>1, <1>3
  <2> HIDE DEF With, And
  <2>2. QED
    BY <2>1, <1>1
<1>4. QED
  BY <1>2, <1>3 DEF Recount, Remap

\* An idle session takes a reference more, for a mapping or for the program.
LEMMA MoreRefs ==
  ASSUME DInv, NEW s \in Sessions, NEW b \in BlockIds, Ready(s, b), ot_mmb_get(b),
         NEW q \in Info, SetInfo(s, b, q), q.mmb_ref = info[s][b].mmb_ref + 1,
         q.map_ref \in {info[s][b].map_ref, info[s][b].map_ref + 1},
         info[s][b].mmb_ref < MaxRefs,
         sess' = sess, vma' = vma, pc' = pc, failed' = failed
  PROVE  DInv' /\ [Next]_vars
<1>1. rights[b].refs <= MaxRefs
  BY ReadyFacts, BoundsAssumption
<1>2. Books(b, TRUE, rights[b].refs + 1)
  BY <1>1, ReadyFacts, GetBooks DEF DInv
<1>3. q # NoInfo /\ ~FreeDue(q)
  BY ReadyFacts, NoInfoAssumption DEF FreeDue
<1>4. Acts(s, b, q, vma[s][b], Idle)
  BY ReadyFacts, Acting
<1>5. vma[s][b] # "none" => b \in failed \/ q.map_ref > 0
  BY ReadyFacts
<1>6. Pair(s, b)'
  BY <1>3, <1>4, <1>5, ReadyFacts, PairAfter DEF Steps
<1>7. Near(s, b)'
  BY <1>4 DEF Near, Acts
<1>8. rights[b].refs + 1 = IF q = NoInfo THEN 0 ELSE 1 + q.mmb_ref
  BY <1>3, ReadyFacts
<1>9. QED
  BY <1>2, <1>3, <1>4, <1>6, <1>7, <1>8, ReadyFacts, ActsKeep

LEMMA RemapMappedKeeps ==
  ASSUME DInv, NEW s \in Sessions, NEW b \in BlockIds, NEW cached, RemapMapped(s, b, cached)
  PROVE  DInv' /\ [Next]_vars
<1> DEFINE p == info[s][b]
           q == [p EXCEPT !.map_ref = @ + 1, !.mmb_ref = @ + 1]
<1>1. /\ Ready(s, b) /\ ot_mmb_get(b) /\ SetInfo(s, b, q) /\ p.mmb_ref < MaxRefs
      /\ sess' = sess /\ vma' = vma /\ pc' = pc /\ failed' = failed
  BY DEF RemapMapped
<1>2. p \in Info /\ p.map_ref + 1 \in Nat /\ p.mmb_ref + 1 \in Nat
  BY <1>1, ReadyFacts
<1>3. q \in Info /\ q.mmb_ref = p.mmb_ref + 1 /\ q.map_ref = p.map_ref + 1
  <2>1. q \in {Recount(p, p.map_ref + 1, p.mmb_ref + 1), Remap(p, p.map_ref + 1, p.mmb_ref + 1)}
    BY DEF Recount, Remap
  <2> HIDE DEF q, p
  <2>2. QED
    BY <1>2, <2>1, Counted
<1> HIDE DEF q
<1>4. QED
  BY <1>1, <1>3, MoreRefs

LEMMA AddRefKeeps ==
  ASSUME DInv, NEW s \in Sessions, NEW b \in BlockIds, AddRef(s, b)
  PROVE  DInv' /\ [Next]_vars
<1> DEFINE p == info[s][b]
           q == [p EXCEPT !.mmb_ref = @ + 1]
<1>1. /\ Ready(s, b) /\ ot_mmb_get(b) /\ SetInfo(s, b, q) /\ p.mmb_ref < MaxRefs
      /\ sess' = sess /\ vma' = vma /\ pc' = pc /\ failed' = failed
  BY DEF AddRef
<1>2. p \in Info
  BY <1>1, ReadyFacts
<1>3. q \in Info /\ q.mmb_ref = p.mmb_ref + 1 /\ q.map_ref = p.map_ref
  BY <1>2 DEF Info
<1> HIDE DEF q
<1>4. QED
  BY <1>1, <1>3, MoreRefs

LEMMA RemapFreshKeeps ==
  ASSUME DInv, NEW s \in Sessions, NEW b \in BlockIds, NEW cached \in BOOLEAN,
         NEW prot \in VMAs \ {"none"}, RemapFresh(s, b, cached, prot)
  PROVE  DInv' /\ [Next]_vars
<1> DEFINE p == info[s][b]
           q == [p EXCEPT !.map_cached = cached]
<1>1. /\ Ready(s, b) /\ UnchangedMmb /\ SetInfo(s, b, q) /\ p.mmb_ref < MaxRefs
      /\ sess' = sess /\ failed' = failed
  BY DEF RemapFresh
<1>2. p \in Info
  BY <1>1, ReadyFacts
<1>3. /\ q \in Info /\ q.mmb_ref = p.mmb_ref /\ q.map_ref = p.map_ref
      /\ q.delayed_free = p.delayed_free
  BY <1>2 DEF Info
<1> HIDE DEF q
<1>4. q # NoInfo /\ (FreeDue(q) => FreeDue(p))
  BY <1>3, NoInfoAssumption DEF FreeDue
<1>5. Books(b, rights[b].own, rights[b].refs)
  BY <1>1, NoBlock DEF DInv
<1>6. CASE vma' = [vma EXCEPT ![s][b] = prot] /\ Goto(s, At("mapped", b))
  <2>1. At("mapped", b) \in Where /\ "mapped" \in Steps
    BY PlaceTypes DEF Where, Steps
  <2>2. Acts(s, b, q, prot, At("mapped", b))
    BY <1>1, <1>3, <1>6, <2>1, ReadyFacts, Acting
  <2>3. /\ At("mapped", b) # At("alloc", b) /\ At("mapped", b) # At("free", b)
        /\ At("mapped", b) # At("put", b)
    BY Places DEF Steps
  <2>4. Pair(s, b)'
    BY <1>1, <1>3, <1>4, <2>2, <2>3, ReadyFacts, PairAfter
  <2>5. Near(s, b)'
    BY <2>1, <2>2 DEF Near, Acts
  <2>6. QED
    BY <1>1, <1>3, <1>4, <1>5, <2>2, <2>3, <2>4, <2>5, ReadyFacts, ActsKeep
<1>7. CASE vma' = vma /\ pc' = pc
  <2>1. Acts(s, b, q, vma[s][b], Idle)
    BY <1>1, <1>3, <1>7, ReadyFacts, Acting
  <2>2. Pair(s, b)'
    BY <1>1, <1>3, <1>4, <2>1, ReadyFacts, PairAfter DEF Steps
  <2>3. Near(s, b)'
    BY <2>1 DEF Near, Acts
  <2>4. QED
    BY <1>1, <1>3, <1>4, <1>5, <2>1, <2>2, <2>3, ReadyFacts, ActsKeep
<1>8. QED
  BY <1>6, <1>7 DEF RemapFresh

LEMMA RemapDoneKeeps ==
  ASSUME DInv, NEW s \in Sessions, NEW b \in BlockIds, RemapDone(s, b)
  PROVE  DInv' /\ [Next]_vars
<1> DEFINE p == info[s][b]
           q == [p EXCEPT !.mapped = TRUE, !.map_ref = @ + 1, !.mmb_ref = @ + 1]
<1>1. /\ pc[s] = At("mapped", b) /\ ot_mmb_get(b) /\ SetInfo(s, b, q) /\ Goto(s, Idle)
      /\ sess' = sess /\ vma' = vma /\ failed' = failed
  BY DEF RemapDone
<1>2. /\ p \in Info /\ p.map_ref + 1 \in Nat /\ p.mmb_ref + 1 \in Nat
      /\ rights[b].refs <= MaxRefs /\ rights[b].own /\ failed \subseteq BlockIds /\ Near(s, b)
      /\ \A t \in Sessions : t # s => ~Own(t, b)
  BY <1>1, AtFacts, BoundsAssumption
<1>3. q \in Info /\ q.mmb_ref = p.mmb_ref + 1 /\ q.map_ref = p.map_ref + 1
  <2>1. q \in {Recount(p, p.map_ref + 1, p.mmb_ref + 1), Remap(p, p.map_ref + 1, p.mmb_ref + 1)}
    BY DEF Recount, Remap
  <2> HIDE DEF q, p
  <2>2. QED
    BY <1>2, <2>1, Counted
<1> HIDE DEF q
<1>4. q # NoInfo /\ ~FreeDue(q) /\ q.map_ref > 0
  BY <1>1, <1>3, AtFacts, NoInfoAssumption DEF FreeDue
<1>5. Books(b, TRUE, rights[b].refs + 1)
  BY <1>1, <1>2, AtFacts, GetBooks DEF DInv
<1>6. Acts(s, b, q, vma[s][b], Idle)
  BY <1>1, <1>3, AtFacts, Acting
<1>7. Pair(s, b)'
  BY <1>1, <1>4, <1>6, AtFacts, PairAfter DEF Steps
<1>8. Near(s, b)'
  BY <1>6 DEF Near, Acts
<1>9. rights[b].refs + 1 = IF q = NoInfo THEN 0 ELSE 1 + q.mmb_ref
  BY <1>1, <1>3, <1>4, AtFacts
<1>10. QED
  BY <1>1, <1>2, <1>4, <1>5, <1>6, <1>7, <1>8, <1>9, ActsKeep

LEMMA UnmapPutKeeps ==
  ASSUME DInv, NEW s \in Sessions, NEW b \in BlockIds, UnmapPut(s, b)
  PROVE  DInv' /\ [Next]_vars
<1> DEFINE p == info[s][b]
           q == [p EXCEPT !.map_ref = @ - 1, !.mmb_ref = @ - 1]
           w == IF q.map_ref > 0 THEN Idle ELSE At("munmap", b)
<1>1. /\ Ready(s, b) /\ p.map_ref > 0 /\ p.mmb_ref > 0 /\ SetInfo(s, b, q)
      /\ ot_mmb_put(b) /\ sess' = sess /\ vma' = vma /\ failed' = failed
  BY DEF UnmapPut
<1>2. p \in Info /\ p.map_ref - 1 \in Nat /\ p.mmb_ref - 1 \in Nat
  BY <1>1, ReadyFacts
<1>3. q \in Info /\ q.mmb_ref = p.mmb_ref - 1 /\ q.map_ref = p.map_ref - 1
  <2>1. q \in {Recount(p, p.map_ref - 1, p.mmb_ref - 1), Remap(p, p.map_ref - 1, p.mmb_ref - 1)}
    BY DEF Recount, Remap
  <2> HIDE DEF q, p, w
  <2>2. QED
    BY <1>2, <2>1, Counted
<1>4. Goto(s, w) \/ (w = pc[s] /\ pc' = pc)
  BY DEF UnmapPut, Ready
<1> HIDE DEF q
<1>5. q # NoInfo /\ At("munmap", b) \in Where /\ "munmap" \in Steps
  BY <1>3, NoInfoAssumption, PlaceTypes DEF Where, Steps
<1>6. Books(b, rights[b].own, rights[b].refs - 1)
  BY <1>1, ReadyFacts, PutBooks DEF DInv
<1>7. w \in Where
  BY <1>1, <1>5, ReadyFacts
<1>8. Acts(s, b, q, vma[s][b], w)
  BY <1>1, <1>3, <1>4, <1>7, ReadyFacts, Acting
<1>9. /\ At("munmap", b) # At("alloc", b) /\ At("munmap", b) # At("free", b)
      /\ At("munmap", b) # At("put", b) /\ At("munmap", b) # At("mapped", b)
  BY Places DEF Steps
<1>10. /\ w \notin {At("alloc", b), At("free", b), At("put", b), At("mapped", b)}
       /\ q.map_ref > 0 \/ w = At("munmap", b)
  BY <1>1, <1>3, <1>9, ReadyFacts DEF Steps
<1>11. FreeDue(q) => w = At("munmap", b)
  BY <1>10 DEF FreeDue
<1>12. Near(s, b)'
  BY <1>5, <1>8 DEF Near, Acts
<1> HIDE DEF w
<1>13. Pair(s, b)'
  BY <1>1, <1>5, <1>8, <1>10, <1>11, ReadyFacts, PairAfter
<1>14. rights[b].refs - 1 = IF q = NoInfo THEN 0 ELSE 1 + q.mmb_ref
  BY <1>1, <1>3, <1>5, ReadyFacts
<1>15. QED
  BY <1>1, <1>5, <1>6, <1>8, <1>12, <1>13, <1>14, ReadyFacts, ActsKeep

LEMMA UnmapFailsKeeps ==
  ASSUME DInv, NEW s \in Sessions, NEW b \in BlockIds, UnmapFails(s, b)
  PROVE  DInv' /\ [Next]_vars
<1> DEFINE p == info[s][b]
<1>1. /\ pc[s] = At("munmap", b) /\ failed' = failed \cup {b} /\ Goto(s, Idle)
      /\ UnchangedMmb /\ sess' = sess /\ info' = info /\ vma' = vma
  BY DEF UnmapFails
<1>2. Books(b, rights[b].own, rights[b].refs)
  BY <1>1, NoBlock DEF DInv
<1>3. Acts(s, b, p, vma[s][b], Idle)
  BY <1>1, AtFacts, Acting
<1>4. Pair(s, b)'
  BY <1>1, <1>3, AtFacts, PairAfter DEF Steps
<1>5. Near(s, b)'
  BY <1>3 DEF Near, Acts
<1>6. failed' \subseteq BlockIds
  BY <1>1, AtFacts
<1>7. QED
  BY <1>1, <1>2, <1>3, <1>4, <1>5, <1>6, AtFacts, ActsKeep

\* After a step that has left q of a block, its ioctl goes on to free it if that
\* is due, and is done otherwise.
Onward(q, b) == IF FreeDue(q) THEN At("put", b) ELSE Idle

LEMMA LeaveKeeps ==
  ASSUME DInv, NEW s \in Sessions, NEW b \in BlockIds, NEW q \in Info, NEW v \in VMAs,
         NEW refs,
         SetInfo(s, b, q) \/ (q = info[s][b] /\ info' = info),
         vma' = [vma EXCEPT ![s][b] = v] \/ (v = vma[s][b] /\ vma' = vma),
         Goto(s, Onward(q, b)),
         sess' = sess, failed' = failed, sess[s] # "closed", Near(s, b),
         v # "none" => b \in failed \/ (sess[s] = "open" /\ q.map_ref > 0),
         Books(b, TRUE, refs), refs = 1 + q.mmb_ref,
         \A t \in Sessions : t # s => ~Own(t, b)
  PROVE  DInv' /\ [Next]_vars
<1> DEFINE w == Onward(q, b)
<1>1. /\ At("put", b) \in Where /\ Idle \in Where /\ "put" \in Steps
      /\ Typed /\ failed \subseteq BlockIds
  BY PlaceTypes DEF Where, Steps, DInv, Typed
<1>2. q # NoInfo
  BY NoInfoAssumption
<1>3. /\ At("put", b) # At("alloc", b) /\ At("put", b) # At("free", b)
      /\ At("put", b) # At("munmap", b) /\ At("put", b) # At("mapped", b)
      /\ \A x \in Steps : Idle # At(x, b)
  BY Places DEF Steps
<1>4. w \notin {At("alloc", b), At("free", b), At("mapped", b), At("munmap", b)}
  BY <1>3 DEF Steps, Onward
<1>5. /\ w = At("put", b) => q.mmb_ref = 0 /\ q.map_ref = 0
      /\ FreeDue(q) => w = At("put", b)
  BY <1>3 DEF FreeDue, Steps, Onward
<1>6. Acts(s, b, q, v, w)
  BY <1>1, Acting DEF Onward
<1>7. Near(s, b)'
  BY <1>1, <1>6 DEF Near, Acts, Onward
<1> HIDE DEF w
<1>8. v # "none" => b \in failed' \/ (sess[s] = "open" /\ q.map_ref > 0 /\ w # At("put", b))
  BY <1>5
<1>9. Pair(s, b)'
  BY <1>2, <1>4, <1>5, <1>6, <1>8, PairAfter
<1>10. QED
  BY <1>1, <1>2, <1>6, <1>7, <1>9, ActsKeep

LEMMA UnmapDoneKeeps ==
  ASSUME DInv, NEW s \in Sessions, NEW b \in BlockIds, UnmapDone(s, b)
  PROVE  DInv' /\ [Next]_vars
<1> DEFINE p == info[s][b]
           q == [p EXCEPT !.mapped = FALSE]
<1>1. /\ pc[s] = At("munmap", b) /\ vma' = [vma EXCEPT ![s][b] = "none"] /\ SetInfo(s, b, q)
      /\ Goto(s, Onward(p, b))
      /\ UnchangedMmb /\ sess' = sess /\ failed' = failed
  BY DEF UnmapDone, Onward
<1>2. p \in Info
  BY <1>1, AtFacts
<1>3. /\ q \in Info /\ q.mmb_ref = p.mmb_ref /\ q.map_ref = p.map_ref
      /\ q.delayed_free = p.delayed_free
  BY <1>2 DEF Info
<1> HIDE DEF q
<1>4. Onward(q, b) = Onward(p, b)
  BY <1>3 DEF FreeDue, Onward
<1>5. /\ rights[b].own = TRUE /\ rights[b].refs = 1 + q.mmb_ref
      /\ sess[s] # "closed" /\ Near(s, b) /\ \A t \in Sessions : t # s => ~Own(t, b)
  <2>1. /\ rights[b].own /\ rights[b].refs = 1 + p.mmb_ref
        /\ sess[s] # "closed" /\ Near(s, b) /\ \A t \in Sessions : t # s => ~Own(t, b)
    BY <1>1, AtFacts
  <2>2. rights[b].own \in BOOLEAN
    BY RightsTyped DEF DInv
  <2>3. QED
    BY <1>3, <2>1, <2>2
<1>6. Books(b, TRUE, rights[b].refs)
  BY <1>1, <1>5, NoBlock DEF DInv
<1>7. "none" \in VMAs
  BY DEF VMAs
<1> HIDE DEF p
<1>8. QED
  BY <1>1, <1>3, <1>4, <1>5, <1>6, <1>7, LeaveKeeps

LEMMA DecRefKeeps ==
  ASSUME DInv, NEW s \in Sessions, NEW b \in BlockIds, DecRef(s, b)
  PROVE  DInv' /\ [Next]_vars
<1> DEFINE p == info[s][b]
           q == [p EXCEPT !.mmb_ref = @ - 1]
<1>1. /\ Ready(s, b) /\ p.mmb_ref > 0 /\ SetInfo(s, b, q)
      /\ Goto(s, Onward(q, b))
      /\ ot_mmb_put(b) /\ sess' = sess /\ vma' = vma /\ failed' = failed
  BY DEF DecRef, Onward
<1>2. p \in Info /\ p.mmb_ref \in Nat /\ p.map_ref \in Nat
  BY <1>1, ReadyFacts
<1>3. q \in Info /\ q.mmb_ref = p.mmb_ref - 1 /\ q.map_ref = p.map_ref
  BY <1>1, <1>2 DEF Info
<1> HIDE DEF q
<1>4. rights[b].own = TRUE /\ rights[b].refs > 0
  BY <1>1, ReadyFacts, RightsTyped DEF DInv
<1>5. Books(b, TRUE, rights[b].refs - 1)
  BY <1>1, <1>4, PutBooks DEF DInv
<1>6. rights[b].refs - 1 = 1 + q.mmb_ref
  BY <1>1, <1>2, <1>3, ReadyFacts
<1>7. /\ sess[s] = "open" /\ Near(s, b) /\ vma[s][b] \in VMAs
      /\ vma[s][b] # "none" => b \in failed \/ q.map_ref > 0
      /\ \A t \in Sessions : t # s => ~Own(t, b)
  BY <1>1, <1>3, ReadyFacts
<1> HIDE DEF p
<1>8. QED
  BY <1>1, <1>3, <1>5, <1>6, <1>7, LeaveKeeps

LEMMA ReleaseRefKeeps ==
  ASSUME DInv, NEW s \in Sessions, NEW b \in BlockIds, ReleaseRef(s, b)
  PROVE  DInv' /\ [Next]_vars
<1> DEFINE p == info[s][b]
           q == [p EXCEPT !.mmb_ref = @ - 1]
<1>1. /\ sess[s] = "closing" /\ pc[s] = Idle /\ p # NoInfo
      /\ sess' = sess /\ vma' = vma /\ failed' = failed
  BY DEF ReleaseRef
<1>2. Own(s, b) /\ Mapped(s, b) /\ Typed /\ failed \subseteq BlockIds /\ Idle \in Where
  BY <1>1 DEF Own, DInv, Pair, Typed, Where
<1>3. /\ rights[b].own = TRUE /\ rights[b].refs = 1 + p.mmb_ref
      /\ \A t \in Sessions : t # s => ~Own(t, b)
  BY <1>1, <1>2, Owner, RightsTyped DEF Refs, DInv
<1>4. p \in Info /\ p.mmb_ref \in Nat /\ vma[s][b] \in VMAs
  BY <1>1, <1>2, InfoFields
<1>5. vma[s][b] # "none" => b \in failed
  BY <1>1, <1>2 DEF Mapped
<1>6. Near(s, b)
  BY <1>1 DEF Near
<1>7. At("put", b) \in Where /\ "put" \in Steps /\ \A x \in Steps : Idle # At(x, b)
  BY PlaceTypes, Places DEF Where, Steps
<1>8. CASE p.mmb_ref > 0 /\ ot_mmb_put(b) /\ SetInfo(s, b, q) /\ pc' = pc
  <2>1. q \in Info /\ q.mmb_ref = p.mmb_ref - 1
    BY <1>4, <1>8 DEF Info
  <2> HIDE DEF q, p
  <2>2. q # NoInfo /\ rights[b].refs - 1 = IF q = NoInfo THEN 0 ELSE 1 + q.mmb_ref
    BY <2>1, <1>3, <1>4, NoInfoAssumption
  <2>3. Books(b, TRUE, rights[b].refs - 1)
    <3>1. IInv /\ rights[b].refs > 0 /\ ot_mmb_put(b)
      BY <1>3, <1>4, <1>8 DEF DInv
    <3>2. QED
      BY <1>3, <3>1, PutBooks
  <2>4. Acts(s, b, q, vma[s][b], Idle)
    BY <1>1, <1>2, <1>4, <1>8, <2>1, Acting
  <2>5. Pair(s, b)'
    BY <1>1, <1>5, <1>7, <2>2, <2>4, PairAfter DEF Steps
  <2>6. Near(s, b)'
    BY <2>4 DEF Near, Acts
  <2>7. QED
    BY <1>1, <1>2, <1>3, <1>6, <2>2, <2>3, <2>4, <2>5, <2>6, ActsKeep
<1>9. CASE ~(p.mmb_ref > 0) /\ Goto(s, At("put", b)) /\ UnchangedMmb /\ info' = info
  <2>1. p.mmb_ref = 0
    BY <1>4, <1>9
  <2>2. Books(b, TRUE, rights[b].refs)
    BY <1>3, <1>9, NoBlock DEF DInv
  <2>3. Acts(s, b, p, vma[s][b], At("put", b))
    BY <1>1, <1>2, <1>4, <1>7, <1>9, Acting
  <2>4. At("put", b) # At("alloc", b) /\ At("put", b) # At("free", b) /\ At("put", b) # At("mapped", b)
    BY Places DEF Steps
  <2>5. Pair(s, b)'
    BY <1>1, <1>5, <2>1, <2>3, <2>4, PairAfter
  <2>6. Near(s, b)'
    BY <1>7, <2>3 DEF Near, Acts
  <2>7. QED
    BY <1>1, <1>2, <1>3, <1>6, <2>2, <2>3, <2>4, <2>5, <2>6, ActsKeep
<1>10. QED
  BY <1>8, <1>9 DEF ReleaseRef

-----------------------------------------------------------------------------
(* The steps that are about no block, or not about its list *)

\* A step that leaves the lists, the ioctls and the rights of sessions alone.
LEMMA HeldStays ==
  ASSUME DInv, info' = info, pc' = pc,
         \A b \in BlockIds : rights'[b].own = rights[b].own /\ rights'[b].refs = rights[b].refs
  PROVE  \A b \in BlockIds : Held(b)'
<1> SUFFICES ASSUME NEW b \in BlockIds PROVE Held(b)'
  OBVIOUS
<1>1. \A s \in Sessions : (Own(s, b)' <=> Own(s, b)) /\ Refs(s, b)' = Refs(s, b)
  BY DEF Own, Refs
<1>2. Held(b)
  BY DEF DInv
<1>3. QED
  BY <1>1, <1>2 DEF Held

LEMMA RightsStay ==
  ASSUME DInv, NEW b \in BlockIds, Books(b, rights[b].own, rights[b].refs),
         sess' = sess, info' = info, vma' = vma, pc' = pc, failed' = failed
  PROVE  DInv' /\ [Next]_vars
<1>1. \A c \in BlockIds : rights'[c].own = rights[c].own /\ rights'[c].refs = rights[c].refs
  BY DEF Books
<1>2. \A c \in BlockIds : Held(c)'
  BY <1>1, HeldStays
<1>3. Typed'
  BY DEF DInv, Typed
<1>4. \A t \in Sessions, c \in BlockIds : Pair(t, c)'
  BY DEF DInv, Pair, Placed, Mapped, Due
<1>5. QED
  BY <1>2, <1>3, <1>4 DEF Books, DInv

LEMMA SessionKeeps ==
  ASSUME DInv, NEW s \in Sessions,
         \/ mmz_userdev_open(s) \/ Close(s) \/ ReleaseDone(s)
         \/ \E b \in BlockIds : UserMunmap(s, b)
         \/ UNCHANGED allvars
  PROVE  DInv' /\ [Next]_vars
<1>1. UNCHANGED <<mmb, rights, info, pc, failed>>
  BY DEF mmz_userdev_open, Close, ReleaseDone, UserMunmap, UnchangedMmb, allvars, devvars
<1>2. UNCHANGED vars
  BY <1>1 DEF vars
<1>3. IInv'
  BY <1>2, NextKeeps DEF DInv
<1>4. \A b \in BlockIds : Held(b)'
  BY <1>1, HeldStays
<1>5. Typed
  BY DEF DInv
<1>6. /\ vma' \in [Sessions -> [BlockIds -> VMAs]]
      /\ \A t \in Sessions, c \in BlockIds : vma'[t][c] \in {vma[t][c], "none"}
  <2>1. CASE vma' = vma
    BY <2>1, <1>5 DEF Typed
  <2>2. CASE Close(s)
    <3>1. vma' = [vma EXCEPT ![s] = [b \in BlockIds |-> "none"]]
      BY <2>2 DEF Close
    <3>2. [b \in BlockIds |-> "none"] \in [BlockIds -> VMAs]
      BY DEF VMAs
    <3>3. vma \in [Sessions -> [BlockIds -> VMAs]]
      BY <1>5 DEF Typed
    <3>4. QED
      BY ONLY <3>1, <3>2, <3>3
  <2>3. ASSUME NEW b \in BlockIds, UserMunmap(s, b)
        PROVE  <1>6!:
    <3>1. vma' = [vma EXCEPT ![s][b] = "none"] /\ "none" \in VMAs
      BY <2>3 DEF UserMunmap, VMAs
    <3>2. vma \in [Sessions -> [BlockIds -> VMAs]]
      BY <1>5 DEF Typed
    <3>3. vma' = [vma EXCEPT ![s] = [vma[s] EXCEPT ![b] = "none"]]
      BY ONLY <3>1, <3>2
    <3>4. [vma[s] EXCEPT ![b] = "none"] \in [BlockIds -> VMAs]
      BY ONLY <3>1, <3>2
    <3>5. QED
      BY ONLY <3>2, <3>3, <3>4
  <2>4. QED
    BY <2>1, <2>2, <2>3 DEF mmz_userdev_open, ReleaseDone, allvars, devvars
<1>7. /\ sess' \in [Sessions -> {"closed", "open", "closing"}]
      /\ \A t \in Sessions :
           \/ sess'[t] = sess[t]
           \/ sess[t] = "closed" /\ sess'[t] = "open"
           \/ sess[t] = "open" /\ pc[t] = Idle /\ sess'[t] = "closing"
                /\ \A c \in BlockIds : vma'[t][c] = "none"
           \/ sess[t] = "closing" /\ pc[t] = Idle /\ sess'[t] = "closed"
                /\ \A c \in BlockIds : info[t][c] = NoInfo
  <2>1. CASE sess' = sess
    BY <2>1, <1>5 DEF Typed
  <2>2. CASE mmz_userdev_open(s)
    BY <2>2, <1>5 DEF mmz_userdev_open, Typed
  <2>3. CASE Close(s)
    BY <2>3, <1>5 DEF Close, Typed
  <2>4. CASE ReleaseDone(s)
    BY <2>4, <1>5 DEF ReleaseDone, Typed
  <2>5. QED
    BY <2>1, <2>2, <2>3, <2>4 DEF UserMunmap, allvars, devvars
<1>8. Typed'
  BY <1>1, <1>5, <1>6, <1>7 DEF Typed
<1>9. ASSUME NEW t \in Sessions, NEW c \in BlockIds
      PROVE  Pair(t, c)'
  <2>1. /\ info'[t][c] = info[t][c] /\ pc'[t] = pc[t] /\ failed' = failed
        /\ vma'[t][c] \in {vma[t][c], "none"}
    BY <1>1, <1>6
  <2>2. Placed(t, c) /\ Mapped(t, c) /\ Due(t, c) /\ \A x \in Steps : Idle # At(x, c)
    BY Places DEF DInv, Pair
  <2>3. Placed(t, c)'
    BY <1>7, <2>1, <2>2 DEF Placed
  <2>4. Mapped(t, c)'
    BY <1>7, <2>1, <2>2 DEF Mapped, Placed
  <2>5. Due(t, c)'
    BY <1>7, <2>1, <2>2 DEF Due, Placed
  <2>6. QED
    BY <2>3, <2>4, <2>5 DEF Pair
<1>10. QED
  BY <1>2, <1>3, <1>4, <1>8, <1>9 DEF DInv

\* A driver maps a block, or unmaps one.
LEMMA DriverKeeps ==
  ASSUME DInv, NEW b \in BlockIds, DriverMap(b) \/ DriverUnmap(b)
  PROVE  DInv' /\ [Next]_vars
<1>1. sess' = sess /\ info' = info /\ vma' = vma /\ pc' = pc /\ failed' = failed
  BY DEF DriverMap, DriverUnmap, devvars
<1>2. CASE DriverMap(b)
  <2>1. rights[b].own /\ IInv
    BY <1>2, ReadyFacts DEF DriverMap, DInv
  <2>2. mmb[b].map_ref = rights[b].maps
    BY <2>1 DEF IInv, Accounting, Agree
  <2>3. rights[b].maps <= MaxMaps
    BY <1>2, <2>1, <2>2, RightsTyped, BoundsAssumption DEF DriverMap
  <2>4. \E cached \in BOOLEAN : ot_mmb_map2kern(b, cached)
    BY <1>2 DEF DriverMap
  <2>5. Books(b, rights[b].own, rights[b].refs)
    BY <2>1, <2>3, <2>4, MapBooks
  <2>6. QED
    BY <1>1, <2>5, RightsStay
<1>3. CASE DriverUnmap(b)
  <2>1. Books(b, rights[b].own, rights[b].refs)
    BY <1>3, MapBooks DEF DriverUnmap, DInv
  <2>2. QED
    BY <1>1, <2>1, RightsStay
<1>4. QED
  BY <1>2, <1>3

-----------------------------------------------------------------------------
(* The theorems *)

LEMMA DeviceInit == DevInit => DInv
<1> SUFFICES ASSUME DevInit PROVE DInv
  OBVIOUS
<1>1. Init
  BY DEF DevInit
<1>2. IInv
  BY <1>1, InitIInv
<1>3. Typed
  BY DEF DevInit, Typed, VMAs
<1>4. \A s \in Sessions, b \in BlockIds :
        info[s][b] = NoInfo /\ pc[s] = Idle /\ vma[s][b] = "none" /\ \A x \in Steps : Idle # At(x, b)
  BY Places DEF DevInit
<1>5. \A s \in Sessions, b \in BlockIds : Pair(s, b)
  BY <1>4 DEF Pair, Placed, Mapped, Due, Steps
<1>6. \A s \in Sessions, b \in BlockIds : ~Own(s, b)
  BY <1>4 DEF Own, Steps
<1>7. \A b \in BlockIds : ~rights[b].own /\ rights[b].refs = 0
  BY DEF DevInit, Init, NoRights
<1>8. \A b \in BlockIds : Held(b)
  BY <1>6, <1>7 DEF Held
<1>9. QED
  BY <1>2, <1>3, <1>5, <1>8 DEF DInv

\* Every step of the device keeps the invariant, and is one of a disciplined
\* caller of media_mem.c.
LEMMA DeviceStep == DInv /\ [DevNext]_allvars => DInv' /\ [Next]_vars
<1> SUFFICES ASSUME DInv, [DevNext]_allvars PROVE DInv' /\ [Next]_vars
  OBVIOUS
<1>1. ASSUME NEW s \in Sessions, Proceed(s)
      PROVE  DInv' /\ [Next]_vars
  <2>1. CASE ReleaseDone(s)
    BY <2>1, SessionKeeps
  <2>2. ASSUME NEW b \in BlockIds,
               \/ AllocInfo(s, b) \/ RemapDone(s, b)
               \/ UnmapFails(s, b) \/ UnmapDone(s, b)
               \/ UsrdevPut(s, b) \/ UsrdevFree(s, b) \/ ReleaseRef(s, b)
        PROVE  DInv' /\ [Next]_vars
    BY <2>2, AllocInfoKeeps, RemapDoneKeeps, UnmapFailsKeeps, UnmapDoneKeeps, UsrdevPutKeeps,
       UsrdevFreeKeeps, ReleaseRefKeeps
  <2>3. QED
    BY <1>1, <2>1, <2>2 DEF Proceed
<1>2. ASSUME NEW s \in Sessions, Call(s)
      PROVE  DInv' /\ [Next]_vars
  <2>1. CASE mmz_userdev_open(s) \/ Close(s) \/ \E b \in BlockIds : UserMunmap(s, b)
    BY <2>1, SessionKeeps
  <2>2. ASSUME NEW b \in BlockIds,
               \/ AllocBlock(s, b) \/ ioctl_mmb_free(s, b)
               \/ UnmapPut(s, b) \/ AddRef(s, b) \/ DecRef(s, b)
        PROVE  DInv' /\ [Next]_vars
    BY <2>2, AllocBlockKeeps, IoctlFreeKeeps, UnmapPutKeeps, AddRefKeeps, DecRefKeeps
  <2>3. ASSUME NEW b \in BlockIds, NEW cached \in BOOLEAN,
               \/ RemapMapped(s, b, cached)
               \/ \E prot \in VMAs \ {"none"} : RemapFresh(s, b, cached, prot)
        PROVE  DInv' /\ [Next]_vars
    BY <2>3, RemapMappedKeeps, RemapFreshKeeps
  <2>4. QED
    BY <1>2, <2>1, <2>2, <2>3 DEF Call
<1>3. ASSUME NEW b \in BlockIds, DriverMap(b) \/ DriverUnmap(b)
      PROVE  DInv' /\ [Next]_vars
  BY <1>3, DriverKeeps
<1>4. CASE UNCHANGED allvars
  <2>1. UNCHANGED vars
    BY <1>4 DEF allvars, vars
  <2>2. IInv'
    BY <2>1, NextKeeps DEF DInv
  <2>3. DInv'
    BY <1>4, <2>2 DEF allvars, devvars, DInv, Typed, Pair, Placed, Mapped, Due, Held, Own, Refs
  <2>4. QED
    BY <2>1, <2>3
<1>5. QED
  BY <1>1, <1>2, <1>3, <1>4 DEF DevNext

\* The variables of the device and of the blocks keep their types.
THEOREM DeviceTypeCorrect == DevSpec => []DevTypeOK
<1>1. DInv => DevTypeOK
  BY DEF DInv, IInv, Typed, DevTypeOK
<1>2. QED
  BY <1>1, DeviceInit, DeviceStep, PTL DEF DevSpec

\* Whatever programs ask of their sessions, in whatever order their ioctls,
\* exits and the drivers interleave, the device makes only those calls of
\* media_mem.c it has the right to: it never frees, puts or gets a block that is
\* not its own, error paths included. (mmz_userdev.c:153-576, 908-943)
THEOREM DeviceIsDisciplined == DevSpec => DisciplinedCaller
<1>1. DevInit => Init
  BY DEF DevInit
<1>2. QED
  BY <1>1, DeviceInit, DeviceStep, PTL DEF DevSpec, DisciplinedCaller, Spec

\* So the promise of media_mem.c reaches the device: the counters of a block say
\* what its session and the drivers have of it, and it goes with the last of it.
THEOREM DeviceKeepsAccounts == DevSpec => []Accounting
<1>1. DInv => Accounting
  BY DEF DInv, IInv
<1>2. QED
  BY <1>1, DeviceInit, DeviceStep, PTL DEF DevSpec

\* And so does the abstract life time: a block of the device goes in the very step
\* that gives the last of it back, be it an ioctl, the release of a file or the
\* unmapping of a driver. (mmz_userdev.c:153-576, 908-943, media_mem.c:555-612)
THEOREM DeviceKeepsThePromise == DevSpec => ImplementsLifetime
  BY DeviceIsDisciplined, LifetimeImplemented DEF DisciplinedCaller

LEMMA InvOneOwner == DInv => OneOwner
<1> SUFFICES ASSUME DInv, NEW b \in BlockIds
             PROVE  LET listed  == {s \in Sessions : info[s][b] # NoInfo}
                        passing == {s \in Sessions : pc[s] \in {At("alloc", b), At("free", b)}}
                    IN  /\ Cardinality(listed) + Cardinality(passing) <= 1
                        /\ (listed # {} \/ passing # {}) => mmb[b].live /\ ~mmb[b].RELEASED
                        /\ mmb[b].live /\ listed = {} /\ passing = {}
                             => mmb[b].RELEASED /\ mmb[b].map_ref > 0
  BY DEF OneOwner
<1> DEFINE listed  == {s \in Sessions : info[s][b] # NoInfo}
           passing == {s \in Sessions : pc[s] \in {At("alloc", b), At("free", b)}}
<1>1. \A s \in Sessions : Own(s, b) <=> s \in listed \/ s \in passing
  BY DEF Own
<1>2. Held(b) /\ IInv
  BY DEF DInv
<1>3. \A s \in Sessions : ~(s \in listed /\ s \in passing)
  BY DEF DInv, Pair, Placed
<1>4. /\ mmb[b].live <=> rights[b] # NoRights
      /\ rights[b] # NoRights <=> rights[b].own \/ rights[b].refs > 0 \/ rights[b].maps > 0
      /\ mmb[b].RELEASED <=> mmb[b].live /\ ~rights[b].own
      /\ mmb[b].map_ref = rights[b].maps
  BY <1>2, RightsTyped DEF IInv, Accounting, Agree
<1>5. Cardinality({}) = 0 /\ \A s : Cardinality({s}) = 1
  BY FS_EmptySet, FS_Singleton
<1>6. CASE \E s \in Sessions : Own(s, b)
  <2>1. PICK s \in Sessions : Own(s, b)
    BY <1>6
  <2>2. \A t \in Sessions : Own(t, b) => t = s
    BY <1>2, <2>1 DEF Held
  <2>3. (listed = {s} /\ passing = {}) \/ (listed = {} /\ passing = {s})
    BY <1>1, <1>3, <2>1, <2>2
  <2>4. rights[b].own
    BY <1>2, <2>1 DEF Held
  <2>5. Cardinality(listed) + Cardinality(passing) <= 1
    BY <1>5, <2>3
  <2>6. mmb[b].live /\ ~mmb[b].RELEASED
    BY <1>4, <2>4
  <2>7. QED
    BY <2>3, <2>5, <2>6
<1>7. CASE \A s \in Sessions : ~Own(s, b)
  <2>1. listed = {} /\ passing = {}
    BY <1>1, <1>7
  <2>2. ~rights[b].own /\ rights[b].refs = 0
    BY <1>2, <1>7 DEF Held
  <2>3. mmb[b].live => mmb[b].RELEASED /\ mmb[b].map_ref > 0
    BY <1>4, <2>2
  <2> HIDE DEF listed, passing
  <2>4. Cardinality(listed) + Cardinality(passing) <= 1
    BY <1>5, <2>1
  <2>5. QED
    BY <2>1, <2>3, <2>4 DEF listed, passing
<1>8. QED
  BY <1>6, <1>7

LEMMA InvReferences == DInv => ReferencesAgree
<1> SUFFICES ASSUME DInv, NEW b \in BlockIds
             PROVE  /\ \A s \in Sessions : info[s][b] # NoInfo /\ pc[s] = Idle
                                            => mmb[b].phy_ref = 1 + info[s][b].mmb_ref
                    /\ (\A s \in Sessions : info[s][b] = NoInfo) => mmb[b].phy_ref = 0
  BY DEF ReferencesAgree
<1>1. mmb[b].phy_ref = rights[b].refs
  BY DEF DInv, IInv, Accounting, Agree
<1>2. ASSUME NEW s \in Sessions, info[s][b] # NoInfo
      PROVE  mmb[b].phy_ref = 1 + info[s][b].mmb_ref
  BY <1>1, <1>2, Owner DEF Own, Refs
<1>3. ASSUME \A s \in Sessions : info[s][b] = NoInfo
      PROVE  mmb[b].phy_ref = 0
  <2>1. CASE \E s \in Sessions : Own(s, b)
    BY <1>1, <1>3, <2>1, Owner DEF Refs
  <2>2. CASE \A s \in Sessions : ~Own(s, b)
    BY <1>1, <2>2 DEF DInv, Held
  <2>3. QED
    BY <2>1, <2>2
<1>4. QED
  BY <1>2, <1>3

LEMMA InvMapped == DInv => MappedBlockLives
<1> SUFFICES ASSUME DInv, NEW s \in Sessions, NEW b \in BlockIds,
                    vma[s][b] # "none", b \notin failed
             PROVE  info[s][b] # NoInfo /\ mmb[b].live
  BY DEF MappedBlockLives
<1>1. info[s][b] # NoInfo
  BY DEF DInv, Pair, Mapped
<1>2. rights[b].own /\ IInv
  BY <1>1, Owner DEF Own, DInv
<1>3. QED
  BY <1>1, <1>2, RightsTyped

LEMMA InvDue == DInv => DelayedFreeHappens
<1> SUFFICES ASSUME DInv, NEW s \in Sessions, NEW b \in BlockIds,
                    info[s][b] # NoInfo, pc[s] = Idle, sess[s] = "open", FreeDue(info[s][b])
             PROVE  b \in failed
  BY DEF DelayedFreeHappens
<1>1. Ready(s, b)
  BY DEF Ready
<1>2. QED
  BY <1>1, ReadyFacts

\* A live block has one owner: a session, an unfinished ioctl, or the mapping of
\* a driver that outlives its free. None is leaked or listed twice.
THEOREM OneOwnerAlways == DevSpec => []OneOwner
  BY DeviceInit, DeviceStep, InvOneOwner, PTL DEF DevSpec

\* Between ioctls a listed block has one reference for the list and one for each
\* its program was given; a block that has left the lists has none left, whichever
\* references its program dropped or kept. (mmz_userdev.c:552-576, 927-935)
THEOREM ReferencesAgreeAlways == DevSpec => []ReferencesAgree
  BY DeviceInit, DeviceStep, InvReferences, PTL DEF DevSpec

\* A block a program has mapped is not given to anybody else, unless an unmap of
\* it has failed.
THEOREM MappedBlockAlwaysLives == DevSpec => []MappedBlockLives
  BY DeviceInit, DeviceStep, InvMapped, PTL DEF DevSpec

\* No delayed free is left over when the last reference has gone.
THEOREM DelayedFreeAlwaysHappens == DevSpec => []DelayedFreeHappens
  BY DeviceInit, DeviceStep, InvDue, PTL DEF DevSpec
=============================================================================
