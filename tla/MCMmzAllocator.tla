---------------------------- MODULE MCMmzAllocator ----------------------------
(***************************************************************************)
(* A system of three zones: a plain one, one of equal blocks that touches  *)
(* it, and one that conflicts with the second. Addresses 40..47 are kernel *)
(* memory.                                                                 *)
(***************************************************************************)
EXTENDS MmzDeployment, TLC

CONSTANTS zAnon, zVb, zBad

MCZone == (zAnon :> [start |-> 8, nbytes |-> 12, name |-> "anonymous", gfp |-> 0,
                     alloc_type |-> "DEFAULT", block_align |-> 0])
       @@ (zVb   :> [start |-> 48, nbytes |-> 9, name |-> "anonymous", gfp |-> 1,
                     alloc_type |-> "SLAB", block_align |-> 0])
       @@ (zBad  :> [start |-> 16, nbytes |-> 8, name |-> "vb", gfp |-> 0,
                     alloc_type |-> "EQ_BLOCK", block_align |-> 4])

Request(name, gfp, size, align) ==
  [name |-> name, gfp |-> gfp, size |-> size, align |-> align, only |-> ZoneIds]

MCAllocRequests ==
  { Request("anonymous", 0, 3, 0),  \* two grains in either anonymous zone
    Request("anonymous", 0, 2, 4),  \* one grain, aligned to two
    Request("anonymous", 1, 7, 8),  \* four grains, in zVb only
    Request("vb", 0, 5, 3) }        \* rounded to the equal block size

Fixed(name, mark, size, align) ==
  [name |-> name, gfp |-> 0, only |-> ZoneIds, mark |-> mark, size |-> size, align |-> align]

MCFixedRequests ==
  { Fixed("anonymous", 13, 3, 0),   \* between two grains
    Fixed("anonymous", 19, 4, 4),   \* ends with the zone, or sticks out of a gap
    Fixed("anonymous", 18, 2, 0),   \* leaves a gap that ends unaligned
    Fixed("anonymous", 56, 2, 1),   \* sticks out of its zone
    Fixed("anonymous", 30, 2, 0) }  \* in no zone

MCSymmetry == Permutations(BlockIds)
=============================================================================
