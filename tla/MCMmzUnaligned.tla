---------------------------- MODULE MCMmzUnaligned ----------------------------
(***************************************************************************)
(* One zone that starts at a grain but not at a multiple of the alignment  *)
(* one of the requests asks for.                                           *)
(***************************************************************************)
EXTENDS MmzAllocator, TLC

CONSTANT zAnon

MCZone == zAnon :> [start |-> 10, nbytes |-> 6, name |-> "anonymous", gfp |-> 0,
                    alloc_type |-> "DEFAULT", block_align |-> 0]

MCAllocRequests ==
  {[name |-> "anonymous", gfp |-> 0, size |-> size, align |-> align, only |-> ZoneIds] :
     size \in {2, 4}, align \in {0, 4}}

MCFixedRequests == {}
=============================================================================
