SPECIFICATION Spec
CONSTANTS
  Grain = 2
  Word = 64
  zAnon = zAnon
  zVb = zVb
  zBad = zBad
  ZoneIds = {zAnon, zVb, zBad}
  Zone <- MCZone
  BlockIds = {b1, b2, b3, b4}
  KernelStart = 40
  KernelEnd = 48
  MaxMalloc = 7
  MaxMallocV2 = 6
  AllocRequests <- MCAllocRequests
  FixedRequests <- MCFixedRequests
  NoBlock = NoBlock
  NoMark = NoMark
SYMMETRY MCSymmetry
INVARIANTS
  Aligned
