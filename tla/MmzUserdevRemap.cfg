SPECIFICATION DevSpec
CONSTANTS
  Sessions = {s1}
  BlockIds = {b1}
  MaxRefs = 2
  MaxMaps = 1
  MaxRights = 3
  NoInfo = NoInfo
INVARIANTS
  RemapPossible
CHECK_DEADLOCK FALSE
