SPECIFICATION DevSpec
CONSTANTS
  Sessions = {s1, s2}
  BlockIds = {b1}
  MaxRefs = 3
  MaxMaps = 2
  MaxRights = 4
  NoInfo = NoInfo
INVARIANTS
  OneOwner
  ReferencesAgree
  MappedBlockLives
  DelayedFreeHappens
PROPERTIES
  DisciplinedCaller
  ReleaseFreesAll
CHECK_DEADLOCK FALSE
