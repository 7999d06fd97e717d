SPECIFICATION Spec
CONSTANTS
  NumBufs = 2
  DmaDepth = 1
  Kinds = {"live", "playback"}
  MaxPics = 3
  MaxStarts = 1
  MaxHostStarts = 1
  RestartBy = 1
  None = None
CHECK_DEADLOCK FALSE
INVARIANT ReturnedAfterUse
