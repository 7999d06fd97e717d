SPECIFICATION Spec
CONSTANTS
  N = 4
  Gap = 2
  MaxUsers = 1
  Word = 16
  Threads = {t1}
  MaxPts = 6
  NoCtx = NoCtx
  None = None
INVARIANT
  GapKept
CHECK_DEADLOCK FALSE
