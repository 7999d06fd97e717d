SPECIFICATION Spec
CONSTANTS
  N = 4
  Gap = 2
  MaxUsers = 2
  Word = 16
  Threads = {t1, t2}
  MaxPts = 1
  NoCtx = NoCtx
  None = None
INVARIANT
  ToplimitMeansFull
CHECK_DEADLOCK FALSE
