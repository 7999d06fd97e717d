SPECIFICATION Spec
CONSTANTS
  N = 4
  Gap = 2
  MaxUsers = 2
  Word = 16
  Threads = {t1}
  MaxPts = 5
  NoCtx = NoCtx
  None = None
INVARIANTS
  BlocksInStep
  ReadsWhatIsAsked
CHECK_DEADLOCK FALSE
