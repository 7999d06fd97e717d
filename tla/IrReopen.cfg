SPECIFICATION Spec
CONSTANTS
  Keys = {k1, k2}
  Zero = zero
  OT_IR_MAX_BUF = 2
  DEFAULT_BUF_LEN = 2
  Lens = {2}
  DEFAULT_DELAYTIME = 2000
  Delays = {2000}
  Counts = {2}
  MaxPush = 3
  MaxCalls = 4
  Callers = {c1, c2}
SYMMETRY Symmetry
INVARIANT
  Reopenable
CHECK_DEADLOCK FALSE
