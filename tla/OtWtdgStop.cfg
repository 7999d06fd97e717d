SPECIFICATION Spec
CONSTANTS
  Margin = 2
  DefaultMargin = 2
  MaxMargin = 3
  NoDaemon = FALSE
  Margins = {2}
  Callers = {c1}
INVARIANT
  StopFindsThread
CHECK_DEADLOCK FALSE
