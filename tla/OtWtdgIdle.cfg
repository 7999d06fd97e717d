SPECIFICATION Spec
CONSTANTS
  Margin = 2
  DefaultMargin = 2
  MaxMargin = 3
  NoDaemon = FALSE
  Margins = {1}
  Callers = {c1}
INVARIANT
  FedWhenIdle
CHECK_DEADLOCK FALSE
