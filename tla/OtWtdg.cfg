SPECIFICATION Spec
CONSTANTS
  Margin = 2
  DefaultMargin = 2
  MaxMargin = 2
  NoDaemon = FALSE
  Margins = {2, 3}
  Callers = {c1, c2}
INVARIANTS
  FedInTime
  OneOpener
PROPERTY
  RemovalEnds
CHECK_DEADLOCK FALSE
