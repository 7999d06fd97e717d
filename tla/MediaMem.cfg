SPECIFICATION Spec
CONSTANTS
  BlockIds = {b1, b2}
  MaxRights = 3
INVARIANTS
  Accounting
PROPERTIES
  ImplementsLifetime
