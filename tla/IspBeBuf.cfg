SPECIFICATION Spec
CONSTANTS
  NumBufs = 2
  Configs = {c1, c2, c3}
  Zero = Zero
  MaxHold = 2
  MaxCrash = 1
INVARIANTS OnePlace Accounting NotStarved WritesOwnBuffer NothingLost
PROPERTIES RegisterSpec ExitReclaims
