SPECIFICATION Spec
CONSTANTS
  MaxWrites = 0
  PipeCap = 1
  ForeignReap = TRUE
  Limits = {0}
  Chunk = 2
  InputLen = 1
  MaxFaults = 3
INVARIANTS SignalsOnlyOwned ReapedGroupEmpty ReturnsOwnNothing OutcomeGenuine AbortNeedsTwoFaults
PROPERTY ImplementsContract
