SPECIFICATION FairSpec
CONSTANTS
  MaxWrites = 1
  PipeCap = 4
  ForeignReap = TRUE
  Args = 2
  MaxFaults = 6
INVARIANTS ReturnsClean OkIsNatural CaptureComplete AbortNeedsTwoFaults
PROPERTY CallReturns
