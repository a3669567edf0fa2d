\* Output, end of file and a descendant that keeps the pipes, without failures.
SPECIFICATION FairSpec
CONSTANTS
  MaxWrites = 1
  PipeCap = 1
  ForeignReap = FALSE
  Limits = {1}
  Chunk = 2
  InputLen = 1
  MaxFaults = 0
INVARIANT CaptureComplete
PROPERTY CallsReturn
