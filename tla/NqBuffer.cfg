SPECIFICATION FairSpec
CONSTANTS
  SizeMax = 31
  AllocLimit = 31
  StrLimit = 11
  BytesLimit = 31
  Initial = 4
  Chunk = 3
  Item = 2
  MaxInput = 34
INVARIANTS NoOverrun LimitsExact NothingLeaks
PROPERTY OperationsEnd
