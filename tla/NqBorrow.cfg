SPECIFICATION CheckedSpec
CONSTANTS
  x = x
  y = y
  r = r
  t = t
  Bindings = {x, y, r, t}
  Params = {x, y, r}
  FlowSize = 4
  ScopeSize = 3
  ListSize = 4
  MovedSize = 4
  WalkArgs <- WalkArguments
  LoopEntry <- LoopHead
  CheckBlock <- CheckStatements
  Programs <- AllPrograms
  Lists <- ProgramLists
  Blocks <- ProgramBlocks
  Size <- Depth
INVARIANTS ReadsOnlyLive CallsExclusive OwnedOnce
