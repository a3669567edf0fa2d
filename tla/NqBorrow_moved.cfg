SPECIFICATION CheckedSpec
CONSTANTS
  x = x
  y = y
  r = r
  t = t
  Bindings = {x, y, r, t}
  Params = {x, y, r}
  FlowSize = 1
  ScopeSize = 1
  ListSize = 1
  MovedSize = 5
  WalkArgs <- WalkArguments
  LoopEntry <- LoopHead
  CheckBlock <- CheckStatements
  Programs <- MovedPrograms
  Lists <- ProgramLists
  Blocks <- ProgramBlocks
  Size <- Depth
INVARIANT MovedNeverUsed
