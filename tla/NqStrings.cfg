SPECIFICATION Spec
CONSTANTS
  Owners = {o1, o2, o3, o4}
  NoOwner = NoOwner
  Vars = {v1, v2}
  Lists = {l1}
  Errs = {e1, e2}
  NFields = 3
  NRequired = 2
  Limit = 3
  MaxRef = 3
  Grow <- MCGrow
SYMMETRY Symmetry
INVARIANTS RefcountExact NothingHidden  ErrorsWhole
