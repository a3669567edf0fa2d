\* Two files, edited twice and staged at any time, two starts of the gate; a
\* phase may write without end.
SPECIFICATION Spec
CONSTANTS
  Files = {f, g}
  MaxEdits = 2
  MaxRuns = 2
  Capacity = 1
  Codes = {0, 124}
SYMMETRY FileSymmetry
INVARIANTS DispositionKept DeliveryEvidence VerdictGenuine AttestedWasTested
CHECK_DEADLOCK FALSE
