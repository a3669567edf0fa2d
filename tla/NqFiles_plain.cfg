SPECIFICATION Spec
CONSTANTS
  Procs = {p1, p2}
  PlainProcs = {p1}
  long = long
  short = short
  Values = {long, short}
  Length <- MCLength
  TempNames = {t1}
  Inodes = {i1, i2, i3}
  None = None
  Mixed = Mixed
  MaxFaults = 2
SYMMETRY Symmetry
VIEW View
INVARIANT OkMeansStored
