SPECIFICATION Spec
CONSTANTS
  Procs = {p1, p2}
  PlainProcs = {}
  long = long
  short = short
  Values = {long, short}
  Length <- MCLength
  TempNames = {t1, t2}
  Inodes = {i1, i2, i3, i4}
  None = None
  Mixed = Mixed
  MaxFaults = 2
SYMMETRY Symmetry
VIEW View
INVARIANTS AtomicVisibility ReadIsSnapshot OrphanNeedsTwoFailures
PROPERTY ImplementsAtomicFile
