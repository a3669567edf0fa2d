\* One tier run with two groups, every failure and every signal.  The tier is
\* a single run: it stops when the waiter has ended and the scope is empty.
SPECIFICATION FairSpec
CONSTANTS
  N = 2
  Codes = {0, 124}
INVARIANTS ReleasedMeansEmpty KillPower ResultIsGenuine
CHECK_DEADLOCK FALSE
PROPERTY TierEnds
