SPECIFICATION FairSpec
CONSTANTS
  p1 = p1
  p2 = p2
  g1 = g1
  None = None
  Procs = {p1, p2}
  Pages = {g1}
  NCPU = 2
CHECK_DEADLOCK FALSE
PROPERTY KallocReturns
