\* No constraint: what a stale bucket leads to.
SPECIFICATION Spec
CONSTANTS
  p1 = p1
  p2 = p2
  None = None
  Procs = {p1, p2}
  NBUF = 2
  Blocks = {2, 3, 4}
  HASHSIZE = 3
  UINT_MAX = 7
SYMMETRY Symmetric
CHECK_DEADLOCK FALSE
INVARIANT ReturnsItsBlock
