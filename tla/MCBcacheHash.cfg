SPECIFICATION Spec
CONSTANTS
  p1 = p1
  p2 = p2
  p3 = p3
  None = None
  Procs = {p1, p2, p3}
  NBUF = 3
  Blocks = {2, 3, 5}
  HASHSIZE = 3
  UINT_MAX = 7
SYMMETRY Symmetric
CONSTRAINT NotStale
CHECK_DEADLOCK FALSE
INVARIANT GetsItsBlock
INVARIANT OneBufferPerBlock
INVARIANT RefcntCounts
