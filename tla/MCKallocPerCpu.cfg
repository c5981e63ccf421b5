SPECIFICATION Spec
CONSTANTS
  p1 = p1
  p2 = p2
  p3 = p3
  g1 = g1
  g2 = g2
  None = None
  Procs = {p1, p2, p3}
  Pages = {g1, g2}
  NCPU = 3
SYMMETRY Symmetric
CHECK_DEADLOCK FALSE
INVARIANT PagesArePartitioned
INVARIANT FailsOnlyWhenExhaustedOrRaced
