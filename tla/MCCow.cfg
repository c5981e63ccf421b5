SPECIFICATION Spec
CONSTANTS
  init = init
  p1 = p1
  p2 = p2
  p3 = p3
  g1 = g1
  g2 = g2
  g3 = g3
  Zero = Zero
  Junk = Junk
  v = v
  None = None
  Procs = {init, p1, p2, p3}
  initproc = init
  Pages = {g1, g2, g3}
  Values = {v}
  MaxCount = 3
SYMMETRY Symmetric
CONSTRAINT BeforeARace
INVARIANT CountsAreOwners
INVARIANT SharedIsReadOnly
INVARIANT EachHasItsOwnMemory
