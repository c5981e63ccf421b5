SPECIFICATION Spec
CONSTANTS
  p1 = p1
  p2 = p2
  n1 = n1
  n2 = n2
  i1 = i1
  i2 = i2
  e1 = e1
  e2 = e2
  f1 = f1
  None = None
  Procs = {p1, p2}
  Names = {n1, n2}
  Inums = {i1, i2}
  Entries = {e1, e2}
  Files = {f1}
  NOFILE = 2
SYMMETRY Symmetric
CONSTRAINT NoOrphan
CONSTRAINT MapsOnce
INVARIANT NoPanic
INVARIANT FileRefs
INVARIANT InodeRefs
INVARIANT LinksAreNames
