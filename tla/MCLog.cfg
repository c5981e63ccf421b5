SPECIFICATION FairSpec
CONSTANTS
  p1 = p1
  p2 = p2
  b1 = b1
  b2 = b2
  None = None
  Procs = {p1, p2}
  Blocks = {b1, b2}
  Values = {0, 1}
  MAXOPBLOCKS = 2
  LOGSIZE = 4
  NLOG = 3
INVARIANT CommitAlone
INVARIANT DirtyIsKept
INVARIANT SpaceIsReserved
PROPERTY SleepersWake
PROPERTY ImplementsTransactionalDisk
