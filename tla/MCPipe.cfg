SPECIFICATION FairSpec
CONSTANTS
  p1 = p1
  p2 = p2
  a = a
  b = b
  None = None
  Procs = {p1, p2}
  Creator = p1
  Bytes = {a, b}
  PIPESIZE = 2
  UINT_MAX = 3
  MaxN = 2
CHECK_DEADLOCK FALSE
INVARIANT NoUseAfterFree
INVARIANT SleepersMustWait
PROPERTY ImplementsChannel
PROPERTY HangupIsTold
