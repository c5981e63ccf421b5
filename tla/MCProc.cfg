SPECIFICATION FairSpec
CONSTANTS
  c1 = c1
  c2 = c2
  CPUs = {c1, c2}
  None = None
  NPROC = 3
  Targets = {2}
  Killers = {3}
  MaxPid = 3
INVARIANT OneStack
INVARIANT SchedHoldsOneLock
INVARIANT NoLostWakeup
PROPERTY OrphansAreReaped
