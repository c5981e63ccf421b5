SPECIFICATION FairSpec
CONSTANTS
  t1 = t1
  t2 = t2
  t3 = t3
  Threads = {t1, t2, t3}
  NoThread = NoThread
  Rounds = 3
INVARIANT AssertHolds
INVARIANT ReadIsNotRacy
INVARIANT NoLostWakeup
PROPERTY ImplementsRendezvous
PROPERTY AllPass
