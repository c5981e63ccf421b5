SPECIFICATION Spec
CONSTANTS
  p1 = p1
  p2 = p2
  intr = intr
  s1 = s1
  s2 = s2
  a1 = a1
  y = y
  x = x
  f1 = f1
  f2 = f2
  Blank = Blank
  None = None
  Procs = {p1, p2}
  NMBUF = 6
  Socks = {s1, s2}
  Addrs = {a1}
  Bodies = {x, y}
  Frames = {f1, f2}
  RX_RING_SIZE = 3
  TX_RING_SIZE = 3
SYMMETRY Symmetric
CONSTRAINT Running
CONSTRAINT OneKilled
INVARIANT EachMbufIsFreedOnce
INVARIANT SocketsOutliveUse
INVARIANT ReadersMustWait
INVARIANT NoPacketIsStranded
INVARIANT FramesAreKept
PROPERTY ImplementsMailboxes
