\* Two chains of three at a time, the third request waits for descriptors.
SPECIFICATION Spec
CONSTANTS
  b1 = b1
  b2 = b2
  b3 = b3
  s1 = s1
  s2 = s2
  s3 = s3
  x = x
  y = y
  None = None
  Bufs = {b1, b2, b3}
  Blocks = {s1, s2, s3}
  Values = {x, y}
  NUM = 7
  UINT16_MAX = 6
SYMMETRY Symmetric
INVARIANT SleepersAreWoken
INVARIANT ChainsAreLive
INVARIANT DescriptorsAreOwned
PROPERTY ImplementsAtomicDisk
