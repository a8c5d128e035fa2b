SPECIFICATION FairSpec
CONSTANTS
  t1 = t1
  t2 = t2
  h1 = h1
  h2 = h2
  b1 = b1
  b2 = b2
  b3 = b3
  NULL = NULL
  Absent = Absent
  Threads <- MCThreads
  Handles <- MCOneHandle
  Bos <- MCFewBos
  Usages <- MCFewUsages
  MaxLocks = 2
  MaxOpens = 1
PROPERTIES
  ImplementsBufferLocks
  CallsReturn
CHECK_DEADLOCK FALSE
