SPECIFICATION Spec
CONSTANTS
  t1 = t1
  t2 = t2
  h1 = h1
  h2 = h2
  b1 = b1
  b2 = b2
  b3 = b3
  NULL = NULL
  Absent = Absent
  Threads <- MCThreads
  Handles <- MCHandles
  Bos <- MCBos
  Usages <- MCUsages
  MaxLocks = 2
  MaxOpens = 1
SYMMETRY MCSymmetry
PROPERTY
  UnregisterLocalIsNoOp
CHECK_DEADLOCK FALSE
