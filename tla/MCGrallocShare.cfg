SPECIFICATION Spec
CONSTANTS
  a = a
  c = c
  m1 = m1
  NULL = NULL
  Allocator = a
  Clients <- MCClients
  Mems <- MCMems
  Pads <- MCPads
  Descriptions <- MCDescriptions
  LockUsages <- MCLockUsages
  FdMayFail <- MCFdMayFail
  MaxSent = 1
INVARIANTS
  TypeOK
  HandlesDescribeMemory
  MemoryIsReturned
  PixelsInMemory
  MapCoversLock
  CpuSeesRows
PROPERTIES
  ImplementsSharedMemory
CHECK_DEADLOCK FALSE
