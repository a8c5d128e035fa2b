SPECIFICATION Spec
CONSTANTS
  t1 = t1
  t2 = t2
  s1 = s1
  s2 = s2
  p1 = p1
  p2 = p2
  speaker = speaker
  NULL = NULL
  Closed = Closed
  Threads <- MCThreads
  Streams <- MCOneStream
  Pcms <- MCPcms
  Routes <- MCRoutes
  Chunks <- MCFrames
  KernelFrames = 2
  Mod = 8
  Orderly = TRUE
  MaxFrames = 10
SYMMETRY MCSymmetry
INVARIANTS
  PositionNotAhead
PROPERTIES
  PositionGoesOn
CHECK_DEADLOCK FALSE
