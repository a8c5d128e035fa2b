SPECIFICATION FairSpec
CONSTANTS
  t1 = t1
  t2 = t2
  s1 = s1
  s2 = s2
  p1 = p1
  p2 = p2
  speaker = speaker
  NULL = NULL
  Closed = Closed
  Threads <- MCThreads
  Streams <- MCStreams
  Pcms <- MCOnePcm
  Routes <- MCNoRoutes
  Chunks <- MCOneFrame
  KernelFrames = 1
  Mod = 2
  Orderly = TRUE
  MaxFrames = 1
PROPERTIES
  CallsReturn
CHECK_DEADLOCK FALSE
