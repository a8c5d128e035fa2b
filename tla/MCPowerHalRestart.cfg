SPECIFICATION Spec
CONSTANTS
  c1 = c1
  c2 = c2
  Clients <- MCClients
  BoostTime = 1
  Horizon = 4
  MaxDeaths = 1
  Thread = Thread
  NULL = NULL
SYMMETRY MCSymmetry
INVARIANT
  NormIsNormal
CHECK_DEADLOCK FALSE
