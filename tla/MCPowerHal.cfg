SPECIFICATION FairSpec
CONSTANTS
  c1 = c1
  c2 = c2
  Clients <- MCClients
  BoostTime = 2
  Horizon = 7
  MaxDeaths = 1
  Thread = Thread
  NULL = NULL
INVARIANTS
  TypeOK
  WakeupNotLost
  TokensBounded
  FileFollowsDeadline
PROPERTIES
  NoEarlyDeboost
  ImplementsBoost
  BoostEnds
  HintsReturn
CHECK_DEADLOCK FALSE
