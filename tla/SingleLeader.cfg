SPECIFICATION Spec
CONSTANTS
  clusterSize = 3
  v1 = v1
  v2 = v2
  Value <- MCValue
  NoValue = NoValue
  Leader <- LastNode
  Proposers <- OnlyLast
  NodeStatus <- Suspecting
  RoundDuration = 1
  MaxClock = 1
SYMMETRY ValueSymmetry
CONSTRAINTS
  OnlyLeaderLinks
  FirstLinkFirst
INVARIANTS
  FollowersArePrefixes
  PromisesCounted
  LinesInTransit
PROPERTIES
  ImplementsReplicatedLog
CHECK_DEADLOCK FALSE
