SPECIFICATION FairSpec
CONSTANTS
  clusterSize = 3
  v1 = v1
  v2 = v2
  Value <- OneValue
  NoValue = NoValue
  Leader <- LastNode
  Proposers <- OnlyLast
  NodeStatus <- Suspecting
  RoundDuration = 1
  MaxClock = 0
INVARIANT TypeOK
PROPERTIES
  EveryLineIsCopied
  EveryRoundEnds
CHECK_DEADLOCK FALSE
