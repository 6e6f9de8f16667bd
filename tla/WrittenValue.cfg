SPECIFICATION Spec
CONSTANTS
  clusterSize = 3
  v1 = v1
  v2 = v2
  Value <- MCValue
  NoValue = NoValue
  Proposers <- OneProposer
  NodeStatus <- NoStatus
  RoundDuration = 1
  MaxClock = 1
INVARIANT WrittenIsAccepted
CHECK_DEADLOCK FALSE
