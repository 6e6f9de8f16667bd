SPECIFICATION Spec
CONSTANTS
  clusterSize = 3
  v1 = v1
  v2 = v2
  Value <- OneValue
  NoValue = NoValue
  Proposers <- TwoProposers
  NodeStatus <- NoStatus
  RoundDuration = 2
  MaxClock = 1
CONSTRAINT SecondDrawsHigher
INVARIANTS
  PromisesCounted
  MajorityPromised
  ProposerWritesFirst
  NoRoundIsRefused
CHECK_DEADLOCK FALSE
