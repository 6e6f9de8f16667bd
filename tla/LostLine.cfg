SPECIFICATION Spec
CONSTANTS
  clusterSize = 3
  ClientCount = 2
  CommandCount = 1
  Outages <- LeaderOnly
  MaxFaults = 1
INVARIANTS
  CommandsAreReplicated
CHECK_DEADLOCK FALSE
