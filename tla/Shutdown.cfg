SPECIFICATION FairSpec
CONSTANTS
  clusterSize = 3
INVARIANTS
  TypeOK
  RingStaysOpen
  LeavesNobodyRunning
PROPERTIES
  EveryNodeExits
CHECK_DEADLOCK FALSE
