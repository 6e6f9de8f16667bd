SPECIFICATION RecoveringSpec
CONSTANTS
  clusterSize = 3
  ClientCount = 2
  CommandCount = 2
  Outages <- LeadersOrAll
  MaxFaults = 2
INVARIANTS
  TypeOK
  TurnsExclude
  
  LogFollowsTurns
  ClientOrder
  ExactlyOnce
  NothingSkipped
PROPERTIES
  EveryClientFinishes
CHECK_DEADLOCK FALSE
