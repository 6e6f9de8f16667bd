SPECIFICATION FairSpec
CONSTANTS
  clusterSize = 4
  ELECTION_WAIT_DURATION = 2
  TIMEOUT_DURATION = 1
  DetectionSkew = 1
  StartSkew = 0
  Crashable <- LastNode
  CrashMidway = TRUE
ACTION_CONSTRAINTS
  CrashInAWait
  FirstRestart
INVARIANTS
  TypeOK
  OnlyHighestDeclares
  HighestWins
  AliveFlagIsCleared
PROPERTIES
  LeaderElected
CHECK_DEADLOCK FALSE
