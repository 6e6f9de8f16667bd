SPECIFICATION FairSpec
CONSTANTS
  clusterSize = 3
  Leader <- SecondLastNode
  TIMEOUT_DURATION = 1
  RECOVERY_DURATION = 3
  LoopsPerSecond = 2
  Crashable <- Followers
  MaxCrashes = 2
  MaxClients = 0
  MaxRecoveries = 2
PROPERTIES
  Readmitted
