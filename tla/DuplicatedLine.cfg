SPECIFICATION Spec
CONSTANTS
  clusterSize = 3
  Leader <- SecondLastNode
  TIMEOUT_DURATION = 1
  RECOVERY_DURATION = 3
  LoopsPerSecond = 2
  Crashable <- LastNode
  MaxCrashes = 2
  MaxClients = 1
  MaxRecoveries = 2
INVARIANTS
  AdmittedIsCurrent
