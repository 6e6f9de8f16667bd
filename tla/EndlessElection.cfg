SPECIFICATION FairSpec
CONSTANTS
  clusterSize = 3
  ELECTION_WAIT_DURATION = 2
  TIMEOUT_DURATION = 1
  DetectionSkew = 1
  StartSkew = 0
  Crashable <- Everybody
  CrashMidway = TRUE
PROPERTIES ElectionsEnd
CHECK_DEADLOCK FALSE
