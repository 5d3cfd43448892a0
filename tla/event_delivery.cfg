SPECIFICATION FairSpec
CONSTANTS
  Script <- OneTable
  MaxLogs = 1
  Faulty = {"write", "read", "journal"}
  MaxFaults = 1
  MaxDeaths = 1
  Cancels = FALSE
CHECK_DEADLOCK FALSE
INVARIANTS
  SettledIsIdle
PROPERTIES
  RunIsRecorded
