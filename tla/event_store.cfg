SPECIFICATION Spec
CONSTANTS
  Script <- OneTable
  MaxLogs = 1
  Faulty = {"journal"}
  MaxFaults = 1
  MaxDeaths = 1
  Cancels = TRUE
CHECK_DEADLOCK FALSE
INVARIANTS
  NoGap
  ExplainedOutcome
PROPERTIES
  ImplementsLog
