SPECIFICATION Spec
CONSTANTS
  Jobs <- SmallJobs
  N = 3
  MaxWorkers = 2
  MaxFaults = 2
  Pairs <- AllPairs
  Databases <- SomeDatabases
  MaxTroubles = 1
  MaxId = 1
CHECK_DEADLOCK FALSE
INVARIANTS
  SuccessIsComplete
  ReportIsTrue
  PlanCarries
  TableToldOnce
  Converges
  KeepsShared
  ExplainedRefusal
  NextIdFree
  PreviewForetells
PROPERTIES
  RunEnds
