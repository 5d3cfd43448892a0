SPECIFICATION Spec
CONSTANTS
  Host = {h1, h2}
  NRuns = 2
  db = db
  Target <- OneTarget
  NoTarget = NoTarget
  NoHost = NoHost
  Slots = 1
  Lease = 1
  Margin = 0
  Check = 1
  Ends = {"succeeded"}
  Cancelled = {}
  Beat = {}
  MaxDelay = 0
  MaxFaults = 0
  MaxDeaths = 1
SYMMETRY HostSymmetry
INVARIANTS
  OneActivePerDestination
  SingleWriter
PROPERTY
  ImplementsLock
