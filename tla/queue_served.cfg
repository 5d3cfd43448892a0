SPECIFICATION FairFiniteSpec
CONSTANTS
  Host = {h1}
  NRuns = 2
  db = db
  Target <- OneTarget
  NoTarget = NoTarget
  NoHost = NoHost
  Slots = 1
  Lease = 1
  Margin = 0
  Check = 1
  Ends = {"succeeded"}
  Cancelled = {}
  Beat = {b1}
  MaxDelay = 0
  MaxFaults = 0
  MaxDeaths = 0
PROPERTY
  EveryRunSettles
