SPECIFICATION FairSpec
CONSTANTS
  Host = {h1}
  NRuns = 1
  db = db
  Target <- OneTarget
  NoTarget = NoTarget
  NoHost = NoHost
  Slots = 1
  Lease = 2
  Margin = 1
  Check = 1
  Ends = {"succeeded"}
  Cancelled = {}
  Beat = {b1}
  MaxDelay = 1
  MaxFaults = 0
  MaxDeaths = 0
PROPERTY
  LostRunSettles
