SPECIFICATION FairSpec
CONSTANTS
  Host = {h1}
  NRuns = 1
  db = db
  Target <- OneTarget
  NoTarget = NoTarget
  NoHost = NoHost
  Slots = 1
  Lease = 3
  Margin = 1
  Check = 1
  Ends = {"cancelled"}
  Cancelled = {1}
  Beat = {b1}
  MaxDelay = 1
  MaxFaults = 0
  MaxDeaths = 1
PROPERTY
  RunsSettle
