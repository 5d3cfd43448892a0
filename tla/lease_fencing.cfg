SPECIFICATION Spec
CONSTANTS
  Host = {h1}
  NRuns = 1
  db = db
  Target <- OneTarget
  NoTarget = NoTarget
  NoHost = NoHost
  Slots = 1
  Lease = 2
  Margin = 1
  Check = 2
  Ends = {"succeeded"}
  Cancelled = {}
  Beat = {b1, b2}
  MaxDelay = 1
  MaxFaults = 1
  MaxDeaths = 1
SYMMETRY BeatSymmetry
INVARIANTS
  IInv
  FencedInTime
PROPERTY
  LaunchOnlyHeld
