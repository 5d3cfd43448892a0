SPECIFICATION Spec
CONSTANTS
  Browser = {b1}
  MaxSeq = 3
  Limit = 2
  Logs = {2}
  MaxFaults = 3
  Kinds = {"link", "read", "rest", "drop", "role", "silent", "push"}
  Copied = {t1}
  MaxSamples = 2
  RecentEvents = 5
  MaxSurprises = 1
  Ids = {1, 2, 3}
  PageSize = 1
  Micros = 2
  Instants = 2
CHECK_DEADLOCK FALSE
INVARIANTS
  NoServerGap
  ViewAgrees
  PagesMeet
PROPERTIES
  EventuallyCurrent
  DemotionTakesEffect
