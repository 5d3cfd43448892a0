SPECIFICATION Spec
CONSTANTS
  Asker = {a1, a2}
  ProbeSlots = 1
  Wait = 2
  Grace = 3
  Recheck = 2
  Delay <- SlowFirst
  MaxProbeFaults = 1
  User = {u1, u2}
  Request = {q1, q2}
  MaxTokens = 2
  MaxRequests = 4
  Conn = {c1}
  Db = {d1, d2}
  Def = {m1}
  Pin = {d1}
  Launcher = {l1, l2}
  MaxConcurrentRuns = 1
  MaxRuns = 3
  MaxEdits = 2
  NoDb = NoDb
  NoConn = NoConn
  NoDef = NoDef
  Table = {t1, t2}
  MaxRows = 2
  MaxWrites = 1
  MaxStoreFaults = 1
  p1 = p1
  p2 = p2
  y1 = y1
  s1 = s1
  Endpoint = {p1, p2, y1, s1}
  EngineOf <- SomeEngines
  Planned = {"snowflake"}
  SavedMigration = {m1}
  MaxPicks = 3
  MaxReviewEdits = 1
  MaxComparisons = 3
INVARIANTS
  AnswersReachTheUser
  OrgKeepsAdmin
  AdmittedAsChecked
  StoredCountsAreTrue
  LaunchFollowsPreview
  UrlNamesResult
PROPERTIES
  NothingLeftBehind
  DeadTokenAdmitsNobody
  HistoryKept
CHECK_DEADLOCK FALSE
