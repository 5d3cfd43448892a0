SPECIFICATION Spec
CONSTANTS
  Replica = {w1, w2}
  Sweeper = {w1}
  Clone = {c1, c2, c3}
  Run = {r1}
  MaxReplicas = 1
  Slots = 1
  MaxFaults = 1
  MaxClicks = 1
  u1 = u1
  u2 = u2
  Socket = {1, 2}
  Watcher = {u1, u2}
  OwnerOf <- TwoOwners
  FirstOperators = {u2}
  RoomIds = {1, 2, 3, 4}
  MaxWatchChanges = 1
  MaxWatchFaults = 1
CHECK_DEADLOCK FALSE
INVARIANTS
  CapHolds
  RoomAgrees
PROPERTY QueuedRunIsServed
