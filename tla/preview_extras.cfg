SPECIFICATION SyncSpec
CONSTANTS
  Pairs <- AllPairs
  Databases <- SomeDatabases
  MaxTroubles = 1
  MaxId = 1
CHECK_DEADLOCK FALSE
INVARIANT ExtrasUntouched
