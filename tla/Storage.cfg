SPECIFICATION StorageSpec
CONSTANTS
  Terms = {1, 2}
  MaxIndex = 4
INVARIANT RecoversAll
PROPERTY ImplementsStableLog
CHECK_DEADLOCK FALSE
