SPECIFICATION StorageSpec
CONSTANTS
  Terms = {1, 2}
  MaxIndex = 4
INVARIANT NeverBlocked
CHECK_DEADLOCK FALSE
