SPECIFICATION SnapshotSpec
CONSTANTS
  Terms = {1, 2}
  MaxIndex = 4
INVARIANT LastIndexIsLast
CHECK_DEADLOCK FALSE
