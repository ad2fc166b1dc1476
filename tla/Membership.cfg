SPECIFICATION MCSpec
CONSTANTS
  Server = {s1, s2, s3}
  None = None
  Value = {v}
  Noop = Noop
  ConfChange = ConfChange
  UninitPending = {0}
  MaxTerm = 3
  MaxIndex = 2
  Node = s3
  Changes <- AllChanges
  Schedules <- ThenElections
INVARIANTS OneLeaderPerTerm AloneCommitsAll
CHECK_DEADLOCK FALSE
