SPECIFICATION MCSpec
CONSTANTS
  Server = {s1, s2, s3}
  s1 = s1
  s2 = s2
  s3 = s3
  None = None
  Value = {v}
  v = v
  Noop = Noop
  ConfChange = ConfChange
  UninitPending = {0}
  MaxTerm = 2
  MaxIndex = 3
  Node = s3
  Changes <- Removals
  Schedules <- TwoPairs
INVARIANTS NoNullProgress
CHECK_DEADLOCK FALSE
