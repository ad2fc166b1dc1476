SPECIFICATION PSpec
CONSTANTS
  s1 = s1
  s2 = s2
  s3 = s3
  s4 = s4
  s5 = s5
  Server = {s1, s2, s3, s4, s5}
  None = None
  Value = {v}
  Noop = Noop
  ConfChange = ConfChange
  UninitPending = {0}
  MaxTerm = 3
  MaxIndex = 2
  Schedules <- Comeback
  Through <- ComebackThrough
INVARIANT CommittedOnMajority
CHECK_DEADLOCK FALSE
