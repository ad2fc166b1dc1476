SPECIFICATION AllSpec
CONSTANTS
  Server = {s1, s2, s3}
  None = None
  Value = {v}
  Noop = Noop
  ConfChange = ConfChange
  UninitPending = {0}
  MaxTerm = 3
  MaxIndex = 2
  Schedules <- AllSchedules
  Through <- GroupThrough
INVARIANTS LogMatching LeaderCompleteness StateMachineSafety
INVARIANTS CommittedOnMajority MatchIsReplicated
PROPERTIES CommittedIsStable HandoverComplete
CHECK_DEADLOCK FALSE
