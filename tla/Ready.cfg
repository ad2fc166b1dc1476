SPECIFICATION ScheduledFairSpec
CONSTANTS
  s1 = s1
  s2 = s2
  s3 = s3
  Server = {s1, s2, s3}
  Watched = {s1}
  None = None
  Value = {v}
  Noop = Noop
  ConfChange = ConfChange
  UninitPending = {0}
  MaxTerm = 2
  MaxIndex = 2
  MaxCrashes = 1
  SavesHardState = TRUE
  KeepsMachine = TRUE
  Interleaves = FALSE
  Schedules <- RawSchedules
  Through <- RawThrough
INVARIANTS StabledIsPersisted AcksAreDurable AppliedOnceInOrder OneLeaderPerTerm
PROPERTY CommittedIsApplied
CHECK_DEADLOCK FALSE
