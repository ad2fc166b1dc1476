SPECIFICATION SyncSpec
CONSTANTS
  leader = s1
  follower = s2
  Server = {s1, s2, s3}
  None = None
  Value = {}
  Noop = Noop
  ConfChange = ConfChange
  UninitPending = {0}
  MaxTerm = 4
  MaxIndex = 4
PROPERTY FollowerCatchesUp

