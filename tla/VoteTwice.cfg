SPECIFICATION ElectionSpec
CONSTANTS
  Server = {s1, s2, s3}
  None = None
  Value = {}
  Noop = Noop
  ConfChange = ConfChange
  UninitPending = {0}
  MaxTerm = 1
  MaxIndex = 0
  MaxCampaigns = 2
CONSTRAINT FewCampaigns
SYMMETRY Symmetry
INVARIANT VoteOncePerTerm
CHECK_DEADLOCK FALSE
