SPECIFICATION ElectionSpec
CONSTANTS
  Server = {s1, s2, s3}
  None = None
  Value = {}
  Noop = Noop
  ConfChange = ConfChange
  UninitPending = {0}
  MaxTerm = 2
  MaxIndex = 0
  MaxCampaigns = 3
CONSTRAINT FewCampaigns
SYMMETRY Symmetry
INVARIANTS TypeOK OneLeaderPerTerm ElectionInv
CHECK_DEADLOCK FALSE
