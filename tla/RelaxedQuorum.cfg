SPECIFICATION Spec
CONSTANTS
  Server = {s1, s2}
  None = None
  Value = {}
  Noop = Noop
  ConfChange = ConfChange
  UninitPending = {0}
  MaxTerm = 1
  MaxIndex = 3
  MaxCampaigns = 1
CONSTRAINT FewCampaigns
SYMMETRY Symmetry
INVARIANT CommittedOnMajority
CHECK_DEADLOCK FALSE
