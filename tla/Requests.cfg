SPECIFICATION FairSpec
CONSTANTS
  Request <- MCRequest
  Size <- MCSize
  MaxRequests = 3
INVARIANTS ExecutedAsSent GetsAreAnswered
PROPERTIES AllAnswered
CHECK_DEADLOCK FALSE
