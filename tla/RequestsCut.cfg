SPECIFICATION FairSpec
CONSTANTS
  Request <- MCRequest
  Size <- MCSize
  MaxRequests = 1

PROPERTIES CutIsAnswered
CHECK_DEADLOCK FALSE
