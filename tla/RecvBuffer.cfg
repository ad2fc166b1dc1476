SPECIFICATION FairSpec
CONSTANTS
  Size = 8
  Need = 6
  MaxBytes = 16
CHECK_DEADLOCK FALSE
INVARIANTS DatumIsNext AssertsHold
PROPERTIES ImplementsByteStream RequestsReachParser
