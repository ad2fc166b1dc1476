SPECIFICATION FairSpec
CONSTANTS
  c1 = c1
  c2 = c2
  Conn = {c1, c2}
  Slow = {c1}
  Silent = {c2}
  Parts = 2
  Capacity = 3
  MaxPieces = 4

PROPERTIES AlwaysReleased
CHECK_DEADLOCK FALSE
