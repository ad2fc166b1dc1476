SPECIFICATION FairSpec
CONSTANTS
  Size = 4
  Lengths = {1, 2, 4}
  MaxPackets = 4
CHECK_DEADLOCK FALSE
INVARIANTS AssertsHold OnlyOverflowOvertakes
PROPERTIES ImplementsPacketChannel AllSent
