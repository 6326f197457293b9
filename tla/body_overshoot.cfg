SPECIFICATION FairSpec
CONSTANTS
  SizeMod = 32
  Lengths <- PositiveLengths
  MaxBody = 7
  Chunk = 3
PROPERTIES
  AllReadIsHandled
CHECK_DEADLOCK FALSE
