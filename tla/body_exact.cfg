SPECIFICATION FairSpec
CONSTANTS
  SizeMod = 32
  Lengths <- MCLengths
  MaxBody = 7
  Chunk = 3
INVARIANTS
  TypeOK
  ExactBody
PROPERTIES
  CompleteIsHandled
CHECK_DEADLOCK FALSE
