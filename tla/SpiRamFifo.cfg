SPECIFICATION FairSpec
CONSTANTS
  SPIRAMSIZE = 4
  SPIREADSIZE = 2
  MaxLen = 3
  MaxSent = 7
INVARIANTS
  TypeOK
  FillIsDistance
  PiecesFit
  NoUnderrun
PROPERTIES
  ImplementsQueue
  FullWriterWakes
CHECK_DEADLOCK FALSE
