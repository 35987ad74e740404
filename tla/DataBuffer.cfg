SPECIFICATION FairSpec
CONSTANTS
  NUMBER_OF_BUFFER = 3
  LENGTH_OF_BUFFER = 2
  MaxSize = 3
  MaxSent = 8
INVARIANTS
  TypeOK
  RingContiguous
  NoMutualSpin
  NoSharedBlock
  CopiesStayInBlock
  FifoUnlessClobbered
  CopiesWithinRequest
PROPERTIES
  ImplementsRing
  WriteCompletes
  BlocksDrain
CHECK_DEADLOCK FALSE
