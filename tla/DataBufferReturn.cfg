SPECIFICATION Spec
CONSTANTS
  NUMBER_OF_BUFFER = 2
  LENGTH_OF_BUFFER = 2
  MaxSize = 3
  MaxSent = 5
INVARIANTS
  ReturnsWhatWasAsked
CHECK_DEADLOCK FALSE
