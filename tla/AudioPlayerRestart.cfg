SPECIFICATION PlayerFairSpec
CONSTANTS
  SPIRAMSIZE = 4
  SPIREADSIZE = 2
  MaxLen = 2
  MaxSent = 8
  RenderLength = 2
  CreateMayFail = FALSE
PROPERTIES
  DecoderIsStarted
CHECK_DEADLOCK FALSE
