SPECIFICATION PlayerFairSpec
CONSTANTS
  SPIRAMSIZE = 4
  SPIREADSIZE = 2
  MaxLen = 2
  MaxSent = 8
  RenderLength = 2
  CreateMayFail = TRUE
INVARIANTS
  ResetFindsToken
  StartsBeforeFull
PROPERTIES
  ConsumerWakes
CHECK_DEADLOCK FALSE
