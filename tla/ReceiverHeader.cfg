SPECIFICATION ReceiverSpec
CONSTANTS
  NUMBER_OF_BUFFER = 3
  LENGTH_OF_BUFFER = 2
  MaxSize = 2
  MaxSent = 7
  MaxRecv = 2
  HeaderLength = 1
  CreateMayFail = FALSE
  Stream <- HeaderAndData
INVARIANTS
  HeaderIsRead
CHECK_DEADLOCK FALSE
