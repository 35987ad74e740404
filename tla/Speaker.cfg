CONSTANTS
  MAX_SOCKETS = 2
  NUMBER_OF_BUFFER = 3
  MaxThreads = 2
  MaxPlayers = 2
  CORES = 2
SPECIFICATION SpeakerSpec
INVARIANTS
  SpeakerTypeOK
  ServedByOne
  SignalledWhenUp
PROPERTIES
  ClientIsAnswered
  BrokenIsReleased
  TriesAgain
