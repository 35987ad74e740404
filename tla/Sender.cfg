SPECIFICATION FairSpec
CONSTANTS
  Pieces = 2
  MaxFrames = 4
INVARIANTS
  TornIsAnnounced
  LostIsAnnounced
PROPERTIES
  FrameIsPickedUp
  ThreadStartIsSeen
CHECK_DEADLOCK FALSE
