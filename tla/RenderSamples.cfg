SPECIFICATION FairSpec
CONSTANTS
  Half = 16
  dma_buf_count = 3
  dma_buf_len = 2
  Formats <- StereoFormats
  MaxFrames = 2
  MaxSamples = 18
INVARIANTS
  TypeOK
  HeardInOrder
  QueueIsRecent
PROPERTIES
  FullMeansUnderflow
  RenderReturns
CHECK_DEADLOCK FALSE
