SPECIFICATION Spec
CONSTANTS
  Half = 8
  dma_buf_count = 3
  dma_buf_len = 2
  Formats <- MonoFormat
  MaxFrames = 3
  MaxSamples = 6
INVARIANTS
  ReadsStayInBuffer
CHECK_DEADLOCK FALSE
