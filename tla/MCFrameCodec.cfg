CONSTANTS
  Pdcs <- MCPdcs
  Feeds <- MCFeeds
  BufferSize = 4096
SPECIFICATION Spec
INVARIANTS
  CodecInv
  ReaderInStep
  NothingRejected
  FrameSizeCorrect
PROPERTIES
  ReadBack
CHECK_DEADLOCK FALSE
