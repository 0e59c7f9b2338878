SPECIFICATION FairSpec
CONSTANTS
  Files <- ReadingFiles
  FlowDepth = 1
  Intervals = {1, 2}
  PixelFormats = {"YUV420P", "YUV444P"}
  Sessions = 2
  Rewinds = 1
INVARIANTS
  ReadingTypeOK
  LiveWithinUndercount
  UniqueTimestamps
PROPERTIES
  KeepsContract
  CloseReturns
CHECK_DEADLOCK FALSE
