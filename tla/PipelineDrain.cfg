SPECIFICATION Spec
CONSTANTS
  Modules <- DiamondModules
  Links <- DiamondLinks
  Streams <- OneStream
  Origin <- OneOrigin
  StreamIndex <- OneIndex
  Parallelism <- DiamondParallelism
  Capacity <- DiamondCapacity
  Rank <- DiamondRank
  Visit <- DiamondRank
  LastFrame <- TwoFrames
  MaxStarts = 1
  None = None
INVARIANT
  ConveyorsEmptyAfterStop
CHECK_DEADLOCK FALSE
