SPECIFICATION FairSpec
CONSTANTS
  Modules <- DiamondModules
  Links <- DiamondLinks
  Streams <- OneStream
  Origin <- OneOrigin
  StreamIndex <- OneIndex
  Parallelism <- DiamondParallelism
  Capacity <- DiamondCapacity
  Rank <- DiamondRank
  Visit <- DiamondRank
  LastFrame <- TwoFrames
  MaxStarts = 2
  None = None
INVARIANTS
  TypeOK
  OnlyCompleteFramesArrive
  DataInv
PROPERTIES
  ImplementsFlow
  StopTerminates
  EosGetsThrough
CHECK_DEADLOCK FALSE
