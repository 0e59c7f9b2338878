SPECIFICATION Spec
CONSTANTS
  Modules <- JoinModules
  Links <- JoinLinks
  Streams <- TwoStreams
  Origin <- TwoOrigins
  StreamIndex <- TwoIndices
  Parallelism <- JoinParallelism
  Capacity <- JoinCapacity
  Rank <- JoinRank
  Visit <- JoinRank
  LastFrame <- TwoAndOne
  MaxStarts = 1
  None = None
INVARIANTS
  EosMsgIsLast
PROPERTY
  ImplementsFlow
CHECK_DEADLOCK FALSE
