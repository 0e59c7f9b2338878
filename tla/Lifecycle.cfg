SPECIFICATION Spec
CONSTANTS
  Streams <- TwoStreams
  Handlers <- FourHandlers
  StreamId <- FourIds
  MaxStreams = 1
  Apps = {a1}
  Habits <- MixedHabits
  MaxFrames <- OneFrameOfS1
  None = None
INVARIANTS
  TypeOK
  ForcedRemoveWaits
  RefusedOnlyWhileRemoved
  ObjectInv
  UniqueIndex
CHECK_DEADLOCK FALSE
