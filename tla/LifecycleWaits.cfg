SPECIFICATION Spec
CONSTANTS
  Streams <- OneStream
  Handlers <- TwoHandlers
  StreamId <- TwoIds
  MaxStreams = 2
  Apps = {a1}
  Habits <- Unforced
  MaxFrames <- OneFrame
  None = None
INVARIANTS
  AlwaysWaits
CHECK_DEADLOCK FALSE
