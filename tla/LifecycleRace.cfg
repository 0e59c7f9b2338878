SPECIFICATION Spec
CONSTANTS
  Streams <- OneStream
  Handlers <- TwoHandlers
  StreamId <- TwoIds
  MaxStreams = 2
  Apps = {a1, a2}
  Habits <- NoHabits
  MaxFrames <- OneFrame
  None = None
INVARIANTS
  ClosedFirst
CHECK_DEADLOCK FALSE
