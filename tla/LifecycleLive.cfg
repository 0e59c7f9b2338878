SPECIFICATION FairSpec
CONSTANTS
  Streams <- OneStream
  Handlers <- TwoHandlers
  StreamId <- TwoIds
  MaxStreams = 2
  Apps = {a1}
  Habits <- EveryHabit
  MaxFrames <- TwoFrames
  None = None
INVARIANT
  RunningIsMapped
PROPERTY
  RemovalReturns
CHECK_DEADLOCK FALSE
