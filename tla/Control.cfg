SPECIFICATION FairSpec
CONSTANTS
  Graphs <- ControlGraphs
  Callers = {"source"}
  MaxStarts = 2
  Posts = 1
  MaxWatchers = 2
  Updates = 1
INVARIANTS
  ControlTypeOK
  QuietWhenStopped
  RunningIsWhole
  NoCallIntoDestroyed
PROPERTIES
  StopReturns
  DestroyReturns
CHECK_DEADLOCK FALSE
