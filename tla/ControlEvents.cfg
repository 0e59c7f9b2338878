SPECIFICATION Spec
CONSTANTS
  Graphs <- OneGraph
  Callers = {"source"}
  MaxStarts = 1
  Posts = 1
  MaxWatchers = 1
  Updates = 1
INVARIANT InformedOfPosted
CHECK_DEADLOCK FALSE
