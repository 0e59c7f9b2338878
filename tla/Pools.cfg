CONSTANTS
  Memories = {m1}
  Engines = {e1}
  MinThreads = 1
  MaxThreads = 3
  MaxQueue = 4
  OnceAdd = 2
  Width = 16
  MaxBatch = 5
  MaxBatches = 1
SPECIFICATION InferenceSpec
INVARIANTS
  
  MemoryConserved
  PictureConserved
  CrashCauses
PROPERTY DestroyReturns
CHECK_DEADLOCK FALSE
