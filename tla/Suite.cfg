CONSTANTS
  Parts = {"inference", "loader", "sample", "profiler", "tracer", "detection", "tiler", "scaler",
           "file", "parameters", "objects", "ids"}
  Memories = {m1}
  Engines = {e1}
  MinThreads = 1
  MaxThreads = 3
  MaxQueue = 1
  OnceAdd = 2
  Width = 16
  MaxBatch = 4
  MaxBatches = 1
  Starts = 3
  ConveyorCapacity = 1
  ModulesSkip <- MCModulesSkip
  FaceCounts = {0, 2}
  MaxFrames <- MCMaxFrames
  MaxDpb = 1
  Reorder = 1
  Frames <- MCFrames
  TraceCapacity = 2
  Writers = {w1, w2}
  LapMask = 7
  MaxEvents = 5
  Networks = {"net3", "net3a", "ssh"}
  NetSize = 32
  ImageSizes <- MCImageSizes
  Cells <- MCCells
  Scores = {0, 1, 2, 3}
  Batches <- MCBatches
  Threshold = 0
  NmsPercent = 40
  Labels = {0, 15}
  Dataset <- MCDataset
  Neighbours = 3
  Tickets = 2
  Threads = {t1, t2, t3}
  Grids = 2
  MaxBuffers = 3
  MaxPictures = 3
  Tilings <- MCTilings
  Canvases <- MCCanvases
  SourceSizes = {4, 5}
  TargetSizes = {2, 4, 7}
  MaxUses = 2
  Wrap = 256
  Files <- MCFiles
  Factories <- MCFactories
  Registers <- MCRegisters
  ParamSets <- MCParamSets
  MaxInspections = 2
  Keys = {"k"}
  Values = {"v1", "v2"}
  Heights = {1, 2, 3, 4}
  NoValue = "unset"
  Pipelines = {1, 2}
  Nobody = 0
  MaxModules = 2
  Uninitialised <- MCUninitialised
SPECIFICATION SuiteSpec
INVARIANTS
  EndsForCause
  LabelsOfFaces
  ProfileAccounts
  TraceReads
  DetectionsStand
  ConfigurationStands
  PicturesStand
PROPERTIES
  NetworkAnswers
  CapturedIsDrawn
CHECK_DEADLOCK FALSE
