------------------------------- MODULE MCSuite -------------------------------
(***************************************************************************)
(* The components around the pipeline: part says which of those of a run   *)
(* moves, the others rest where they begin.  A network behind its pools    *)
(* (Inference), the file it is cached in, the samples, the profiler and    *)
(* its buffer of events, face detection, the Tiler, the Scaler, a          *)
(* configuration file, the parameters of a module, the ids of modules and  *)
(* what modules share of a frame.                                          *)
(***************************************************************************)
EXTENDS InferenceProperties, Profiling, TraceBuffer

CONSTANTS
  Parts,                                               \* the components that may move
  Starts,                                              \* ModelCache
  ModulesSkip, FaceCounts, MaxFrames,                  \* SampleRun
  Networks, NetSize, ImageSizes, Cells, Scores, Batches, Threshold, NmsPercent, Labels,
  Dataset, Neighbours, Tickets,                                 \* Detection
  Threads, Grids, MaxBuffers, MaxPictures, Tilings, Canvases, SourceSizes, TargetSizes, MaxUses,
  Wrap,                                                \* Canvas, and Configuration:
  Files, Factories, Registers, ParamSets, MaxInspections,
  Keys, Values, Heights, NoValue,                      \* FrameObjects
  Pipelines, Nobody, MaxModules, Uninitialised         \* ModuleIds

VARIABLES part,
  model, cache, process, loaded, context, buffers, starts, cut,
  sample, belts, stage, status, labels, models, is_running, quit, fault, captured, displayed,
  images, computed,
  canvas, blitters, buffered, pictures, newest, shown, uncounted, spoilt, source, target, uses,
  file, factory, read, built, graph, descs, values, accepted, given, inspections,
  attributes, extra, features, holder, picture, held, seen, drawn,
  ids, container, members, mask, alive, unset

Loader == INSTANCE ModelCache WITH engine <- loaded
Sample == INSTANCE SampleRun
  WITH Capacity <- ConveyorCapacity, conveyor <- belts, drawn <- displayed
Detector == INSTANCE Detection WITH given <- images
Pictures == INSTANCE Canvas
Config == INSTANCE Configuration
Objects == INSTANCE FrameObjects
  WITH Modules <- Threads, Labels <- Values, Sizes <- Heights, Unset <- NoValue
Ids == INSTANCE ModuleIds WITH Modules <- Threads

Components == {"inference", "loader", "sample", "profiler", "tracer", "detection", "tiler",
               "scaler", "file", "parameters", "objects", "ids"}

ASSUME SuiteAssumption ==
  /\ Parts \subseteq Components
  /\ Sample!SampleAssumption /\ Detector!DetectionAssumption /\ Pictures!CanvasAssumption
  /\ Config!ConfigurationAssumption /\ Objects!ObjectsAssumption /\ Ids!IdsAssumption

(* The networks skip every second frame; a stream of three packets comes   *)
(* back with one.                                                          *)
MCModulesSkip == [n \in {"fer", "etvh"} |-> 1]
MCFrames == <<3, 1>>

\* The second sample skips no network: two frames show what its threads do.
MCMaxFrames == <<3, 2>>

MCUninitialised == {-1, 0}

(* Neighbouring cells of the last feature map, a better anchor of a cell,  *)
(* a face at the border, and one of the first map.  Single images have all *)
(* outputs; a batch of two or three has a face of either map or of both.   *)
Cell(map, num, j, dx, grow) ==
  [map |-> map, num |-> num, j |-> j, dx |-> dx, dy |-> 0, grow |-> grow]
OfFirst == Cell(1, 0, 0, 0, 1)
AtBorder == Cell(3, 0, 15, 32, 1)
MCCells == {Cell(3, 0, 5, 0, 1), Cell(3, 0, 6, 0, 1), Cell(3, 1, 5, 0, 2), AtBorder, OfFirst}
MCImageSizes == {[cols |-> 20, rows |-> 10], [cols |-> 64, rows |-> 32], [cols |-> 48, rows |-> 96]}
MCOutputs == {output \in [Cells -> Scores] :
                \A c, d \in Cells : output[c] = output[d] /\ output[c] > Threshold => c = d}
FacesAt(cells) == [cell \in Cells |-> IF cell \notin cells THEN 0 ELSE IF cell = OfFirst THEN 1 ELSE 2]
TwoFaces == {FacesAt({OfFirst}), FacesAt({AtBorder}), FacesAt({OfFirst, AtBorder})}
MCBatches == [images : [1..1 -> ImageSizes], outputs : [1..1 -> MCOutputs]]
             \cup UNION {[images : [1..n -> ImageSizes], outputs : [1..n -> TwoFaces]] : n \in 2..3}
MCDataset == <<[distance |-> 1, label |-> 0], [distance |-> 2, label |-> 15],
               [distance |-> 3, label |-> 15]>>

TilingsOf(color, widths, heights) ==
  [color : {color}, width : widths, height : heights, cols : 1..3, rows : 1..3]
\* One that is never spoilt, one that may be, one that is never drawn in.
MCCanvases == {[color |-> "BGR", size |-> 4], [color |-> "NV12", size |-> 4],
               [color |-> "BGRA", size |-> 4]}
MCTilings == TilingsOf("BGR", 3..7, 3..7) \cup TilingsOf("NV12", 4..8, {4, 5, 6, 8})

(* A source with two modules behind it and a join, each with what may be   *)
(* wrong with it: a number of threads, a queue size, a next_modules of the *)
(* wrong type, a cycle, an unknown module, a name given twice.             *)
Uint(n) == [kind |-> "uint", of |-> n]
String(s) == [kind |-> "string", of |-> s]
Array(s) == [kind |-> "array", of |-> s]
Object(o) == [kind |-> "object", of |-> o]
Absent == [kind |-> "absent", of |-> 0]
Item(name, value) == [name |-> name, value |-> value]
ModuleItem(name, class, threads, size, next) ==
  Item(name, Object([class_name |-> class, parallelism |-> threads,
                     max_input_queue_size |-> size, next_modules |-> next,
                     custom_params |-> Absent]))
Inner == String("Inner")
Plain(name, next) == ModuleItem(name, Inner, Absent, Absent, next)
SourceItems == {ModuleItem("s", String("easysa::DataSource"), threads, Absent,
                           Array(<<String("a"), String("b")>>)) : threads \in {Uint(0), Uint(1), Uint(255)}}
InnerItems == {ModuleItem("a", class, threads, size, next) :
                 class \in {Inner, Absent}, threads \in {Absent, Uint(2), Uint(0)},
                 size \in {Absent, Uint(0)},
                 next \in {Absent, String("c"), Array(<<String("c")>>),
                           Array(<<String("b"), String("c")>>)}}
OtherItems == {Plain("b", Absent), Plain("b", Array(<<String("c")>>)), Plain("a", Absent)}
LastItems == {Plain("c", Absent), Plain("c", Array(<<String("a")>>)),
              Plain("c", Array(<<String("z")>>)), Item("c", Uint(1))}
ProfilerFile(member) ==
  <<Item("profiler_config",
         Object(<<Item("enable_tracing", [kind |-> "bool", of |-> TRUE]), member>>))>>
Described(name, default, must, type) ==
  [name |-> name, default |-> default, must |-> must, type |-> type]
Texts == {<<"5">>, <<"_", "5">>, <<"5", "_">>, <<"-", "1">>, <<"9", "9", "9">>, <<"true">>}
MCFiles ==
  {<<s, a, b, c>> : s \in SourceItems, a \in InnerItems, b \in OtherItems, c \in LastItems}
  \cup {ProfilerFile(Item("trace_event_capacity", Uint(9))), ProfilerFile(Item("depth", Uint(9))),
        <<Item("broken", [kind |-> "broken", of |-> <<>>])>>}
MCFactories == {{}, {"Inner", "easysa::DataSource"}}
MCRegisters ==
  {<<Described(<<"w">>, <<"1">>, FALSE, type), Described(<<"_", "d">>, <<"0">>, must, "int"),
     Described(<<>>, <<"0">>, FALSE, "int")>> :
       must \in BOOLEAN, type \in {"int", "uint", "bool", "string"}}
MCParamSets ==
  UNION {[names -> Texts] : names \in {{<<"w">>}, {<<"w">>, <<"d", "d">>}}}
  \cup {[name \in {<<"d", "d">>, <<other>>} |-> <<"5">>] :
          other \in {"easysa_dir", "json_file_dir"}}

(* A component that does not move begins in one of its states, in one that *)
(* fairness does not make leave.                                           *)
SuiteInit ==
  /\ part \in Parts
  /\ Started /\ crash = IF part = "inference" THEN "none" ELSE "join"
  /\ IF part = "loader" THEN TRUE ELSE model = "good"
  /\ Loader!LoaderInit
  /\ IF part = "sample" THEN fault = FALSE ELSE fault = TRUE /\ sample = 1
  /\ Sample!SampleStarted
  /\ ProfilingInit /\ TraceInit
  /\ IF part = "detection" THEN Detector!Init ELSE images = <<>> /\ computed = <<>>
  /\ IF part = "scaler" THEN TRUE
     ELSE source = [width |-> 4, height |-> 4, color |-> "BGR", layout |-> "BGR", continus |-> FALSE]
  /\ Pictures!TilerInit /\ (part = "tiler" \/ canvas.color = "BGR")
  /\ Pictures!ScalerInit
  /\ IF part = "file" THEN TRUE ELSE file = Config!BrokenFile /\ factory = {}
  /\ IF part = "parameters" THEN TRUE ELSE descs = {}
  /\ Config!BuildInit
  /\ IF part = "parameters" THEN Config!ParamInit
     ELSE values = <<>> /\ accepted = FALSE /\ given = <<>> /\ inspections = 0
  /\ Objects!ObjectInit
  /\ IF part = "ids" THEN TRUE ELSE ids = [m \in Threads |-> 0]
  /\ Ids!IdsInit

loaderVars == <<model, cache, process, loaded, context, buffers, starts, cut>>
sampleVars == <<sample, belts, stage, status, labels, models, is_running, quit, fault, captured,
                displayed>>
detectionVars == <<images, computed>>
pictureVars == <<canvas, blitters, buffered, pictures, newest, shown, uncounted, spoilt, source,
                 target, uses>>
buildVars == <<file, factory, read, built, graph>>
paramVars == <<descs, values, accepted, given, inspections>>
objectVars == <<attributes, extra, features, holder, picture, held, seen, drawn>>
idVars == <<ids, container, members, mask, alive, unset>>
suiteVars == <<part, inferenceVars, loaderVars, sampleVars, profilingVars, traceVars,
               detectionVars, pictureVars, buildVars, paramVars, objectVars, idVars>>

Alone(p) ==
  /\ UNCHANGED part
  /\ IF p = "inference" THEN TRUE ELSE UNCHANGED inferenceVars
  /\ IF p = "loader" THEN TRUE ELSE UNCHANGED loaderVars
  /\ IF p = "sample" THEN TRUE ELSE UNCHANGED sampleVars
  /\ IF p = "profiler" THEN TRUE ELSE UNCHANGED profilingVars
  /\ IF p = "tracer" THEN TRUE ELSE UNCHANGED traceVars
  /\ IF p = "detection" THEN TRUE ELSE UNCHANGED detectionVars
  /\ IF p \in {"tiler", "scaler"} THEN TRUE ELSE UNCHANGED pictureVars
  /\ IF p = "file" THEN TRUE ELSE UNCHANGED buildVars
  /\ IF p = "parameters" THEN TRUE ELSE UNCHANGED paramVars
  /\ IF p = "objects" THEN TRUE ELSE UNCHANGED objectVars
  /\ IF p = "ids" THEN TRUE ELSE UNCHANGED idVars

SuiteNext ==
  \/ part = "inference" /\ InferenceNext /\ Alone("inference")
  \/ part = "loader" /\ Loader!LoaderNext /\ Alone("loader")
  \/ part = "sample" /\ Sample!SampleNext /\ Alone("sample")
  \/ part = "profiler" /\ ProfilingNext /\ Alone("profiler")
  \/ part = "tracer" /\ TraceNext /\ Alone("tracer")
  \/ part = "detection" /\ Detector!Next /\ Alone("detection")
  \/ part = "tiler" /\ Pictures!CanvasNext /\ Alone("tiler")
  \/ part = "scaler" /\ Pictures!Use /\ Alone("scaler")
  \/ part = "file" /\ Config!BuildPipelineByJSONFile /\ Alone("file")
  \/ part = "parameters" /\ Config!ParamNext /\ Alone("parameters")
  \/ part = "objects" /\ Objects!ObjectNext /\ Alone("objects")
  \/ part = "ids" /\ Ids!IdsNext /\ Alone("ids")

SuiteSpec == SuiteInit /\ [][SuiteNext]_suiteVars /\ InferenceFairness /\ Sample!SampleFairness

-----------------------------------------------------------------------------
(* What keeps a network from loading or ends a sample is the cause the     *)
(* code admits: a network does not load only for its model or a cache cut  *)
(* short, a model is used after it was deleted only in a sample the user   *)
(* leaves.                                                                 *)
EndsForCause ==
  /\ Loader!LoaderFailsForCause
  /\ part = "sample" => Sample!ModelsOutlast

(* A batch that fits the pools is collected, and the destructor returns.   *)
NetworkAnswers == BatchFinishes /\ DestroyReturns

(* The labels drawn at a face are those the networks found for it, or kept *)
(* from one earlier face where the frame skips the network: see SampleRun. *)
LabelsOfFaces == Sample!LabelsOfFaces

(* Every frame captured is drawn unless the user leaves: see SampleRun.    *)
CapturedIsDrawn == Sample!CapturedIsDrawn

(* Boxes belong to their cell and anchor, the kept ones do not overlap,    *)
(* batches agree with single images, votes are counted: see Detection.     *)
DetectionsStand == part = "detection" => Detector!DetectionsStand

(* A pipeline is what its file says, its routes are complete, accepted     *)
(* parameters are those given, and the ids the routes are made of tell     *)
(* modules apart: see Configuration and ModuleIds.                         *)
ConfigurationStands == Config!ConfigurationStands /\ Ids!IdsTellApart

(* What modules show and share of a picture: the canvas that is shown is   *)
(* not drawn in and misses no picture, the Scaler keeps formats, the       *)
(* attributes and drawings of a frame stay: see Canvas and FrameObjects.   *)
PicturesStand ==
  /\ part \in {"tiler", "scaler"} => Pictures!CanvasShows
  /\ part = "objects" => Objects!ObjectsKept
=============================================================================
