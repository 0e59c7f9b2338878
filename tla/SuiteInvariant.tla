--------------------------- MODULE SuiteInvariant ---------------------------
(***************************************************************************)
(* The inductive invariants of components of MCSuite: the loading of a     *)
(* network from its cache, the samples, the Tiler and the Scaler, what     *)
(* modules share of a frame, the ids of modules, the parameters of a       *)
(* module, the file a pipeline is built from, and face detection.          *)
(***************************************************************************)
EXTENDS MCSuite

(* A file that was not written to its end is being written, or the writing *)
(* was cut short.  A process that has gone on without an engine had no     *)
(* good model, or read such a file.                                        *)
NotForNothing == model # "good" \/ cut
LoaderInv ==
  /\ loaded \in BOOLEAN /\ context \in BOOLEAN /\ cut \in BOOLEAN
  /\ cache \in {"absent", "partial", "whole"}
  /\ cache = "partial" => cut \/ process = "writing"
  /\ process = "read" => cache # "absent"
  /\ process \in {"write", "writing"} => loaded
  /\ process = "context" => loaded \/ NotForNothing
  /\ process = "allocate" => context \/ NotForNothing
  /\ process = "failed" => NotForNothing

(* The models are there until the main thread has joined the first thread. *)
UserStays == quit \in {"drawing", "deleting"}
ModelsInv == part = "sample" /\ UserStays => models = Sample!Models /\ ~fault

-----------------------------------------------------------------------------
(* What a frame has when it leaves stage i: the faces found, and of each   *)
(* network behind it, unless the frame skips it, a result for each.        *)
RanAt(n) == IF sample = 1 THEN (IF n = "fer" THEN 3 ELSE 4) ELSE 3
Made(frame, i) ==
  /\ frame.number \in Nat /\ frame.faces \in Nat
  /\ sample = 2 => frame.skip = {}
  /\ \A n \in Sample!LabelNetworks :
       RanAt(n) <= i /\ n \notin frame.skip => frame.result[n] \in Sample!Results(frame.faces)

Frame == [number : Nat, skip : SUBSET Sample!LabelNetworks, faces : Nat,
          result : [Sample!LabelNetworks -> Seq(Nat)]]

BeltsInv ==
  /\ belts \in [1..Sample!Final -> Seq(Frame)]
  /\ \A i \in 1..Sample!Final : \A k \in DOMAIN belts[i] : Made(belts[i][k], i)
StagesInv ==
  /\ stage \in [1..Sample!Final ->
                [at : {"loop", "await", "process", "push", "finished"}, frame : Frame]]
  /\ \A i \in 1..Sample!Final :
       /\ stage[i].at = "process" => Made(stage[i].frame, i - 1)
       /\ stage[i].at = "push" => Made(stage[i].frame, i)
FramesInv == sample \in {1, 2} /\ captured \in Nat /\ BeltsInv /\ StagesInv

(* The members that hold the labels are those of the last face drawn that  *)
(* a network labelled.                                                     *)
Label == [Sample!LabelNetworks -> Seq(Nat)]
Drawn == [number : Nat, skip : SUBSET Sample!LabelNetworks, labels : Seq(Label)]

LabelledIn(all, n, d) == {e \in 1..d - 1 : n \notin all[e].skip /\ all[e].labels # <<>>}
IsLastIn(all, n, d, e) == e \in LabelledIn(all, n, d) /\ \A o \in LabelledIn(all, n, d) : o <= e
HaveLast(all, n) == \A d \in 1..Len(all) + 1 : \/ LabelledIn(all, n, d) = {}
                                               \/ \E e \in 1..Len(all) : IsLastIn(all, n, d, e)
LabelsInv ==
  /\ labels \in Label /\ displayed \in Seq(Drawn)
  /\ \A n \in Sample!LabelNetworks : HaveLast(displayed, n)
  /\ sample = 1 =>
       \A n \in Sample!LabelNetworks : labels[n] = Sample!LastLabelled(n, Len(displayed) + 1)

SamplesInv == FramesInv /\ LabelsInv /\ Sample!LabelsOfFaces

CausesInv == LoaderInv /\ ModelsInv /\ FramesInv

-----------------------------------------------------------------------------
(* While nothing was drawn on a locked canvas, both buffers are up to date *)
(* unless GetCanvas would notice.                                          *)
Drawing == [Pictures!Positions -> Nat \cup {Pictures!Spoilt}]
CanvasTypes == [buffers : [0..1 -> Drawing], index : 0..1, locked : BOOLEAN, differs : BOOLEAN,
                grid_buffer_count : Nat, color : Pictures!Colors, size : Nat]
TilerInv ==
  /\ canvas \in CanvasTypes
  /\ blitters \in [Threads -> {Pictures!Idle} \cup [position : Pictures!Positions, picture : Nat]]
  /\ pictures \in Nat /\ newest \in Drawing /\ {uncounted, spoilt} \subseteq BOOLEAN
  /\ IsFiniteSet(buffered) /\ Cardinality(buffered) <= canvas.grid_buffer_count
  /\ ~uncounted /\ ~canvas.differs => \A b \in 0..1 : Pictures!UpToDate(canvas.buffers[b])
  /\ Pictures!TilerShows

SourceOk ==
  /\ source \in [width : SourceSizes, height : SourceSizes, color : Pictures!Supported,
                 layout : Pictures!Supported \cup {Pictures!Scrambled}, continus : BOOLEAN]
  /\ source.layout # source.color => source.continus /\ source.color \in Pictures!YUV
ScalerInv ==
  /\ SourceOk /\ uses \in Nat
  /\ target.ok /\ target.from = source.color => target.layout = target.color
  /\ uses > 0 => (target.ok <=> target.color \in Pictures!Supported)

\* Everything read was there, and stays; a picture that is held has all that was drawn.
ObjectsInv ==
  /\ attributes \in [Keys -> Values \cup {NoValue}] /\ features \in [Keys -> Values \cup {NoValue}]
  /\ seen \subseteq {"attribute", "feature"} \X Keys \X Values
  /\ \A s \in seen :
       s[3] # NoValue /\ s[3] = IF s[1] = "attribute" THEN attributes[s[2]] ELSE features[s[2]]
  /\ picture \in {{}, {drawn}} /\ (picture = {} => held = {} /\ drawn = {})

\* A module without an id and a pipeline has none of the value it began with.
IdsInv ==
  /\ ids \in [Threads -> Uninitialised \cup Nat \cup {Ids!Invalid}]
  /\ container \in [Threads -> Pipelines \cup {Nobody}]
  /\ members \in [Pipelines -> SUBSET Threads] /\ mask \in [Pipelines -> SUBSET Nat]
  /\ alive \subseteq Threads \cup Pipelines /\ unset \subseteq Threads
  /\ \A p \in Pipelines : \A m \in members[p] : container[m] = p /\ ids[m] # Ids!Invalid
  /\ \A m \in Threads \ unset : (\A p \in Pipelines : m \notin members[p]) => ids[m] = Ids!Invalid
  /\ Ids!IdsTellApart

-----------------------------------------------------------------------------
(* An inspection stands between what was given and what is passed: of one  *)
(* that was passed, the values of the descriptions are those of the texts  *)
(* given for them, with their blanks removed in place.                     *)
ParamInv ==
  /\ \A d \in descs : Config!IsSequence(d.default) /\ d.type \in Config!ParserTypes
  /\ \A name \in DOMAIN given : Config!IsSequence(given[name])
  /\ accepted =>
       /\ DOMAIN given \subseteq {d.name : d \in descs} \cup {Config!EasysaDir}
       /\ \A d \in descs : d.must => d.name \in DOMAIN given
       /\ \A d \in descs :
            LET value == Config!ParsedAs(d.type, Config!RemovedIf(Config!TextFor(given, d)))
            IN value # <<>> => values[d] = value

\* A pipeline that was built was built from what was read of its file.
FileInv ==
  /\ file \in Files
  /\ built =>
       /\ read = Config!ConfigsFromJsonFile(file) /\ read.outcome = "reading"
       /\ Config!BuildSucceeds(Config!ConfigsBuilt(read.configs))
       /\ graph = Config!BuildPipeline(Config!ConfigsBuilt(read.configs))

-----------------------------------------------------------------------------
(* What is computed is what DetectFaces, DetectBatchImages and Predict     *)
(* make of what they are given.                                            *)
FacesGiven == images \in [network : Networks, batch : Batches]
FacesComputed ==
  computed = [at |-> "faces",
    faces |-> Detector!DetectEach(images.network, images.batch.images, images.batch.outputs),
    batch |-> Detector!DetectBatchImages(images.network, images.batch.images, images.batch.outputs)]
PoseComputed ==
  \E listed \in Detector!SetToSeqs(Labels) :
    computed = [at |-> "pose", label |-> Detector!Vote(Detector!Drawn(images.lines), listed)]
DetectionInv ==
  part = "detection" =>
    \/ computed = [at |-> "nothing"] /\ ("batch" \in DOMAIN images => FacesGiven)
    \/ FacesGiven /\ FacesComputed
    \/ PoseComputed
=============================================================================
