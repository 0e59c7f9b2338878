------------------------------ MODULE SampleRun ------------------------------
(***************************************************************************)
(* The samples sentiment_analysis and sentiment_analysis2: a camera thread *)
(* and threads for the detector and the networks, one after the other,     *)
(* joined by connectors; the main thread draws the frames until the user   *)
(* presses escape, and then destroys the object.                           *)
(*                                                                         *)
(* In the first sample one thread runs the expression network and one the  *)
(* gaze network, frame by frame as the frame skipping tells, and every     *)
(* face waits for its own result.  In the second one thread runs both, for *)
(* every frame: it pushes all faces and then collects the results, which   *)
(* the pools of Inference return in any order.                             *)
(*                                                                         *)
(* Lines of the first sample are mapped unless a definition says           *)
(* otherwise.  A face is its number in the frame; the result of a network  *)
(* is the face it was computed for.                                        *)
(***************************************************************************)
EXTENDS Integers, Sequences, SequencesExt

CONSTANTS
  Capacity,    \* the capacity of a conveyor: 20, whatever LinkTwoModule is given
  ModulesSkip, \* modules_skip_: network -> frames passed before one is skipped
  FaceCounts,  \* bound: the faces there may be in a frame
  MaxFrames    \* bound: sample -> the frames of its camera

SampleAssumption ==
  /\ Capacity \in Nat \ {0} /\ FaceCounts \subseteq Nat /\ MaxFrames \in [{1, 2} -> Nat]
  /\ ModulesSkip \in [{"fer", "etvh"} -> Nat]

VARIABLES
  sample,     \* which of the two samples runs
  conveyor,   \* stage -> the frames in the connector behind it
  stage,      \* stage -> what its thread does: where, and the frame it holds
  status,     \* status_ of the FrameSkipControl
  labels,     \* fer_s and v_direction, h_direction
  models,     \* the models not deleted yet
  is_running, \* running_
  quit,       \* the main thread: "drawing", "deleting", the stage it joins, "gone"
  fault,      \* a thread has used a deleted model
  captured,   \* the frames captured
  drawn       \* the frames drawn, each with the labels of its faces

sampleVars == <<sample, conveyor, stage, status, labels, models, is_running, quit, fault,
                captured, drawn>>

LabelNetworks == {"fer", "etvh"}
Stages == IF sample = 1 THEN <<"source", "detect", "fer", "etvh">>
          ELSE <<"source", "detect", "fer_etvh">>
Final == Len(Stages)
Runs(s) == IF s = "fer_etvh" THEN LabelNetworks ELSE {s} \cap LabelNetworks
Models == {"rf", "fer", "etvh"}

NoFrame == [number |-> 0, skip |-> {}, faces |-> 0, result |-> [n \in LabelNetworks |-> <<>>]]
Thread(at, frame) == [at |-> at, frame |-> frame]
Looping == Thread("loop", NoFrame)
Finished == Thread("finished", NoFrame)

SampleStarted ==
  /\ sample \in {1, 2}
  /\ conveyor = [i \in 1..Final |-> <<>>]
  /\ stage = [i \in 1..Final |-> Looping]
  /\ status = [n \in LabelNetworks |-> 0]
  /\ labels = [n \in LabelNetworks |-> <<>>]
  /\ models = Models /\ is_running = TRUE /\ quit = "drawing"
  /\ captured = 0 /\ drawn = <<>>

SampleInit == SampleStarted /\ fault = FALSE

-----------------------------------------------------------------------------
(* FrameSkipControl: the networks the next frame skips.  The counters go   *)
(* on with every frame; the first frame is skipped.                        *)
NextStatus == [n \in LabelNetworks |-> (status[n] + 1) % (ModulesSkip[n] + 1)]
GetSkipVectorNow == {n \in LabelNetworks : NextStatus[n] = 1}

Move(i, thread) == stage' = [stage EXCEPT ![i] = thread]

(* ProvideSource.  The second sample has no frame skipping.                *)
Capture(skip) ==
  /\ stage[1].at = "loop" /\ is_running /\ captured < MaxFrames[sample]
  /\ captured' = captured + 1
  /\ Move(1, Thread("push", [NoFrame EXCEPT !.number = captured + 1, !.skip = skip]))
  /\ UNCHANGED <<sample, conveyor, labels, models, is_running, quit, fault, drawn>>

ProvideSource == sample = 1 /\ Capture(GetSkipVectorNow) /\ status' = NextStatus
ProvideSource2 == sample = 2 /\ Capture({}) /\ status' = status

CameraEnds ==
  /\ stage[1].at = "loop" /\ is_running
  /\ Move(1, Finished)
  /\ status' = IF sample = 1 THEN NextStatus ELSE status
  /\ UNCHANGED <<sample, conveyor, labels, models, is_running, quit, fault, captured, drawn>>

(* Every thread looks at running_ at the head of its loop.                 *)
LeaveLoop(i) ==
  /\ stage[i].at = "loop" /\ ~is_running
  /\ Move(i, Finished)
  /\ UNCHANGED <<sample, conveyor, status, labels, models, is_running, quit, fault, captured,
                 drawn>>

(* The loop that awaits a frame ends with a frame only: the connectors are *)
(* stopped when the threads have been joined.                              *)
Await(i) ==
  /\ i > 1 /\ stage[i].at = "loop" /\ is_running
  /\ Move(i, Thread("await", NoFrame))
  /\ UNCHANGED <<sample, conveyor, status, labels, models, is_running, quit, fault, captured,
                 drawn>>

Pop(i) ==
  /\ i > 1 /\ stage[i].at = "await" /\ conveyor[i - 1] # <<>>
  /\ Move(i, Thread("process", Head(conveyor[i - 1])))
  /\ conveyor' = [conveyor EXCEPT ![i - 1] = Tail(@)]
  /\ UNCHANGED <<sample, status, labels, models, is_running, quit, fault, captured, drawn>>

(* What the thread of a stage may make of a frame: DetectModule finds the  *)
(* faces; the networks add a feature to each face, unless the frame skips  *)
(* them.  The second sample takes the results as they come.                *)
InOrder(faces) == [f \in 1..faces |-> f]
AnyOrder(faces) == {s \in [1..faces -> 1..faces] : IsInjective(s)}
ResultsInDisorder(faces) == AnyOrder(faces)
Results(faces) == IF sample = 2 THEN AnyOrder(faces) ELSE {InOrder(faces)}

Skips(n, frame) == n \in frame.skip

DetectModule(frame) == {[frame EXCEPT !.faces = n] : n \in FaceCounts}
FerModule(frame) ==
  IF Skips("fer", frame) THEN {frame}
  ELSE {[frame EXCEPT !.result["fer"] = r] : r \in Results(frame.faces)}
EtvhModule(frame) ==
  IF Skips("etvh", frame) THEN {frame}
  ELSE {[frame EXCEPT !.result["etvh"] = r] : r \in Results(frame.faces)}
FerEtvhModule(frame) ==
  {[frame EXCEPT !.result = r] : r \in [LabelNetworks -> Results(frame.faces)]}
ProcessedBy(s, frame) ==
  CASE s = "detect" -> DetectModule(frame)
    [] s = "fer" -> FerModule(frame)
    [] s = "etvh" -> EtvhModule(frame)
    [] s = "fer_etvh" -> FerEtvhModule(frame)

(* The models the step calls: a network only for a face it is not to skip. *)
Needed(s, frame) ==
  IF s = "detect" THEN {"rf"}
  ELSE {n \in Runs(s) : frame.faces > 0 /\ ~Skips(n, frame)}

Process(i) ==
  /\ i > 1 /\ stage[i].at = "process"
  /\ LET frame == stage[i].frame
     IN /\ fault' = (fault \/ ~(Needed(Stages[i], frame) \subseteq models))
        /\ \E after \in ProcessedBy(Stages[i], frame) : Move(i, Thread("push", after))
  /\ UNCHANGED <<sample, conveyor, status, labels, models, is_running, quit, captured, drawn>>

(* What a push that has room leaves of the conveyor.                       *)
GivenUp(i, frame) == conveyor
Conveyed(i, frame) == [conveyor EXCEPT ![i] = Append(@, frame)]

(* A frame is pushed until there is room, or given up when running_ ends.  *)
Push(i) ==
  /\ stage[i].at = "push"
  /\ \/ /\ is_running /\ Len(conveyor[i]) < Capacity
        /\ conveyor' = Conveyed(i, stage[i].frame)
     \/ ~is_running /\ conveyor' = conveyor
  /\ Move(i, Looping)
  /\ UNCHANGED <<sample, status, labels, models, is_running, quit, fault, captured, drawn>>

-----------------------------------------------------------------------------
(* DrawByObj, face after face: the labels are members, and those of a      *)
(* network the frame skips, for all of its faces, keep what they were.  In *)
(* the second sample they are local.                                       *)
NewLabels(frame, face) ==
  [n \in LabelNetworks |-> IF Skips(n, frame) THEN labels[n]
                           ELSE <<frame.number, frame.result[n][face]>>]
DrawByObj(frame) == [face \in 1..frame.faces |-> NewLabels(frame, face)]

OsdModule ==
  /\ quit = "drawing" /\ conveyor[Final] # <<>>
  /\ LET frame == Head(conveyor[Final])
     IN /\ drawn' = Append(drawn, [number |-> frame.number, skip |-> frame.skip,
                                   labels |-> DrawByObj(frame)])
        /\ labels' = IF sample = 1 /\ frame.faces > 0 THEN NewLabels(frame, frame.faces)
                     ELSE labels
  /\ conveyor' = [conveyor EXCEPT ![Final] = Tail(@)]
  /\ \E escape \in BOOLEAN : quit' = IF escape THEN "deleting" ELSE quit
  /\ UNCHANGED <<sample, stage, status, models, is_running, fault, captured>>

(* The destructor deletes the models before it joins the threads.          *)
Delete ==
  /\ quit = "deleting"
  /\ is_running' = FALSE
  /\ models' = {}
  /\ quit' = Stages[1]
  /\ UNCHANGED <<sample, conveyor, stage, status, labels, fault, captured, drawn>>

Join(i) ==
  /\ quit = Stages[i] /\ stage[i] = Finished
  /\ quit' = IF i = Final THEN "gone" ELSE Stages[i + 1]
  /\ UNCHANGED <<sample, conveyor, stage, status, labels, models, is_running, fault, captured,
                 drawn>>

SampleThread(i) == \/ LeaveLoop(i) \/ Await(i) \/ Pop(i) \/ Process(i) \/ Push(i)
SampleMain == OsdModule \/ Delete \/ \E i \in 1..Final : Join(i)

SampleNext ==
  /\ ~fault
  /\ \/ ProvideSource \/ ProvideSource2 \/ CameraEnds \/ SampleMain
     \/ \E i \in 1..Final : SampleThread(i)

(* Threads run; the camera may stay silent.                                *)
SampleFairness ==
  /\ WF_sampleVars(~fault /\ SampleMain)
  /\ \A i \in 1..4 : WF_sampleVars(~fault /\ i \in 1..Final /\ SampleThread(i))

SampleSpec == SampleInit /\ [][SampleNext]_sampleVars /\ SampleFairness

-----------------------------------------------------------------------------
(* The labels drawn at a face of the first sample are its own, or, where   *)
(* the frame skips the network, those of the last face of the last frame   *)
(* that did not and had a face, if there was one: never a mixture.  In the *)
(* second sample the labels are of a face of the same frame, and those of  *)
(* one network are of different faces.                                     *)
LastLabelled(n, d) ==
  LET before == {e \in 1..d - 1 : n \notin drawn[e].skip /\ drawn[e].labels # <<>>}
  IN IF before = {} THEN <<>>
     ELSE LET e == CHOOSE e \in before : \A o \in before : o <= e
          IN <<drawn[e].number, Len(drawn[e].labels)>>

LabelsOfFaces ==
  \A d \in DOMAIN drawn : \A n \in LabelNetworks :
    LET shown == [f \in DOMAIN drawn[d].labels |-> drawn[d].labels[f][n]]
    IN IF sample = 1
       THEN \A f \in DOMAIN shown :
              shown[f] = IF n \in drawn[d].skip THEN LastLabelled(n, d)
                         ELSE <<drawn[d].number, f>>
       ELSE IsInjective(shown) /\ \A f \in DOMAIN shown : shown[f][1] = drawn[d].number

(* Every frame captured is drawn, the end of the camera notwithstanding,   *)
(* unless the user leaves.                                                 *)
AllDrawn == \A k \in 1..captured : \E d \in DOMAIN drawn : drawn[d].number = k
CapturedIsDrawn == []<>(AllDrawn \/ quit # "drawing")

(* No model is used that has been deleted before the user leaves.          *)
ModelsOutlast == fault => quit \notin {"drawing", "deleting"}
=============================================================================
