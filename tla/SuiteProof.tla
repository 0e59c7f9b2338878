----------------------------- MODULE SuiteProof -----------------------------
(***************************************************************************)
(* Proofs, for all values of the constants, about components that MCSuite  *)
(* checks next to each other: what keeps a network from loading or ends a  *)
(* sample is a cause the code admits; the samples draw the labels of    *)
(* the faces they draw them at; pictures are shown whole; ids tell modules *)
(* apart.                                                                  *)
(***************************************************************************)
EXTENDS SuiteInvariant, FiniteSetTheorems, WellFoundedInduction, TLAPS

\* A step is one of the component that moves, and the others rest.
LEMMA SuiteStep ==
  ASSUME [SuiteNext]_suiteVars
  PROVE  /\ part' = part
         /\ part = "inference" => [InferenceNext]_inferenceVars
         /\ [Loader!LoaderNext]_loaderVars /\ [Sample!SampleNext]_sampleVars
         /\ [Pictures!CanvasNext \/ Pictures!Use]_pictureVars
         /\ [Objects!ObjectNext]_objectVars /\ [Ids!IdsNext]_idVars
         /\ [Config!BuildPipelineByJSONFile]_buildVars /\ [Config!ParamNext]_paramVars
<1> DEFINE Rest(p) ==
      /\ part' = part
      /\ p # "inference" => UNCHANGED inferenceVars
      /\ p # "loader" => UNCHANGED loaderVars
      /\ p # "sample" => UNCHANGED sampleVars
      /\ p \notin {"tiler", "scaler"} => UNCHANGED pictureVars
      /\ p # "objects" => UNCHANGED objectVars
      /\ p # "ids" => UNCHANGED idVars
      /\ p # "file" => UNCHANGED buildVars
      /\ p # "parameters" => UNCHANGED paramVars
<1>1. ASSUME NEW p, Alone(p) PROVE Rest(p)
  BY <1>1 DEF Alone
<1>2. CASE UNCHANGED suiteVars
  BY <1>2 DEF suiteVars
<1>3. CASE part = "inference" /\ InferenceNext /\ Rest("inference")
  BY <1>3
<1>4. CASE Loader!LoaderNext /\ Rest("loader") /\ part = "loader"
  BY <1>4
<1>5. CASE Sample!SampleNext /\ Rest("sample") /\ part = "sample"
  BY <1>5
<1>6. CASE Pictures!CanvasNext /\ Rest("tiler") /\ part = "tiler"
  BY <1>6
<1>7. CASE Pictures!Use /\ Rest("scaler") /\ part = "scaler"
  BY <1>7
<1>8. CASE Objects!ObjectNext /\ Rest("objects") /\ part = "objects"
  BY <1>8
<1>9. CASE Ids!IdsNext /\ Rest("ids") /\ part = "ids"
  BY <1>9
<1>10. CASE Config!BuildPipelineByJSONFile /\ Rest("file") /\ part = "file"
  BY <1>10
<1>11. CASE Config!ParamNext /\ Rest("parameters") /\ part = "parameters"
  BY <1>11
<1>12. ASSUME NEW p \in {"profiler", "tracer", "detection"}, part = p, Rest(p)
       PROVE  /\ part' = part /\ part # "inference"
              /\ UNCHANGED <<loaderVars, sampleVars, pictureVars, objectVars, idVars>>
              /\ UNCHANGED <<buildVars, paramVars>>
  BY <1>12
<1> HIDE DEF Rest
<1>13. CASE SuiteNext
  BY <1>1, <1>3, <1>4, <1>5, <1>6, <1>7, <1>8, <1>9, <1>10, <1>11, <1>12, <1>13 DEF SuiteNext
<1> QED
  BY <1>2, <1>13

-----------------------------------------------------------------------------
(* The loading of a network.                                               *)

LEMMA LoaderInvInit == Loader!LoaderInit => LoaderInv
  BY DEF Loader!LoaderInit, LoaderInv

LEMMA LoaderInvNext ==
  ASSUME LoaderInv, [Loader!LoaderNext]_loaderVars
  PROVE  LoaderInv'
<1> USE DEF LoaderInv, NotForNothing
<1>1. CASE Loader!StartProcess
  BY <1>1 DEF Loader!StartProcess, Loader!Down
<1>2. CASE Loader!ReadCache
  <2>1. loaded' = (cache = "whole") /\ loaded' \in BOOLEAN
    BY <1>2 DEF Loader!ReadCache
  <2>2. loaded' \/ NotForNothing
    BY <1>2, <2>1 DEF Loader!ReadCache
  <2> QED
    BY <1>2, <2>1, <2>2 DEF Loader!ReadCache
<1>3. CASE Loader!BuildEngine
  <2>1. loaded' = (model = "good") /\ loaded' \in BOOLEAN
    BY <1>3 DEF Loader!BuildEngine
  <2> QED
    BY <1>3, <2>1 DEF Loader!BuildEngine
<1>4. CASE Loader!OpenCache
  BY <1>4 DEF Loader!OpenCache
<1>5. CASE Loader!CloseCache
  BY <1>5 DEF Loader!CloseCache
<1>6. CASE Loader!CreateContext
  BY <1>6 DEF Loader!CreateContext
<1>7. CASE Loader!Allocate
  BY <1>7 DEF Loader!Allocate
<1>8. CASE Loader!Release
  BY <1>8 DEF Loader!Release
<1>9. CASE Loader!Kill
  BY <1>9 DEF Loader!Kill, Loader!Down
<1>10. CASE UNCHANGED loaderVars
  BY <1>10 DEF loaderVars
<1> QED
  BY <1>1, <1>2, <1>3, <1>4, <1>5, <1>6, <1>7, <1>8, <1>9, <1>10 DEF Loader!LoaderNext

-----------------------------------------------------------------------------
(* The models of a sample.                                                 *)

LEMMA ModelsInvNext ==
  ASSUME ModelsInv, part' = part, [Sample!SampleNext]_sampleVars, sample \in {1, 2}
  PROVE  ModelsInv'
<1> SUFFICES ASSUME part = "sample", quit' \in {"drawing", "deleting"}
             PROVE  models' = Sample!Models /\ ~fault'
  BY DEF ModelsInv, UserStays, Sample!Models
<1> USE DEF ModelsInv, UserStays
<1>1. CASE UNCHANGED <<quit, models, fault>>
  BY <1>1
<1>2. ASSUME NEW i \in 1..Sample!Final, Sample!Process(i)
      PROVE  models' = Sample!Models /\ ~fault'
  <2>1. quit' = quit /\ models' = models
    BY <1>2 DEF Sample!Process
  <2>2. Sample!Needed(Sample!Stages[i], stage[i].frame) \subseteq Sample!Models
    BY DEF Sample!Needed, Sample!Runs, Sample!LabelNetworks, Sample!Models
  <2> QED
    BY <1>2, <2>1, <2>2 DEF Sample!Process
<1>3. CASE Sample!OsdModule
  BY <1>3 DEF Sample!OsdModule
<1>4. CASE Sample!Delete
  BY <1>4 DEF Sample!Delete, Sample!Stages
<1>5. ASSUME NEW i \in 1..Sample!Final, Sample!Join(i)
      PROVE  FALSE
  BY <1>5 DEF Sample!Join, Sample!Stages, Sample!Final
<1>6. ASSUME Sample!ProvideSource \/ Sample!ProvideSource2 \/ Sample!CameraEnds
      PROVE  UNCHANGED <<quit, models, fault>>
  BY <1>6 DEF Sample!ProvideSource, Sample!ProvideSource2, Sample!Capture, Sample!CameraEnds
<1>7. ASSUME NEW i \in 1..Sample!Final,
             Sample!LeaveLoop(i) \/ Sample!Await(i) \/ Sample!Pop(i) \/ Sample!Push(i)
      PROVE  UNCHANGED <<quit, models, fault>>
  BY <1>7 DEF Sample!LeaveLoop, Sample!Await, Sample!Pop, Sample!Push
<1>8. CASE UNCHANGED sampleVars
  BY <1>1, <1>8 DEF sampleVars
<1> QED
  BY <1>1, <1>2, <1>3, <1>4, <1>5, <1>6, <1>7, <1>8
     DEF Sample!SampleNext, Sample!SampleMain, Sample!SampleThread

-----------------------------------------------------------------------------
(* What a sample draws.                                                    *)

\* The threads of the first sample are four, of the second three.
LEMMA StagesOf ==
  ASSUME sample \in {1, 2}
  PROVE  /\ Sample!Final \in 3..4 /\ (sample = 1 <=> Sample!Final = 4)
         /\ Sample!Stages[1] = "source" /\ Sample!Stages[2] = "detect"
         /\ sample = 1 => Sample!Stages[3] = "fer" /\ Sample!Stages[4] = "etvh"
         /\ sample = 2 => Sample!Stages[3] = "fer_etvh"
<1>1. CASE sample = 1
  BY <1>1 DEF Sample!Final, Sample!Stages
<1>2. CASE sample = 2
  BY <1>2 DEF Sample!Final, Sample!Stages
<1> QED
  BY <1>1, <1>2

\* Results are sequences of faces, a face each, and no face twice.
LEMMA ResultFacts ==
  ASSUME sample \in {1, 2}, NEW faces \in Nat, NEW r \in Sample!Results(faces)
  PROVE  /\ r \in Seq(Nat) /\ r \in [1..faces -> 1..faces]
         /\ sample = 1 => \A f \in 1..faces : r[f] = f
         /\ \A f, g \in 1..faces : r[f] = r[g] => f = g
<1>1. r \in [1..faces -> 1..faces]
  BY DEF Sample!Results, Sample!InOrder, Sample!AnyOrder
<1>2. r \in Seq(Nat)
  <2>1. r \in [1..faces -> Nat]
    BY <1>1
  <2> QED
    BY <2>1
<1>3. CASE sample = 1
  BY <1>1, <1>2, <1>3 DEF Sample!Results, Sample!InOrder
<1>4. CASE sample = 2
  <2>1. \A f, g \in 1..faces : r[f] = r[g] => f = g
    <3>1. Sample!IsInjective(r)
      BY <1>4 DEF Sample!Results, Sample!AnyOrder
    <3>2. DOMAIN r = 1..faces
      BY <1>1
    <3> QED
      BY <3>1, <3>2 DEF Sample!IsInjective
  <2> QED
    BY <1>1, <1>2, <1>4, <2>1
<1> QED
  BY <1>3, <1>4

\* A stage hands on what it was given, with what it adds itself.
LEMMA ProcessedIsMade ==
  ASSUME sample \in {1, 2}, NEW i \in 2..Sample!Final, NEW frame \in Frame, Made(frame, i - 1),
         NEW after \in Sample!ProcessedBy(Sample!Stages[i], frame)
  PROVE  after \in Frame /\ Made(after, i)
<1> USE DEF Sample!LabelNetworks
<1>1. /\ frame.number \in Nat /\ frame.faces \in Nat /\ frame.skip \subseteq {"fer", "etvh"}
      /\ frame.result \in [{"fer", "etvh"} -> Seq(Nat)]
      /\ frame = [number |-> frame.number, skip |-> frame.skip, faces |-> frame.faces,
                  result |-> frame.result]
  BY DEF Frame
<1>2. CASE i = 2
  <2>1. PICK n \in FaceCounts : after = [frame EXCEPT !.faces = n]
    BY <1>2, StagesOf DEF Sample!ProcessedBy, Sample!DetectModule
  <2>2. n \in Nat
    BY SuiteAssumption DEF Sample!SampleAssumption
  <2>3. after = [number |-> frame.number, skip |-> frame.skip, faces |-> n, result |-> frame.result]
    BY <1>1, <2>1
  <2> QED
    BY <1>1, <1>2, <2>2, <2>3 DEF Made, RanAt, Frame
<1>3. ASSUME i # 2, sample = 1, NEW n \in {"fer", "etvh"}, RanAt(n) = i
      PROVE  after \in Frame /\ Made(after, i)
  <2>1. IF n \in frame.skip THEN after = frame
        ELSE \E r \in Sample!Results(frame.faces) : after = [frame EXCEPT !.result[n] = r]
    BY <1>3, StagesOf DEF Sample!ProcessedBy, Sample!FerModule, Sample!EtvhModule, Sample!Skips, RanAt
  <2>2. CASE n \in frame.skip
    BY <1>3, <2>1, <2>2 DEF Made, RanAt
  <2>3. CASE n \notin frame.skip
    <3>1. PICK r \in Sample!Results(frame.faces) : after = [frame EXCEPT !.result[n] = r]
      BY <2>1, <2>3
    <3>2. r \in Seq(Nat)
      BY <1>1, ResultFacts
    <3>3. after = [number |-> frame.number, skip |-> frame.skip, faces |-> frame.faces,
                   result |-> [frame.result EXCEPT ![n] = r]]
      BY <1>1, <3>1
    <3>4. after \in Frame
      BY <1>1, <3>2, <3>3 DEF Frame
    <3> QED
      BY <1>1, <1>3, <3>3, <3>4 DEF Made, RanAt
  <2> QED
    BY <2>2, <2>3
<1>4. CASE i # 2 /\ sample = 2
  <2>1. PICK r \in [{"fer", "etvh"} -> Sample!Results(frame.faces)] : after = [frame EXCEPT !.result = r]
    BY <1>4, StagesOf DEF Sample!ProcessedBy, Sample!FerEtvhModule
  <2>2. after = [number |-> frame.number, skip |-> frame.skip, faces |-> frame.faces, result |-> r]
    BY <1>1, <2>1
  <2>3. r \in [{"fer", "etvh"} -> Seq(Nat)]
    BY <1>1, <2>1, ResultFacts
  <2> QED
    BY <1>1, <2>1, <2>2, <2>3 DEF Made, Frame
<1>5. sample = 1 /\ i # 2 => RanAt("fer") = i \/ RanAt("etvh") = i
  BY StagesOf DEF RanAt
<1> QED
  BY <1>2, <1>3, <1>4, <1>5

LEMMA StagesKept ==
  ASSUME StagesInv, sample' = sample, sample \in {1, 2}, NEW i \in 1..Sample!Final,
         NEW at \in {"loop", "await", "process", "push", "finished"}, NEW frame \in Frame,
         at = "process" => Made(frame, i - 1), at = "push" => Made(frame, i),
         stage' = [stage EXCEPT ![i] = Sample!Thread(at, frame)]
  PROVE  StagesInv'
<1>1. Sample!Final' = Sample!Final /\ Sample!Final \in Nat
  BY StagesOf DEF Sample!Final, Sample!Stages
<1>2. \A f, k : Made(f, k)' <=> Made(f, k)
  BY DEF Made, RanAt, Sample!Results, Sample!AnyOrder, Sample!InOrder, Sample!LabelNetworks
<1>3. Frame' = Frame
  BY DEF Frame, Sample!LabelNetworks
<1>4. /\ Sample!Thread(at, frame) \in
           [at : {"loop", "await", "process", "push", "finished"}, frame : Frame]
      /\ Sample!Thread(at, frame).at = at /\ Sample!Thread(at, frame).frame = frame
  BY DEF Sample!Thread
<1>5. stage' \in [1..Sample!Final ->
                    [at : {"loop", "await", "process", "push", "finished"}, frame : Frame]]
  BY <1>4 DEF StagesInv
<1>6. ASSUME NEW j \in 1..Sample!Final
      PROVE  /\ stage'[j].at = "process" => Made(stage'[j].frame, j - 1)
             /\ stage'[j].at = "push" => Made(stage'[j].frame, j)
  <2>1. CASE j = i
    BY <1>4, <2>1 DEF StagesInv
  <2>2. CASE j # i
    BY <2>2 DEF StagesInv
  <2> QED
    BY <2>1, <2>2
<1> QED
  BY <1>1, <1>2, <1>3, <1>5, <1>6 DEF StagesInv

LEMMA StagesRest ==
  ASSUME StagesInv, sample' = sample, sample \in {1, 2}, stage' = stage
  PROVE  StagesInv'
<1>1. Sample!Final' = Sample!Final
  BY DEF Sample!Final, Sample!Stages
<1>2. \A f, k : Made(f, k)' <=> Made(f, k)
  BY DEF Made, RanAt, Sample!Results, Sample!AnyOrder, Sample!InOrder, Sample!LabelNetworks
<1>3. Frame' = Frame
  BY DEF Frame, Sample!LabelNetworks
<1> QED
  BY <1>1, <1>2, <1>3 DEF StagesInv

LEMMA BeltsKept ==
  ASSUME BeltsInv, sample' = sample, sample \in {1, 2}, NEW i \in 1..Sample!Final,
         NEW belt \in Seq(Frame), \A k \in DOMAIN belt : Made(belt[k], i),
         belts' = [belts EXCEPT ![i] = belt] \/ belts' = belts
  PROVE  BeltsInv'
<1>1. Sample!Final' = Sample!Final
  BY DEF Sample!Final, Sample!Stages
<1>2. \A f, k : Made(f, k)' <=> Made(f, k)
  BY DEF Made, RanAt, Sample!Results, Sample!AnyOrder, Sample!InOrder, Sample!LabelNetworks
<1>3. Frame' = Frame
  BY DEF Frame, Sample!LabelNetworks
<1>4. belts' \in [1..Sample!Final -> Seq(Frame)]
  BY DEF BeltsInv
<1>5. ASSUME NEW j \in 1..Sample!Final
      PROVE  \A k \in DOMAIN belts'[j] : Made(belts'[j][k], j)
  <2>1. CASE belts'[j] = belts[j]
    BY <2>1 DEF BeltsInv
  <2>2. CASE j = i /\ belts'[j] = belt
    BY <2>2
  <2> QED
    BY <2>1, <2>2 DEF BeltsInv
<1> QED
  BY <1>1, <1>2, <1>3, <1>4, <1>5 DEF BeltsInv

\* The head and the rest of a belt, and a belt with one frame more.
LEMMA BeltFacts ==
  ASSUME NEW belt \in Seq(Frame), NEW i, \A k \in DOMAIN belt : Made(belt[k], i)
  PROVE  /\ belt # <<>> => /\ Head(belt) \in Frame /\ Made(Head(belt), i)
                           /\ Tail(belt) \in Seq(Frame)
                           /\ \A k \in DOMAIN Tail(belt) : Made(Tail(belt)[k], i)
         /\ \A frame \in Frame : Made(frame, i) =>
              /\ Append(belt, frame) \in Seq(Frame)
              /\ \A k \in DOMAIN Append(belt, frame) : Made(Append(belt, frame)[k], i)
<1> DEFINE Good(f) == Made(f, i)
<1>0. \A k \in 1..Len(belt) : Good(belt[k])
  OBVIOUS
<1>e. \A frame : Good(frame) <=> Made(frame, i)
  OBVIOUS
<1> HIDE DEF Good
<1>1. ASSUME belt # <<>>
      PROVE  /\ Head(belt) \in Frame /\ Good(Head(belt))
             /\ Tail(belt) \in Seq(Frame)
             /\ \A k \in DOMAIN Tail(belt) : Good(Tail(belt)[k])
  <2>1. Head(belt) = belt[1] /\ 1 \in 1..Len(belt) /\ belt[1] \in Frame
    BY <1>1
  <2>2. Tail(belt) \in Seq(Frame) /\ Len(Tail(belt)) = Len(belt) - 1
    BY <1>1
  <2>3. ASSUME NEW k \in 1..Len(Tail(belt))
        PROVE  Good(Tail(belt)[k])
    <3>1. Tail(belt)[k] = belt[k + 1] /\ k + 1 \in 1..Len(belt)
      BY <1>1, <2>2
    <3> QED
      BY <1>0, <3>1
  <2> QED
    BY <1>0, <2>1, <2>2, <2>3
<1>2. ASSUME NEW frame \in Frame, Good(frame)
      PROVE  /\ Append(belt, frame) \in Seq(Frame)
             /\ \A k \in DOMAIN Append(belt, frame) : Good(Append(belt, frame)[k])
  <2>1. ASSUME NEW k \in 1..(Len(belt) + 1)
        PROVE  Good(Append(belt, frame)[k])
    BY <1>0, <1>2
  <2> QED
    BY <2>1
<1> QED
  BY <1>1, <1>2, <1>e

LEMMA NoFrameIsFrame ==
  /\ Sample!NoFrame \in Frame
  /\ Sample!NoFrame = [number |-> 0, skip |-> {}, faces |-> 0,
                       result |-> [n \in Sample!LabelNetworks |-> <<>>]]
  BY DEF Sample!NoFrame, Frame

\* A frame captured has nothing to show but its number and what it skips.
LEMMA CapturedIsMade ==
  ASSUME NEW number \in Nat, NEW skip \in SUBSET Sample!LabelNetworks, sample = 2 => skip = {}
  PROVE  LET frame == [Sample!NoFrame EXCEPT !.number = number, !.skip = skip]
         IN frame \in Frame /\ Made(frame, 1)
<1>1. PICK none : none = Sample!NoFrame.result
  OBVIOUS
<1>2. none \in [Sample!LabelNetworks -> Seq(Nat)]
  BY <1>1, NoFrameIsFrame DEF Frame
<1>3. Sample!NoFrame = [number |-> 0, skip |-> {}, faces |-> 0, result |-> none]
  BY <1>1, NoFrameIsFrame
<1>4. PICK frame : frame = [number |-> number, skip |-> skip, faces |-> 0, result |-> none]
  OBVIOUS
<1>5. frame = [Sample!NoFrame EXCEPT !.number = number, !.skip = skip]
  <2>1. PICK numbered : numbered = [Sample!NoFrame EXCEPT !.number = number]
    OBVIOUS
  <2>2. numbered = [number |-> number, skip |-> {}, faces |-> 0, result |-> none]
    BY <1>3, <2>1
  <2>3. frame = [numbered EXCEPT !.skip = skip]
    BY <1>4, <2>2
  <2>4. [Sample!NoFrame EXCEPT !.number = number, !.skip = skip] =
          [[Sample!NoFrame EXCEPT !.number = number] EXCEPT !.skip = skip]
    OBVIOUS
  <2> QED
    BY <2>1, <2>3, <2>4
<1>6. frame \in Frame
  BY <1>2, <1>4 DEF Frame
<1>7. Made(frame, 1)
  <2>1. frame.number = number /\ frame.faces = 0 /\ frame.skip = skip
    BY <1>4
  <2>2. \A n : ~(RanAt(n) <= 1)
    BY DEF RanAt
  <2> QED
    BY <2>1, <2>2 DEF Made
<1> QED
  BY <1>5, <1>6, <1>7

LEMMA FramesInvInit == Sample!SampleStarted => FramesInv
<1> SUFFICES ASSUME Sample!SampleStarted PROVE FramesInv
  OBVIOUS
<1>1. sample \in {1, 2} /\ captured = 0
  BY DEF Sample!SampleStarted
<1>2. BeltsInv
  BY DEF Sample!SampleStarted, BeltsInv
<1>3. StagesInv
  BY NoFrameIsFrame DEF Sample!SampleStarted, Sample!Looping, Sample!Thread, StagesInv
<1> QED
  BY <1>1, <1>2, <1>3 DEF FramesInv

LEMMA FramesInvNext ==
  ASSUME FramesInv, [Sample!SampleNext]_sampleVars
  PROVE  FramesInv'
<1> USE DEF FramesInv
<1>0. 1 \in 1..Sample!Final /\ Sample!Final \in 1..Sample!Final
  BY StagesOf
<1>1. ASSUME sample' = sample, captured' \in Nat, belts' = belts,
             NEW i \in 1..Sample!Final, NEW at \in {"loop", "await", "finished"},
             stage' = [stage EXCEPT ![i] = Sample!Thread(at, Sample!NoFrame)]
      PROVE  FramesInv'
  BY <1>0, <1>1, StagesKept, BeltsKept, NoFrameIsFrame DEF BeltsInv
<1>2. ASSUME sample' = sample, captured' \in Nat, stage' = stage, belts' = belts
      PROVE  FramesInv'
  BY <1>0, <1>2, StagesRest, BeltsKept DEF BeltsInv
<1>3. ASSUME NEW skip \in SUBSET Sample!LabelNetworks, sample = 2 => skip = {}, Sample!Capture(skip),
             sample' = sample
      PROVE  FramesInv'
  <2> DEFINE frame == [Sample!NoFrame EXCEPT !.number = captured + 1, !.skip = skip]
  <2>2. frame \in Frame /\ Made(frame, 1)
    <3>1. PICK number : number = captured + 1 /\ number \in Nat
      OBVIOUS
    <3> QED
      BY <1>3, <3>1, CapturedIsMade
  <2>3. stage' = [stage EXCEPT ![1] = Sample!Thread("push", frame)]
    BY <1>3 DEF Sample!Capture, Sample!Move
  <2>4. belts' = belts /\ captured' \in Nat
    BY <1>3 DEF Sample!Capture
  <2> HIDE DEF frame
  <2> QED
    BY <1>0, <1>3, <2>2, <2>3, <2>4, StagesKept, BeltsKept DEF BeltsInv
<1>4. CASE Sample!ProvideSource
  <2>1. Sample!GetSkipVectorNow \in SUBSET Sample!LabelNetworks
    BY DEF Sample!GetSkipVectorNow
  <2>2. sample' = sample
    BY <1>4 DEF Sample!ProvideSource, Sample!Capture
  <2> QED
    BY <1>3, <1>4, <2>1, <2>2 DEF Sample!ProvideSource
<1>5. CASE Sample!ProvideSource2
  <2>1. sample' = sample
    BY <1>5 DEF Sample!ProvideSource2, Sample!Capture
  <2> QED
    BY <1>3, <1>5, <2>1 DEF Sample!ProvideSource2
<1>6. CASE Sample!CameraEnds
  BY <1>0, <1>1, <1>6 DEF Sample!CameraEnds, Sample!Move, Sample!Finished
<1>7. ASSUME NEW i \in 1..Sample!Final, Sample!LeaveLoop(i)
      PROVE  FramesInv'
  BY <1>1, <1>7 DEF Sample!LeaveLoop, Sample!Move, Sample!Finished
<1>8. ASSUME NEW i \in 1..Sample!Final, Sample!Await(i)
      PROVE  FramesInv'
  BY <1>1, <1>8 DEF Sample!Await, Sample!Move
<1>9. ASSUME NEW i \in 1..Sample!Final, Sample!Pop(i)
      PROVE  FramesInv'
  <2>1. /\ i > 1 /\ belts[i - 1] # <<>> /\ sample' = sample /\ captured' = captured
        /\ stage' = [stage EXCEPT ![i] = Sample!Thread("process", Head(belts[i - 1]))]
        /\ belts' = [belts EXCEPT ![i - 1] = Tail(belts[i - 1])]
    BY <1>9 DEF Sample!Pop, Sample!Move
  <2>2. i - 1 \in 1..Sample!Final
    BY <2>1, StagesOf
  <2>3. belts[i - 1] \in Seq(Frame) /\ \A k \in DOMAIN belts[i - 1] : Made(belts[i - 1][k], i - 1)
    BY <2>2 DEF BeltsInv
  <2>4. /\ Head(belts[i - 1]) \in Frame /\ Made(Head(belts[i - 1]), i - 1)
        /\ Tail(belts[i - 1]) \in Seq(Frame)
        /\ \A k \in DOMAIN Tail(belts[i - 1]) : Made(Tail(belts[i - 1])[k], i - 1)
    BY <2>1, <2>3, BeltFacts
  <2>5. StagesInv'
    BY <2>1, <2>4, StagesKept
  <2>6. BeltsInv'
    BY <2>1, <2>2, <2>4, BeltsKept
  <2> QED
    BY <2>1, <2>5, <2>6
<1>10. ASSUME NEW i \in 1..Sample!Final, Sample!Process(i)
       PROVE  FramesInv'
  <2>1. i \in 2..Sample!Final /\ stage[i].frame \in Frame /\ Made(stage[i].frame, i - 1)
    BY <1>10, StagesOf DEF Sample!Process, StagesInv
  <2>2. PICK after \in Sample!ProcessedBy(Sample!Stages[i], stage[i].frame) :
          stage' = [stage EXCEPT ![i] = Sample!Thread("push", after)]
    BY <1>10 DEF Sample!Process, Sample!Move
  <2>3. after \in Frame /\ Made(after, i)
    BY <2>1, <2>2, ProcessedIsMade
  <2>4. belts' = belts /\ captured' = captured /\ sample' = sample
    BY <1>10 DEF Sample!Process
  <2>5. StagesInv'
    BY <2>2, <2>3, <2>4, StagesKept
  <2> QED
    BY <1>0, <2>4, <2>5, BeltsKept DEF BeltsInv
<1>11. ASSUME NEW i \in 1..Sample!Final, Sample!Push(i)
       PROVE  FramesInv'
  <2>1. /\ stage[i].at = "push" /\ sample' = sample /\ captured' = captured
        /\ stage' = [stage EXCEPT ![i] = Sample!Thread("loop", Sample!NoFrame)]
        /\ belts' = [belts EXCEPT ![i] = Append(belts[i], stage[i].frame)] \/ belts' = belts
    BY <1>11 DEF Sample!Push, Sample!Move, Sample!Looping, Sample!Conveyed
  <2>2. stage[i].frame \in Frame /\ Made(stage[i].frame, i)
    BY <2>1 DEF StagesInv
  <2>3. belts[i] \in Seq(Frame) /\ \A k \in DOMAIN belts[i] : Made(belts[i][k], i)
    BY DEF BeltsInv
  <2>4. /\ Append(belts[i], stage[i].frame) \in Seq(Frame)
        /\ \A k \in DOMAIN Append(belts[i], stage[i].frame) :
             Made(Append(belts[i], stage[i].frame)[k], i)
    BY <2>2, <2>3, BeltFacts
  <2>5. BeltsInv'
    BY <2>1, <2>4, BeltsKept
  <2>6. StagesInv'
    BY <2>1, StagesKept, NoFrameIsFrame
  <2> QED
    BY <2>1, <2>5, <2>6
<1>12. CASE Sample!OsdModule
  <2>1. /\ belts[Sample!Final] # <<>> /\ sample' = sample /\ captured' = captured /\ stage' = stage
        /\ belts' = [belts EXCEPT ![Sample!Final] = Tail(belts[Sample!Final])]
    BY <1>12 DEF Sample!OsdModule
  <2>2. /\ belts[Sample!Final] \in Seq(Frame)
        /\ \A k \in DOMAIN belts[Sample!Final] : Made(belts[Sample!Final][k], Sample!Final)
    BY <1>0 DEF BeltsInv
  <2>3. /\ Tail(belts[Sample!Final]) \in Seq(Frame)
        /\ \A k \in DOMAIN Tail(belts[Sample!Final]) :
             Made(Tail(belts[Sample!Final])[k], Sample!Final)
    BY <2>1, <2>2, BeltFacts
  <2>4. BeltsInv'
    BY <1>0, <2>1, <2>3, BeltsKept
  <2>5. StagesInv'
    BY <2>1, StagesRest
  <2> QED
    BY <2>1, <2>4, <2>5
<1>13. CASE Sample!Delete
  BY <1>2, <1>13 DEF Sample!Delete
<1>14. ASSUME NEW i \in 1..Sample!Final, Sample!Join(i)
       PROVE  FramesInv'
  BY <1>2, <1>14 DEF Sample!Join
<1>15. CASE UNCHANGED sampleVars
  BY <1>2, <1>15 DEF sampleVars
<1> QED
  BY <1>4, <1>5, <1>6, <1>7, <1>8, <1>9, <1>10, <1>11, <1>12, <1>13, <1>14, <1>15
     DEF Sample!SampleNext, Sample!SampleMain, Sample!SampleThread

\* The last labels of a network among the frames drawn, as LastLabelled finds them.
LastIn(all, n, d) ==
  LET before == LabelledIn(all, n, d)
  IN IF before = {} THEN <<>>
     ELSE LET e == CHOOSE e \in before : \A o \in before : o <= e
          IN <<all[e].number, Len(all[e].labels)>>

LEMMA LastIs ==
  ASSUME NEW all, NEW n, NEW d \in Nat
  PROVE  /\ LabelledIn(all, n, d) = {} => LastIn(all, n, d) = <<>>
         /\ \A e : IsLastIn(all, n, d, e) =>
              LastIn(all, n, d) = <<all[e].number, Len(all[e].labels)>>
<1>1. ASSUME NEW e, IsLastIn(all, n, d, e)
      PROVE  LastIn(all, n, d) = <<all[e].number, Len(all[e].labels)>>
  <2>1. PICK before : before = LabelledIn(all, n, d)
    OBVIOUS
  <2>2. before \subseteq Int
    BY <2>1 DEF LabelledIn
  <2>3. e \in before /\ \A o \in before : o <= e
    BY <1>1, <2>1 DEF IsLastIn
  <2>4. PICK last : last = CHOOSE l \in before : \A o \in before : o <= l
    OBVIOUS
  <2>5. last \in before /\ \A o \in before : o <= last
    BY <2>3, <2>4
  <2>6. last = e
    BY <2>2, <2>3, <2>5
  <2>7. before # {} /\ e = CHOOSE l \in before : \A o \in before : o <= l
    BY <2>3, <2>4, <2>6
  <2> QED
    BY <2>1, <2>7 DEF LastIn
<1> QED
  BY <1>1 DEF LastIn

LEMMA LabelledAppend ==
  ASSUME NEW all \in Seq(Drawn), NEW new \in Drawn, NEW n
  PROVE  /\ \A d \in 1..Len(all) + 1 :
              LabelledIn(Append(all, new), n, d) = LabelledIn(all, n, d)
         /\ IF n \notin new.skip /\ new.labels # <<>>
            THEN IsLastIn(Append(all, new), n, Len(all) + 2, Len(all) + 1)
            ELSE LabelledIn(Append(all, new), n, Len(all) + 2) = LabelledIn(all, n, Len(all) + 1)
<1>0. PICK len \in Nat : len = Len(all)
  OBVIOUS
<1>1. PICK more : more = Append(all, new) /\ len = Len(all)
  BY <1>0
<1>2. /\ \A e \in 1..len : more[e] = all[e]
      /\ more[len + 1] = new
  BY <1>1
<1>3. ASSUME NEW d \in 1..len + 1
      PROVE  LabelledIn(more, n, d) = LabelledIn(all, n, d)
  <2>1. \A e \in 1..d - 1 : e \in 1..len
    OBVIOUS
  <2> QED
    BY <1>2, <2>1 DEF LabelledIn
<1>4. \A e \in 1..(len + 2) - 1 : e \in 1..len \/ e = len + 1
  OBVIOUS
<1>5. (len + 1) - 1 = len /\ len + 1 \in 1..(len + 2) - 1
  OBVIOUS
<1>6. CASE n \notin new.skip /\ new.labels # <<>>
  <2>1. len + 1 \in LabelledIn(more, n, len + 2)
    BY <1>2, <1>5, <1>6 DEF LabelledIn
  <2>2. \A o \in LabelledIn(more, n, len + 2) : o <= len + 1
    BY <1>4 DEF LabelledIn
  <2> QED
    BY <1>1, <1>3, <1>6, <2>1, <2>2 DEF IsLastIn
<1>7. CASE ~(n \notin new.skip /\ new.labels # <<>>)
  <2>1. ASSUME NEW e \in 1..(len + 2) - 1, n \notin more[e].skip, more[e].labels # <<>>
        PROVE  e \in 1..len
    BY <1>2, <1>4, <1>7, <2>1
  <2>2. LabelledIn(more, n, len + 2) \subseteq LabelledIn(all, n, len + 1)
    BY <1>2, <1>5, <2>1 DEF LabelledIn
  <2>3. LabelledIn(all, n, len + 1) \subseteq LabelledIn(more, n, len + 2)
    BY <1>2, <1>5 DEF LabelledIn
  <2>4. LabelledIn(more, n, len + 2) = LabelledIn(all, n, len + 1)
    BY <2>2, <2>3
  <2> QED
    BY <1>1, <1>3, <1>7, <2>4
<1> QED
  BY <1>6, <1>7

\* A frame drawn has the last labels from then on, or leaves them what they were.
LEMMA LastAppend ==
  ASSUME NEW all \in Seq(Drawn), NEW new \in Drawn, NEW n, HaveLast(all, n)
  PROVE  /\ HaveLast(Append(all, new), n)
         /\ \A d \in 1..Len(all) + 1 : LastIn(Append(all, new), n, d) = LastIn(all, n, d)
         /\ LastIn(Append(all, new), n, Len(all) + 2) =
              IF n \notin new.skip /\ new.labels # <<>> THEN <<new.number, Len(new.labels)>>
              ELSE LastIn(all, n, Len(all) + 1)
<1>0. PICK len \in Nat : len = Len(all)
  OBVIOUS
<1>1. PICK more : more = Append(all, new) /\ len = Len(all)
  BY <1>0
<1>2. /\ \A e \in 1..len : more[e] = all[e]
      /\ more[len + 1] = new /\ Len(more) = len + 1
  BY <1>1
<1>3. /\ \A d \in 1..len + 1 : LabelledIn(more, n, d) = LabelledIn(all, n, d)
      /\ IF n \notin new.skip /\ new.labels # <<>> THEN IsLastIn(more, n, len + 2, len + 1)
         ELSE LabelledIn(more, n, len + 2) = LabelledIn(all, n, len + 1)
  BY <1>1, LabelledAppend
<1>4. \A d \in 1..len + 1 : \/ LabelledIn(all, n, d) = {}
                            \/ \E e \in 1..len : IsLastIn(all, n, d, e)
  BY <1>1 DEF HaveLast
<1>5. ASSUME NEW d \in 1..len + 1, NEW c \in Nat, LabelledIn(more, n, c) = LabelledIn(all, n, d)
      PROVE  /\ LabelledIn(more, n, c) = {} \/ \E e \in 1..len : IsLastIn(more, n, c, e)
             /\ LastIn(more, n, c) = LastIn(all, n, d)
  <2>1. CASE LabelledIn(all, n, d) = {}
    BY <1>5, <2>1, LastIs
  <2>2. ASSUME NEW e \in 1..len, IsLastIn(all, n, d, e)
        PROVE  IsLastIn(more, n, c, e) /\ LastIn(more, n, c) = LastIn(all, n, d)
    <3>1. IsLastIn(more, n, c, e)
      BY <1>5, <2>2 DEF IsLastIn
    <3>2. d \in Nat /\ more[e] = all[e]
      BY <1>2
    <3>3. /\ LastIn(all, n, d) = <<all[e].number, Len(all[e].labels)>>
          /\ LastIn(more, n, c) = <<more[e].number, Len(more[e].labels)>>
      BY <2>2, <3>1, <3>2, LastIs
    <3> QED
      BY <3>1, <3>2, <3>3
  <2> QED
    BY <1>4, <2>1, <2>2
<1>6. \A d \in 1..len + 1 :
        /\ LabelledIn(more, n, d) = {} \/ \E e \in 1..len + 1 : IsLastIn(more, n, d, e)
        /\ LastIn(more, n, d) = LastIn(all, n, d)
  <2> TAKE d \in 1..len + 1
  <2>1. d \in Nat /\ \A e \in 1..len : e \in 1..len + 1
    OBVIOUS
  <2> QED
    BY <1>3, <1>5, <2>1
<1>7. /\ LabelledIn(more, n, len + 2) = {} \/ \E e \in 1..len + 1 : IsLastIn(more, n, len + 2, e)
      /\ LastIn(more, n, len + 2) =
           IF n \notin new.skip /\ new.labels # <<>> THEN <<new.number, Len(new.labels)>>
           ELSE LastIn(all, n, len + 1)
  <2>1. len + 2 \in Nat /\ len + 1 \in 1..len + 1 /\ \A e \in 1..len : e \in 1..len + 1
    OBVIOUS
  <2>2. CASE n \notin new.skip /\ new.labels # <<>>
    <3>1. IsLastIn(more, n, len + 2, len + 1)
      BY <1>3, <2>2
    <3>2. LastIn(more, n, len + 2) = <<more[len + 1].number, Len(more[len + 1].labels)>>
      BY <2>1, <3>1, LastIs
    <3> QED
      BY <1>2, <2>1, <2>2, <3>1, <3>2
  <2>3. CASE ~(n \notin new.skip /\ new.labels # <<>>)
    BY <1>3, <1>5, <2>1, <2>3
  <2> QED
    BY <2>2, <2>3
<1>8. HaveLast(more, n)
  <2>1. \A d \in 1..(len + 1) + 1 : d \in 1..len + 1 \/ d = len + 2
    OBVIOUS
  <2> QED
    BY <1>2, <1>6, <1>7, <2>1 DEF HaveLast
<1> QED
  BY <1>1, <1>6, <1>7, <1>8

LEMMA LastLabelledIs ==
  /\ \A n, d : Sample!LastLabelled(n, d) = LastIn(displayed, n, d)
  /\ \A n, d : Sample!LastLabelled(n, d)' = LastIn(displayed', n, d)
  BY DEF Sample!LastLabelled, LastIn, LabelledIn

\* The labels of a frame that has passed all networks, face by face.
LEMMA LabelsDrawn ==
  ASSUME sample \in {1, 2}, labels \in Label, NEW frame \in Frame, Made(frame, Sample!Final)
  PROVE  /\ Sample!DrawByObj(frame) \in Seq(Label)
         /\ Len(Sample!DrawByObj(frame)) = frame.faces
         /\ \A f \in 1..frame.faces :
              /\ Sample!DrawByObj(frame)[f] = Sample!NewLabels(frame, f)
              /\ Sample!NewLabels(frame, f) \in Label
         /\ \A n \in Sample!LabelNetworks : n \notin frame.skip =>
              /\ frame.result[n] \in [1..frame.faces -> Nat]
              /\ sample = 1 => \A f \in 1..frame.faces : frame.result[n][f] = f
              /\ \A f, g \in 1..frame.faces : frame.result[n][f] = frame.result[n][g] => f = g
<1>1. frame.number \in Nat /\ frame.faces \in Nat
  BY DEF Made
<1>2. ASSUME NEW n \in Sample!LabelNetworks, n \notin frame.skip
      PROVE  frame.result[n] \in Sample!Results(frame.faces)
  <2>1. RanAt(n) <= Sample!Final
    BY StagesOf DEF RanAt
  <2> QED
    BY <1>2, <2>1 DEF Made
<1>3. ASSUME NEW n \in Sample!LabelNetworks, n \notin frame.skip
      PROVE  /\ frame.result[n] \in [1..frame.faces -> Nat]
             /\ sample = 1 => \A f \in 1..frame.faces : frame.result[n][f] = f
             /\ \A f, g \in 1..frame.faces : frame.result[n][f] = frame.result[n][g] => f = g
  <2>1. PICK r \in Sample!Results(frame.faces) : r = frame.result[n]
    BY <1>2, <1>3
  <2>2. /\ r \in [1..frame.faces -> 1..frame.faces]
        /\ sample = 1 => \A f \in 1..frame.faces : r[f] = f
        /\ \A f, g \in 1..frame.faces : r[f] = r[g] => f = g
    BY <1>1, <2>1, ResultFacts, Zenon
  <2> QED
    BY <2>1, <2>2
<1>4. ASSUME NEW f \in 1..frame.faces
      PROVE  Sample!NewLabels(frame, f) \in Label
  <2>1. ASSUME NEW n \in Sample!LabelNetworks
        PROVE  (IF Sample!Skips(n, frame) THEN labels[n]
                ELSE <<frame.number, frame.result[n][f]>>) \in Seq(Nat)
    <3>1. CASE n \in frame.skip
      BY <3>1 DEF Sample!Skips, Label
    <3>2. CASE n \notin frame.skip
      <4>1. frame.result[n][f] \in Nat
        BY <1>3, <3>2
      <4> QED
        BY <1>1, <3>2, <4>1 DEF Sample!Skips
    <3> QED
      BY <3>1, <3>2
  <2> QED
    BY <2>1 DEF Sample!NewLabels, Label
<1>5. /\ Sample!DrawByObj(frame) \in Seq(Label)
      /\ Len(Sample!DrawByObj(frame)) = frame.faces
      /\ \A f \in 1..frame.faces : Sample!DrawByObj(frame)[f] = Sample!NewLabels(frame, f)
  BY <1>1, <1>4 DEF Sample!DrawByObj
<1> QED
  BY <1>3, <1>4, <1>5

\* What LabelsOfFaces says of one frame drawn and one network.
RightIn(all, first, n, d) ==
  LET texts == [f \in DOMAIN all[d].labels |-> all[d].labels[f][n]]
  IN IF first
     THEN \A f \in DOMAIN texts :
            texts[f] = IF n \in all[d].skip THEN LastIn(all, n, d) ELSE <<all[d].number, f>>
     ELSE Sample!IsInjective(texts) /\ \A f \in DOMAIN texts : texts[f][1] = all[d].number

LEMMA RightIs ==
  /\ Sample!LabelsOfFaces <=>
       \A d \in DOMAIN displayed : \A n \in Sample!LabelNetworks :
         RightIn(displayed, sample = 1, n, d)
  /\ Sample!LabelsOfFaces' <=>
       \A d \in DOMAIN displayed' : \A n \in Sample!LabelNetworks :
         RightIn(displayed', sample' = 1, n, d)
<1>1. Sample!LabelNetworks' = Sample!LabelNetworks
  BY DEF Sample!LabelNetworks
<1> QED
  BY <1>1, LastLabelledIs, Zenon DEF Sample!LabelsOfFaces, RightIn

\* A frame drawn is right, and leaves those before it what they were.
LEMMA RightAppend ==
  ASSUME sample \in {1, 2}, LabelsInv, NEW frame \in Frame, Made(frame, Sample!Final),
         NEW new, new = [number |-> frame.number, skip |-> frame.skip,
                         labels |-> Sample!DrawByObj(frame)],
         NEW n \in Sample!LabelNetworks, NEW d \in 1..Len(displayed) + 1,
         d \in 1..Len(displayed) => RightIn(displayed, sample = 1, n, d)
  PROVE  RightIn(Append(displayed, new), sample = 1, n, d)
<1>0. PICK len \in Nat : len = Len(displayed)
  BY DEF LabelsInv
<1>1. PICK more : more = Append(displayed, new) /\ len = Len(displayed)
  BY <1>0
<1>2. /\ frame.number \in Nat /\ frame.faces \in Nat /\ frame.skip \subseteq Sample!LabelNetworks
      /\ labels \in Label /\ displayed \in Seq(Drawn)
  BY DEF Frame, LabelsInv
<1>3. /\ new.number = frame.number /\ new.skip = frame.skip /\ new.labels = Sample!DrawByObj(frame)
  OBVIOUS
<1>4. /\ new.labels \in Seq(Label) /\ Len(new.labels) = frame.faces
      /\ \A f \in 1..frame.faces : new.labels[f] = Sample!NewLabels(frame, f)
  BY <1>2, <1>3, LabelsDrawn
<1>5. new \in Drawn
  BY <1>2, <1>3, <1>4 DEF Drawn
<1>6. /\ \A e \in 1..len : more[e] = displayed[e]
      /\ more[len + 1] = new
  BY <1>0, <1>1, <1>2
<1>7. \A e \in 1..len + 1 : LastIn(more, n, e) = LastIn(displayed, n, e)
  BY <1>1, <1>2, <1>5, LastAppend, Zenon DEF LabelsInv
<1>8. d \in 1..len \/ d = len + 1
  BY <1>1
<1>9. CASE d \in 1..len
  <2>1. d \in 1..len + 1
    BY <1>1
  <2> QED
    BY <1>1, <1>6, <1>7, <1>9, <2>1 DEF RightIn
<1>10. CASE d = len + 1
  <2>1. DOMAIN new.labels = 1..frame.faces
    BY <1>2, <1>4
  <2>2. ASSUME NEW f \in 1..frame.faces
        PROVE  new.labels[f][n] = IF n \in frame.skip THEN labels[n]
                                  ELSE <<frame.number, frame.result[n][f]>>
    BY <1>4 DEF Sample!NewLabels, Sample!Skips
  <2>3. more[d] = new
    BY <1>6, <1>10
  <2>4. CASE sample = 1
    <3>1. labels[n] = LastIn(more, n, d)
      <4>1. labels[n] = LastIn(displayed, n, len + 1)
        BY <1>1, <2>4, LastLabelledIs DEF LabelsInv
      <4>2. len + 1 \in 1..len + 1
        OBVIOUS
      <4> QED
        BY <1>7, <1>10, <4>1, <4>2
    <3>2. n \notin frame.skip => \A f \in 1..frame.faces : frame.result[n][f] = f
      BY <1>2, <2>4, LabelsDrawn
    <3>3. \A f \in 1..frame.faces :
            new.labels[f][n] = IF n \in new.skip THEN LastIn(more, n, d) ELSE <<new.number, f>>
      BY <1>3, <2>2, <3>1, <3>2
    <3> QED
      BY <1>1, <2>1, <2>3, <2>4, <3>3, Zenon DEF RightIn
  <2>5. CASE sample = 2
    <3>1. n \notin frame.skip
      BY <2>5 DEF Made
    <3>2. \A f, g \in 1..frame.faces : frame.result[n][f] = frame.result[n][g] => f = g
      BY <1>2, <3>1, LabelsDrawn
    <3>3. \A f \in 1..frame.faces : new.labels[f][n] = <<frame.number, frame.result[n][f]>>
      BY <2>2, <3>1
    <3>4. PICK texts : texts = [f \in DOMAIN new.labels |-> new.labels[f][n]]
      OBVIOUS
    <3>5. /\ DOMAIN texts = 1..frame.faces
          /\ \A f \in 1..frame.faces : texts[f] = <<frame.number, frame.result[n][f]>>
      BY <2>1, <3>3, <3>4
    <3>6. Sample!IsInjective(texts)
      BY <3>2, <3>5 DEF Sample!IsInjective
    <3>7. \A f \in DOMAIN texts : texts[f][1] = new.number
      BY <1>3, <3>5
    <3> QED
      BY <1>1, <2>3, <2>5, <3>4, <3>6, <3>7 DEF RightIn
  <2> QED
    BY <2>4, <2>5
<1> QED
  BY <1>8, <1>9, <1>10

LEMMA SamplesInvInit == Sample!SampleStarted => SamplesInv
<1> SUFFICES ASSUME Sample!SampleStarted PROVE SamplesInv
  OBVIOUS
<1>1. /\ displayed = <<>> /\ Len(displayed) = 0
      /\ labels = [n \in Sample!LabelNetworks |-> <<>>]
  BY DEF Sample!SampleStarted
<1>2. \A n : LabelledIn(displayed, n, 1) = {}
  BY DEF LabelledIn
<1>3. \A n : HaveLast(displayed, n)
  <2>1. \A d \in 1..0 + 1 : d = 1
    OBVIOUS
  <2> QED
    BY <1>1, <1>2, <2>1 DEF HaveLast
<1>4. \A n \in Sample!LabelNetworks : labels[n] = Sample!LastLabelled(n, Len(displayed) + 1)
  <2>1. Len(displayed) + 1 = 1
    BY <1>1
  <2>2. \A n : LastIn(displayed, n, 1) = <<>>
    BY <1>2 DEF LastIn
  <2> QED
    BY <1>1, <2>1, <2>2, LastLabelledIs
<1>5. labels \in Label /\ displayed \in Seq(Drawn)
  BY <1>1 DEF Label
<1>6. Sample!LabelsOfFaces
  BY <1>1 DEF Sample!LabelsOfFaces
<1> QED
  BY <1>3, <1>4, <1>5, <1>6, FramesInvInit DEF SamplesInv, LabelsInv

LEMMA LabelsRest ==
  ASSUME LabelsInv, Sample!LabelsOfFaces, UNCHANGED <<sample, labels, displayed>>
  PROVE  LabelsInv' /\ Sample!LabelsOfFaces'
<1>1. Sample!LabelNetworks' = Sample!LabelNetworks
  BY DEF Sample!LabelNetworks
<1>2. LabelsInv'
  <2>1. Label' = Label /\ Drawn' = Drawn
    BY <1>1 DEF Label, Drawn
  <2>2. \A n, d : Sample!LastLabelled(n, d)' = Sample!LastLabelled(n, d)
    BY LastLabelledIs
  <2>3. \A n : HaveLast(displayed, n)' <=> HaveLast(displayed, n)
    BY DEF HaveLast, IsLastIn, LabelledIn
  <2> QED
    BY <1>1, <2>1, <2>2, <2>3 DEF LabelsInv
<1>3. Sample!LabelsOfFaces'
  BY RightIs
<1> QED
  BY <1>2, <1>3

LEMMA LabelsOsd ==
  ASSUME FramesInv, LabelsInv, Sample!LabelsOfFaces, Sample!OsdModule
  PROVE  LabelsInv' /\ Sample!LabelsOfFaces'
<1>1. sample \in {1, 2} /\ sample' = sample /\ Sample!LabelNetworks' = Sample!LabelNetworks
  BY DEF FramesInv, Sample!OsdModule, Sample!LabelNetworks
<1>2. PICK frame : frame = Head(belts[Sample!Final])
  OBVIOUS
<1>3. frame \in Frame /\ Made(frame, Sample!Final)
  <2>1. Sample!Final \in 1..Sample!Final
    BY <1>1, StagesOf
  <2>2. /\ belts[Sample!Final] \in Seq(Frame) /\ belts[Sample!Final] # <<>>
        /\ \A k \in DOMAIN belts[Sample!Final] : Made(belts[Sample!Final][k], Sample!Final)
    BY <2>1 DEF FramesInv, BeltsInv, Sample!OsdModule
  <2> QED
    BY <1>2, <2>2, BeltFacts
<1>4. PICK new : new = [number |-> frame.number, skip |-> frame.skip,
                        labels |-> Sample!DrawByObj(frame)]
  OBVIOUS
<1>5. /\ displayed' = Append(displayed, new)
      /\ labels' = IF sample = 1 /\ frame.faces > 0 THEN Sample!NewLabels(frame, frame.faces)
                   ELSE labels
  BY <1>2, <1>4 DEF Sample!OsdModule
<1>6. /\ frame.number \in Nat /\ frame.faces \in Nat /\ frame.skip \subseteq Sample!LabelNetworks
      /\ labels \in Label /\ displayed \in Seq(Drawn)
  BY <1>3 DEF Frame, LabelsInv
<1>7. /\ new.number = frame.number /\ new.skip = frame.skip /\ new.labels = Sample!DrawByObj(frame)
  BY <1>4
<1>8. /\ new.labels \in Seq(Label) /\ Len(new.labels) = frame.faces
      /\ \A f \in 1..frame.faces : Sample!NewLabels(frame, f) \in Label
  BY <1>1, <1>3, <1>6, <1>7, LabelsDrawn
<1>9. new \in Drawn
  BY <1>4, <1>6, <1>7, <1>8 DEF Drawn
<1>10. Label' = Label /\ Drawn' = Drawn
  BY <1>1 DEF Label, Drawn
<1>11. labels' \in Label /\ displayed' \in Seq(Drawn) /\ Len(displayed') = Len(displayed) + 1
  <2>1. frame.faces > 0 => frame.faces \in 1..frame.faces
    BY <1>6
  <2> QED
    BY <1>5, <1>6, <1>8, <1>9, <2>1
<1>12. ASSUME NEW n \in Sample!LabelNetworks
       PROVE  /\ HaveLast(displayed', n)
              /\ sample = 1 => labels'[n] = LastIn(displayed', n, Len(displayed) + 2)
  <2>1. HaveLast(displayed, n)
    BY DEF LabelsInv
  <2>2. /\ HaveLast(displayed', n)
        /\ LastIn(displayed', n, Len(displayed) + 2) =
             IF n \notin new.skip /\ new.labels # <<>> THEN <<new.number, Len(new.labels)>>
             ELSE LastIn(displayed, n, Len(displayed) + 1)
    BY <1>5, <1>6, <1>9, <2>1, LastAppend
  <2>3. ASSUME sample = 1
        PROVE  labels'[n] = LastIn(displayed', n, Len(displayed) + 2)
    <3>1. labels[n] = LastIn(displayed, n, Len(displayed) + 1)
      BY <2>3, LastLabelledIs DEF LabelsInv
    <3>2. new.labels # <<>> <=> frame.faces > 0
      BY <1>6, <1>8
    <3>3. CASE frame.faces > 0
      <4>1. labels'[n] = IF n \in frame.skip THEN labels[n]
                         ELSE <<frame.number, frame.result[n][frame.faces]>>
        BY <1>5, <2>3, <3>3 DEF Sample!NewLabels, Sample!Skips
      <4>2. n \notin frame.skip => frame.result[n][frame.faces] = frame.faces
        <5>1. frame.faces \in 1..frame.faces
          BY <1>6, <3>3
        <5> QED
          BY <1>1, <1>3, <1>6, <2>3, <5>1, LabelsDrawn
      <4> QED
        BY <1>7, <1>8, <2>2, <3>1, <3>2, <3>3, <4>1, <4>2
    <3>4. CASE ~(frame.faces > 0)
      BY <1>5, <2>2, <3>1, <3>2, <3>4
    <3> QED
      BY <3>3, <3>4
  <2> QED
    BY <2>2, <2>3
<1>13. LabelsInv'
  <2>1. Len(displayed') + 1 = Len(displayed) + 2
    BY <1>6, <1>11
  <2>2. \A n \in Sample!LabelNetworks : HaveLast(displayed, n)'
    BY <1>12 DEF HaveLast, IsLastIn, LabelledIn
  <2>3. sample = 1 => \A n \in Sample!LabelNetworks :
          labels'[n] = Sample!LastLabelled(n, Len(displayed) + 1)'
    BY <1>12, <2>1, LastLabelledIs DEF Sample!LastLabelled, LastIn, LabelledIn
  <2> QED
    BY <1>1, <1>10, <1>11, <2>2, <2>3 DEF LabelsInv
<1>14. Sample!LabelsOfFaces'
  <2>1. DOMAIN displayed' = 1..Len(displayed) + 1 /\ DOMAIN displayed = 1..Len(displayed)
    BY <1>6, <1>11
  <2>2. \A d \in 1..Len(displayed) : \A n \in Sample!LabelNetworks :
          RightIn(displayed, sample = 1, n, d)
    BY <2>1, RightIs
  <2>3. \A d \in 1..Len(displayed) + 1 : \A n \in Sample!LabelNetworks :
          RightIn(displayed', sample = 1, n, d)
    BY <1>1, <1>3, <1>4, <1>5, <2>2, RightAppend
  <2> QED
    BY <1>1, <2>1, <2>3, RightIs
<1> QED
  BY <1>13, <1>14

LEMMA SamplesInvNext ==
  ASSUME SamplesInv, [Sample!SampleNext]_sampleVars
  PROVE  SamplesInv'
<1> USE DEF SamplesInv
<1>1. FramesInv'
  BY FramesInvNext
<1>2. CASE UNCHANGED <<sample, labels, displayed>>
  BY <1>1, <1>2, LabelsRest
<1>3. CASE Sample!OsdModule
  BY <1>1, <1>3, LabelsOsd
<1>4. CASE Sample!ProvideSource \/ Sample!ProvideSource2 \/ Sample!CameraEnds \/ Sample!Delete
  BY <1>2, <1>4
     DEF Sample!ProvideSource, Sample!ProvideSource2, Sample!Capture, Sample!CameraEnds,
         Sample!Delete
<1>5. ASSUME NEW i \in 1..Sample!Final, Sample!SampleThread(i) \/ Sample!Join(i)
      PROVE  SamplesInv'
  BY <1>2, <1>5
     DEF Sample!SampleThread, Sample!LeaveLoop, Sample!Await, Sample!Pop, Sample!Process,
         Sample!Push, Sample!Join
<1>6. CASE UNCHANGED sampleVars
  BY <1>2, <1>6 DEF sampleVars
<1> QED
  BY <1>3, <1>4, <1>5, <1>6 DEF Sample!SampleNext, Sample!SampleMain

-----------------------------------------------------------------------------

(* A process that has gone on without an engine, a context or buffers had  *)
(* no good model or read a file whose writing was cut short; no thread of  *)
(* a sample uses a deleted model before its user leaves.                   *)
THEOREM EndsOnlyForTheirCauses == SuiteSpec => []EndsForCause
<1>1. SuiteInit => CausesInv
  <2> SUFFICES ASSUME SuiteInit PROVE CausesInv
    OBVIOUS
  <2>3. LoaderInv
    BY LoaderInvInit DEF SuiteInit
  <2>4. Sample!SampleStarted /\ (part = "sample" => fault = FALSE)
    BY DEF SuiteInit
  <2>5. ModelsInv
    BY <2>4 DEF ModelsInv, Sample!SampleStarted
  <2>6. FramesInv
    BY <2>4, FramesInvInit
  <2> QED
    BY <2>3, <2>5, <2>6 DEF CausesInv
<1>2. CausesInv /\ [SuiteNext]_suiteVars => CausesInv'
  <2> SUFFICES ASSUME CausesInv, [SuiteNext]_suiteVars PROVE CausesInv'
    OBVIOUS
  <2>1. /\ part' = part
        /\ [Loader!LoaderNext]_loaderVars /\ [Sample!SampleNext]_sampleVars
    BY SuiteStep
  <2>3. LoaderInv'
    BY <2>1, LoaderInvNext DEF CausesInv
  <2>4. ModelsInv'
    BY <2>1, ModelsInvNext DEF CausesInv, FramesInv
  <2>5. FramesInv'
    BY <2>1, FramesInvNext DEF CausesInv
  <2> QED
    BY <2>3, <2>4, <2>5 DEF CausesInv
<1>3. CausesInv => EndsForCause
  <2> SUFFICES ASSUME CausesInv PROVE EndsForCause
    OBVIOUS
  <2>2. Loader!LoaderFailsForCause
    BY DEF CausesInv, LoaderInv, NotForNothing, Loader!LoaderFailsForCause
  <2>3. part = "sample" => Sample!ModelsOutlast
    BY DEF CausesInv, ModelsInv, UserStays, Sample!ModelsOutlast
  <2> QED
    BY <2>2, <2>3 DEF EndsForCause
<1> QED
  BY <1>1, <1>2, <1>3, PTL DEF SuiteSpec

(* The labels drawn at a face are its own, or, where the frame skips the   *)
(* network, those of the last face of the last frame that did not and had  *)
(* a face; in the second sample those of a face of the same frame, no two  *)
(* faces with the same.  It holds for any capacity of the conveyors, any   *)
(* numbers of frames skipped, and as many faces as there may be.           *)
THEOREM LabelsAreOfFaces == SuiteSpec => []LabelsOfFaces
<1>1. SuiteInit => SamplesInv
  BY SamplesInvInit DEF SuiteInit
<1>2. SamplesInv /\ [SuiteNext]_suiteVars => SamplesInv'
  BY SuiteStep, SamplesInvNext
<1>3. SamplesInv => LabelsOfFaces
  BY DEF SamplesInv, LabelsOfFaces
<1> QED
  BY <1>1, <1>2, <1>3, PTL DEF SuiteSpec

-----------------------------------------------------------------------------
(* What modules share of a frame.                                          *)

LEMMA ObjectsInvInit == Objects!ObjectInit => ObjectsInv
  BY DEF Objects!ObjectInit, Objects!Nothing, ObjectsInv

LEMMA ObjectsInvNext ==
  ASSUME ObjectsInv, [Objects!ObjectNext]_objectVars
  PROVE  ObjectsInv'
<1> USE DEF ObjectsInv
<1>1. ASSUME NEW map \in [Keys -> Values \cup {NoValue}], NEW k \in Keys, NEW v \in Values
      PROVE  /\ Objects!Added(map, k, v) \in [Keys -> Values \cup {NoValue}]
             /\ \A n \in Keys : map[n] # NoValue => Objects!Added(map, k, v)[n] = map[n]
  BY DEF Objects!Added
<1>2. CASE UNCHANGED <<attributes, features, seen, picture, held, drawn>>
  BY <1>2
<1>3. ASSUME NEW k \in Keys, NEW v \in Values, Objects!AddAttribute(k, v)
      PROVE  ObjectsInv'
  BY <1>1, <1>3 DEF Objects!AddAttribute
<1>4. ASSUME NEW k \in Keys, NEW v \in Values, Objects!AddFeature(k, v)
      PROVE  ObjectsInv'
  BY <1>1, <1>4 DEF Objects!AddFeature
<1>5. ASSUME NEW k \in Keys, Objects!GetAttribute(k)
      PROVE  ObjectsInv'
  <2>1. \A s \in seen' : s \in seen \/ /\ s = <<"attribute", k, attributes[k]>>
                                       /\ attributes[k] # NoValue
    BY <1>5 DEF Objects!GetAttribute
  <2>2. UNCHANGED <<attributes, features, picture, held, drawn>>
    BY <1>5 DEF Objects!GetAttribute
  <2> QED
    BY <2>1, <2>2
<1>6. ASSUME NEW k \in Keys, Objects!GetFeature(k)
      PROVE  ObjectsInv'
  <2>1. \A s \in seen' : s \in seen \/ /\ s = <<"feature", k, features[k]>>
                                       /\ features[k] # NoValue
    BY <1>6 DEF Objects!GetFeature
  <2>2. UNCHANGED <<attributes, features, picture, held, drawn>>
    BY <1>6 DEF Objects!GetFeature
  <2> QED
    BY <2>1, <2>2
<1>7. ASSUME NEW m \in Threads, Objects!ImageBGR(m)
      PROVE  ObjectsInv'
  BY <1>7 DEF Objects!ImageBGR
<1>8. ASSUME NEW m \in Threads, NEW v \in Values, Objects!DrawOn(m, v)
      PROVE  ObjectsInv'
  <2>1. picture = {drawn} /\ picture' = {marks \cup {v} : marks \in picture}
        /\ drawn' = drawn \cup {v}
    BY <1>8 DEF Objects!DrawOn
  <2>2. picture' = {drawn'}
    BY <2>1
  <2> QED
    BY <1>8, <2>2 DEF Objects!DrawOn
<1>9. ASSUME NEW k \in Keys, NEW v \in Values,
             Objects!AddExtraAttribute(k, v) \/ Objects!RemoveExtraAttribute(k)
      PROVE  ObjectsInv'
  BY <1>2, <1>9 DEF Objects!AddExtraAttribute, Objects!RemoveExtraAttribute
<1>10. ASSUME NEW k \in Keys, Objects!RemoveExtraAttribute(k)
       PROVE  ObjectsInv'
  BY <1>2, <1>10 DEF Objects!RemoveExtraAttribute
<1>11. ASSUME NEW m \in Threads, NEW pairs, Objects!AddExtraAttributes(m, pairs)
       PROVE  ObjectsInv'
  BY <1>2, <1>11 DEF Objects!AddExtraAttributes
<1>12. CASE UNCHANGED objectVars
  BY <1>2, <1>12 DEF objectVars
<1> QED
  BY <1>3, <1>4, <1>5, <1>6, <1>7, <1>8, <1>9, <1>10, <1>11, <1>12 DEF Objects!ObjectNext

\* The bytes of a frame of an even height.
LEMMA ChromaFits ==
  ASSUME NEW height \in Nat, height % 2 = 0, NEW stride \in Nat
  PROVE  /\ Objects!GetBytes("NV12", height, stride) = height * stride + (height \div 2) * stride
         /\ Objects!GetBytes("RGBA32", height, stride) = 0
<1>1. PICK half \in Nat : height = 2 * half /\ half = height \div 2
  OBVIOUS
<1>2. PICK chroma \in Nat : chroma = half * stride
  OBVIOUS
<1>3. height * stride = 2 * chroma
  BY <1>1, <1>2
<1>4. (2 * chroma + 1) \div 2 = chroma
  OBVIOUS
<1>5. /\ Objects!GetPlanesByFormat("NV12") = 2
      /\ Objects!GetPlanesByFormat("RGBA32") = 0
  BY DEF Objects!GetPlanesByFormat
<1>6. /\ Objects!GetPlaneBytes("NV12", height, stride, 0) = height * stride
      /\ Objects!GetPlaneBytes("NV12", height, stride, 1) = (height * stride + 1) \div 2
      /\ Objects!GetPlaneBytes("RGBA32", height, stride, 0) = 0
      /\ Objects!GetPlaneBytes("RGBA32", height, stride, 1) = 0
  BY <1>5 DEF Objects!GetPlaneBytes
<1> QED
  BY <1>1, <1>2, <1>3, <1>4, <1>6 DEF Objects!GetBytes

LEMMA ObjectsAreKept == ObjectsInv => Objects!ObjectsKept
<1> SUFFICES ASSUME ObjectsInv PROVE Objects!ObjectsKept
  OBVIOUS
<1>1. \A h \in Heights, stride \in Heights : h % 2 = 0 =>
        /\ Objects!GetBytes("NV12", h, stride) = h * stride + (h \div 2) * stride
        /\ Objects!GetBytes("RGBA32", h, stride) = 0
  BY ChromaFits, SuiteAssumption DEF Objects!ObjectsAssumption
<1>2. picture \subseteq {drawn}
  BY DEF ObjectsInv
<1>3. \A s \in seen : s[3] = IF s[1] = "attribute" THEN attributes[s[2]] ELSE features[s[2]]
  BY DEF ObjectsInv
<1> QED
  BY <1>1, <1>2, <1>3 DEF Objects!ObjectsKept

-----------------------------------------------------------------------------
(* The ids of modules.                                                     *)

LEMMA SmallestExists ==
  ASSUME NEW S, S \subseteq Nat, S # {}
  PROVE  \E x \in S : \A y \in S : x <= y
<1> DEFINE R == {s \in Nat \X Nat : s[1] < s[2]}
<1>1. IsWellFoundedOn(R, Nat)
  BY NatLessThanWellFounded DEF OpToRel
<1>2. \A x, y \in Nat : <<y, x>> \in R <=> y < x
  OBVIOUS
<1> HIDE DEF R
<1>3. PICK x \in S : \A y \in S : ~(<<y, x>> \in R)
  BY <1>1, WFMin
<1>4. ASSUME NEW y \in S PROVE x <= y
  <2>1. x \in Nat /\ y \in Nat
    OBVIOUS
  <2>2. ~(y < x)
    BY <1>2, <1>3, <2>1
  <2> QED
    BY <2>1, <2>2
<1> QED
  BY <1>4

\* The id given to a module is none of those given before.
LEMMA NewId ==
  ASSUME NEW p \in Pipelines, mask[p] \subseteq Nat
  PROVE  Ids!GetModuleIdx(p) = Ids!Invalid \/ Ids!GetModuleIdx(p) \in Nat \ mask[p]
<1>1. CASE Ids!FreeIds(p) = {}
  BY <1>1 DEF Ids!GetModuleIdx
<1>2. CASE Ids!FreeIds(p) # {}
  <2>1. PICK free : free = Ids!FreeIds(p)
    OBVIOUS
  <2>2. free \subseteq Nat /\ free \cap mask[p] = {}
    BY <2>1 DEF Ids!FreeIds
  <2>3. \E x \in free : \A y \in free : x <= y
    BY <1>2, <2>1, <2>2, SmallestExists
  <2>4. Ids!Min(free) \in free
    BY <2>3 DEF Ids!Min
  <2> QED
    BY <1>2, <2>1, <2>2, <2>4 DEF Ids!GetModuleIdx
<1> QED
  BY <1>1, <1>2

LEMMA IdsInvInit == Ids!IdsInit => IdsInv
  BY DEF Ids!IdsInit, IdsInv, Ids!IdsTellApart

LEMMA IdsInvNext ==
  ASSUME IdsInv, [Ids!IdsNext]_idVars
  PROVE  IdsInv'
<1> USE SuiteAssumption DEF IdsInv, Ids!IdsAssumption
<1>1. ASSUME NEW p \in Pipelines, NEW m \in Threads, Ids!AddModule(p, m)
      PROVE  IdsInv'
  <2>1. PICK id : id = Ids!GetId(p, m)
    OBVIOUS
  <2>2. /\ container[m] = Nobody /\ UNCHANGED <<alive, unset>> /\ p \in alive
        /\ container' = [container EXCEPT ![m] = p]
        /\ ids' = [ids EXCEPT ![m] = id]
        /\ members' = [members EXCEPT ![p] = @ \cup (IF id = Ids!Invalid THEN {} ELSE {m})]
    BY <1>1, <2>1 DEF Ids!AddModule
  <2>3. \A q \in Pipelines : m \notin members[q]
    BY <2>2
  <2>4. CASE ids[m] # Ids!Invalid
    <3>1. id = ids[m] /\ m \in unset
      BY <2>1, <2>3, <2>4 DEF Ids!GetId
    <3>2. mask' = [mask EXCEPT ![p] = @ \cup {}]
      BY <1>1, <2>4 DEF Ids!AddModule
    <3>3. mask' = mask /\ ids' = ids /\ members' = [members EXCEPT ![p] = @ \cup {m}]
      BY <2>2, <2>4, <3>1, <3>2
    <3>4. \A q \in Pipelines : \A k \in members'[q] : container'[k] = q /\ ids'[k] # Ids!Invalid
      BY <2>2, <2>3, <2>4, <3>3
    <3>5. Ids!IdsTellApart'
      BY <2>2, <2>3, <3>1, <3>3 DEF Ids!IdsTellApart
    <3>6. \A k \in Threads \ unset' :
            (\A q \in Pipelines : k \notin members'[q]) => ids'[k] = Ids!Invalid
      BY <2>2, <3>1, <3>3
    <3> QED
      BY <2>2, <3>3, <3>4, <3>5, <3>6
  <2>5. CASE ids[m] = Ids!Invalid /\ id = Ids!Invalid
    <3>1. mask' = mask /\ ids' = ids /\ members' = members
      BY <1>1, <2>1, <2>2, <2>5 DEF Ids!AddModule, Ids!GetId
    <3>2. \A q \in Pipelines : \A k \in members[q] : container'[k] = q
      BY <2>2, <2>3
    <3>3. Ids!IdsTellApart'
      BY <2>2, <2>5, <3>1 DEF Ids!IdsTellApart
    <3> QED
      BY <2>2, <3>1, <3>2, <3>3
  <2>6. CASE ids[m] = Ids!Invalid /\ id # Ids!Invalid
    <3>1. id \in Nat \ mask[p] /\ id = Ids!GetModuleIdx(p)
      BY <2>1, <2>6, NewId DEF Ids!GetId
    <3>2. /\ mask' = [mask EXCEPT ![p] = @ \cup {id}]
          /\ members' = [members EXCEPT ![p] = @ \cup {m}]
      <4>1. {Ids!GetModuleIdx(p)} \ {Ids!Invalid} = {id}
        BY <2>6, <3>1
      <4>2. mask' = [mask EXCEPT ![p] = @ \cup ({Ids!GetModuleIdx(p)} \ {Ids!Invalid})]
        BY <1>1, <2>6 DEF Ids!AddModule
      <4> QED
        BY <2>2, <2>6, <4>1, <4>2
    <3>3. \A q \in Pipelines : \A k \in members'[q] : container'[k] = q /\ ids'[k] # Ids!Invalid
      BY <2>2, <2>3, <2>6, <3>2
    <3>4. \A k \in Threads \ unset' :
            (\A q \in Pipelines : k \notin members'[q]) => ids'[k] = Ids!Invalid
      BY <2>2, <3>2
    <3>5. p \in alive => \A k \in members[p] \ unset : ids[k] # id
      BY <3>1 DEF Ids!IdsTellApart
    <3>6. Ids!IdsTellApart'
      <4>1. ASSUME NEW q \in Pipelines, NEW k \in members'[q], NEW n \in members'[q],
                   k # n, ids'[k] = ids'[n]
            PROVE  {k, n} \cap unset' # {}
        <5>1. CASE q # p \/ (k # m /\ n # m)
          <6>1. k \in members[q] /\ n \in members[q] /\ k # m /\ n # m
            BY <2>3, <3>2, <5>1
          <6> QED
            BY <2>2, <4>1, <6>1 DEF Ids!IdsTellApart
        <5>2. CASE q = p /\ k = m
          BY <2>2, <3>2, <3>5, <4>1, <5>2
        <5>3. CASE q = p /\ n = m
          BY <2>2, <3>2, <3>5, <4>1, <5>3
        <5> QED
          BY <5>1, <5>2, <5>3
      <4>2. \A q \in Pipelines \cap alive' : \A k \in members'[q] \ unset' : ids'[k] \in mask'[q]
        BY <2>2, <2>3, <3>2 DEF Ids!IdsTellApart
      <4>3. \A k \in Threads :
              container'[k] # Nobody => ids'[k] = Ids!Invalid \/ k \in members'[container'[k]]
        BY <2>2, <3>2 DEF Ids!IdsTellApart
      <4> QED
        BY <4>1, <4>2, <4>3 DEF Ids!IdsTellApart
    <3> QED
      BY <2>2, <3>1, <3>2, <3>3, <3>4, <3>6
  <2> QED
    BY <2>4, <2>5, <2>6
<1>2. ASSUME NEW p \in Pipelines, Ids!DestroyPipeline(p)
      PROVE  IdsInv'
  <2>1. /\ \A m \in Threads : m \in members[p] => container'[m] = Nobody /\ ids'[m] = Ids!Invalid
        /\ \A m \in Threads : m \notin members[p] => container'[m] = container[m] /\ ids'[m] = ids[m]
        /\ ids' \in [Threads -> Uninitialised \cup Nat \cup {Ids!Invalid}]
        /\ container' \in [Threads -> Pipelines \cup {Nobody}]
    BY <1>2 DEF Ids!DestroyPipeline
  <2>2. /\ unset' = unset \ members[p] /\ members' = [members EXCEPT ![p] = {}]
        /\ alive' = alive \ {p} /\ mask' = mask
    BY <1>2 DEF Ids!DestroyPipeline
  <2>3. \A q \in Pipelines : \A m \in members'[q] :
          q # p /\ m \in members[q] /\ m \notin members[p] /\ m \in Threads
    BY <2>2
  <2>4. Ids!IdsTellApart'
    <3>1. \A q \in Pipelines : \A k, n \in members'[q] :
            k # n /\ ids'[k] = ids'[n] => {k, n} \cap unset' # {}
      BY <2>1, <2>2, <2>3 DEF Ids!IdsTellApart
    <3>2. \A q \in Pipelines \cap alive' : \A k \in members'[q] \ unset' : ids'[k] \in mask'[q]
      BY <2>1, <2>2, <2>3 DEF Ids!IdsTellApart
    <3>3. \A k \in Threads :
            container'[k] # Nobody => ids'[k] = Ids!Invalid \/ k \in members'[container'[k]]
      BY <2>1, <2>2 DEF Ids!IdsTellApart
    <3> QED
      BY <3>1, <3>2, <3>3 DEF Ids!IdsTellApart
  <2>5. \A q \in Pipelines : \A m \in members'[q] : container'[m] = q /\ ids'[m] # Ids!Invalid
    BY <2>1, <2>3
  <2>6. \A m \in Threads \ unset' :
          (\A q \in Pipelines : m \notin members'[q]) => ids'[m] = Ids!Invalid
    BY <2>1, <2>2
  <2> QED
    BY <2>1, <2>2, <2>4, <2>5, <2>6
<1>3. ASSUME NEW m \in Threads, Ids!DestroyModule(m)
      PROVE  IdsInv'
  <2>1. /\ \A p \in Pipelines : m \notin members[p]
        /\ mask' = IF container[m] \in alive
                   THEN [mask EXCEPT ![container[m]] = @ \ {ids[m]}] ELSE mask
        /\ alive' = alive \ {m} /\ UNCHANGED <<ids, container, members, unset>>
    BY <1>3 DEF Ids!DestroyModule
  <2>2. CASE container[m] \in alive
    <3>1. container[m] \in Pipelines
      BY <2>2
    <3>2. ids[m] = Ids!Invalid
      BY <2>1, <3>1 DEF Ids!IdsTellApart
    <3>3. mask' \in [Pipelines -> SUBSET Nat] /\
          \A p \in Pipelines : \A k \in members[p] : ids[k] \in mask[p] => ids[k] \in mask'[p]
      BY <2>1, <2>2, <3>1, <3>2
    <3> QED
      BY <2>1, <3>3 DEF Ids!IdsTellApart
  <2>3. CASE container[m] \notin alive
    BY <2>1, <2>3 DEF Ids!IdsTellApart
  <2> QED
    BY <2>2, <2>3
<1>4. CASE UNCHANGED idVars
  BY <1>4 DEF idVars, Ids!IdsTellApart
<1> QED
  BY <1>1, <1>2, <1>3, <1>4 DEF Ids!IdsNext

-----------------------------------------------------------------------------
(* The Tiler.                                                              *)

LEMMA SameCardinality == \A S : Pictures!Cardinality(S) = Cardinality(S)
  BY DEF Pictures!Cardinality, Cardinality

\* The fields of a canvas, and what changing some of them makes.
LEMMA CanvasIs ==
  ASSUME NEW parts_ \in [0..1 -> Drawing], NEW index \in 0..1, NEW locked \in BOOLEAN,
         NEW differs \in BOOLEAN, NEW count \in Nat, NEW color \in Pictures!Colors, NEW size \in Nat
  PROVE  LET made == [buffers |-> parts_, index |-> index, locked |-> locked, differs |-> differs,
                      grid_buffer_count |-> count, color |-> color, size |-> size]
         IN /\ made \in CanvasTypes /\ made.buffers = parts_ /\ made.index = index
            /\ made.locked = locked /\ made.differs = differs /\ made.grid_buffer_count = count
            /\ made.color = color /\ made.size = size
  BY DEF CanvasTypes

LEMMA TilerInvInit == Pictures!TilerInit => TilerInv
<1> SUFFICES ASSUME Pictures!TilerInit PROVE TilerInv
  OBVIOUS
<1>1. PICK color \in Pictures!Colors, size \in Nat :
        canvas = [buffers |-> [b \in 0..1 |-> Pictures!Blank], index |-> 0, locked |-> FALSE,
                  differs |-> FALSE, grid_buffer_count |-> 0, color |-> color, size |-> size]
  BY SuiteAssumption
     DEF Pictures!TilerInit, Pictures!FreshCanvas, Pictures!Buffers, Pictures!CanvasAssumption
<1>2. /\ blitters = [t \in Threads |-> Pictures!Idle] /\ buffered = {} /\ pictures = 0
      /\ newest = Pictures!Blank /\ uncounted = FALSE /\ spoilt = FALSE
  BY DEF Pictures!TilerInit
<1>3. Pictures!Blank \in Drawing
  BY DEF Pictures!Blank, Pictures!NoPicture, Drawing
<1>4. PICK blank : blank = [b \in 0..1 |-> Pictures!Blank]
  OBVIOUS
<1>f. blank \in [0..1 -> Drawing]
  BY <1>3, <1>4
<1>5. /\ canvas \in CanvasTypes /\ canvas.buffers = blank /\ canvas.index = 0
      /\ canvas.locked = FALSE /\ canvas.differs = FALSE /\ canvas.grid_buffer_count = 0
  <2>1. canvas = [buffers |-> blank, index |-> 0, locked |-> FALSE, differs |-> FALSE,
                  grid_buffer_count |-> 0, color |-> color, size |-> size]
    BY <1>1, <1>4
  <2>2. 0 \in 0..1 /\ FALSE \in BOOLEAN /\ 0 \in Nat
    OBVIOUS
  <2> HIDE DEF TilerInv
  <2> QED
    BY <1>f, <2>1, <2>2, CanvasIs
<1>6. Cardinality(buffered) = 0 /\ IsFiniteSet(buffered)
  BY <1>2, FS_EmptySet
<1>7. MaxBuffers \in Nat \ {0}
  BY SuiteAssumption DEF Pictures!CanvasAssumption
<1>8. \A b \in 0..1 : Pictures!UpToDate(canvas.buffers[b])
  BY <1>2, <1>4, <1>5 DEF Pictures!UpToDate
<1>9. Pictures!TilerShows
  BY <1>2, <1>5, <1>6, <1>7, <1>8, SameCardinality DEF Pictures!TilerShows
<1>10. blitters \in [Threads ->
         {Pictures!Idle} \cup [position : Pictures!Positions, picture : Nat]]
  BY <1>2
<1>11. pictures \in Nat /\ newest \in Drawing
  BY <1>2, <1>3
<1>12. {uncounted, spoilt} \subseteq BOOLEAN
  BY <1>2
<1>13. Cardinality(buffered) <= canvas.grid_buffer_count
  BY <1>5, <1>6
<1> QED
  BY <1>5, <1>6, <1>8, <1>9, <1>10, <1>11, <1>12, <1>13, Zenon DEF TilerInv

\* UpToDate, of any pictures that are the newest and whether any was spoilt.
ShowsLast(drawing, last, lost) ==
  \A position \in Pictures!Positions : \/ drawing[position] = last[position]
                                       \/ lost /\ drawing[position] = Pictures!Spoilt

LEMMA UpToDateIs == \A drawing : Pictures!UpToDate(drawing) <=> ShowsLast(drawing, newest, spoilt)
  BY DEF ShowsLast, Pictures!UpToDate

\* What was up to date stays so when it is spoilt, which a blank canvas never shows.
LEMMA StaysFresh ==
  ASSUME NEW drawing, NEW last, NEW lost, ShowsLast(drawing, last, lost)
  PROVE  ShowsLast(drawing, last, TRUE) /\ ShowsLast(Pictures!AllSpoilt(drawing), last, TRUE)
  BY DEF ShowsLast, Pictures!AllSpoilt

LEMMA ColorFacts ==
  /\ Pictures!Supported = {"I420", "NV12", "NV21", "BGR", "RGB"}
  /\ Pictures!YUV = {"I420", "NV12", "NV21"}
  /\ Pictures!Colors = {"I420", "NV12", "NV21", "BGR", "RGB", "BGRA"}
  BY DEF Pictures!Supported, Pictures!Colors, Pictures!YUV

\* What a conversion makes of a source, and what it leaves of it.
LEMMA ConvertedIs ==
  ASSUME NEW src, NEW dst, src.color \in Pictures!Supported, NEW L, src.layout \in L,
         Pictures!Scrambled \in L, Pictures!Supported \subseteq L
  PROVE  LET made == Pictures!OpenCVProcess(src, dst)
         IN /\ made.ok <=> dst.color \in Pictures!Supported
            /\ made.ok /\ src.layout = src.color => made.layout = dst.color
            /\ made.left \in L
            /\ made.left # src.layout => src.continus /\ src.color \in Pictures!YUV
<1> DEFINE made == Pictures!OpenCVProcess(src, dst)
<1>1. CASE dst.color \notin Pictures!Supported
  <2>1. made = [ok |-> FALSE, layout |-> "old", left |-> src.layout]
    BY <1>1 DEF Pictures!OpenCVProcess
  <2> QED
    BY <1>1, <2>1
<1>2. CASE dst.color \in Pictures!Supported
  <2>1. PICK convert : convert = Pictures!OpenCVConvertColor(src.layout, src.color, dst.color)
    OBVIOUS
  <2>2. PICK resize : resize = Pictures!OpenCVResize(src.layout, src.color)
    OBVIOUS
  <2>3. PICK converted : converted = Pictures!OpenCVResize(convert.result, dst.color)
    OBVIOUS
  <2>4. PICK resized : resized = Pictures!OpenCVConvertColor(resize.result, src.color, dst.color)
    OBVIOUS
  <2>5. PICK step :
          /\ made = Pictures!OpenCVMatToBuffer(src, step)
          /\ \/ step = Pictures!OpenCVCopy(src.layout) /\ src.color = dst.color
             \/ step = resize /\ src.color = dst.color
             \/ step = convert /\ src.color # dst.color
             \/ /\ step = [converted EXCEPT !.left = convert.left]
                /\ src.color # dst.color /\ src.color \in Pictures!YUV
                /\ dst.color \notin Pictures!YUV
             \/ step = [resized EXCEPT !.left = resize.left] /\ src.color # dst.color
    BY <1>2, <2>1, <2>2, <2>3, <2>4 DEF Pictures!OpenCVProcess
  <2>6. /\ convert.result = Pictures!As(src.layout, src.color, dst.color)
        /\ convert.left \in L
        /\ convert.left # src.layout => src.color \in Pictures!YUV
    BY <1>2, <2>1 DEF Pictures!OpenCVConvertColor, Pictures!As
  <2>7. /\ resize.result = Pictures!As(src.layout, src.color, src.color)
        /\ resize.left \in L
        /\ resize.left # src.layout => src.color \in Pictures!YUV
    BY <2>2, ColorFacts DEF Pictures!OpenCVResize, Pictures!As
  <2>8. /\ converted.result = Pictures!As(convert.result, dst.color, dst.color)
        /\ DOMAIN converted = {"result", "left"}
        /\ converted = [result |-> converted.result, left |-> converted.left]
    BY <2>3 DEF Pictures!OpenCVResize
  <2>9. /\ resized.result = Pictures!As(resize.result, src.color, dst.color)
        /\ resized = [result |-> resized.result, left |-> resized.left]
    BY <2>4 DEF Pictures!OpenCVConvertColor
  <2>10. /\ step.left \in L
         /\ step.left # src.layout => src.color \in Pictures!YUV
         /\ src.layout = src.color => step.result = dst.color
    <3>1. CASE step = Pictures!OpenCVCopy(src.layout) /\ src.color = dst.color
      BY <3>1 DEF Pictures!OpenCVCopy
    <3>2. CASE step = resize /\ src.color = dst.color
      BY <2>7, <3>2 DEF Pictures!As
    <3>3. CASE step = convert /\ src.color # dst.color
      BY <2>6, <3>3 DEF Pictures!As
    <3>4. CASE step = [converted EXCEPT !.left = convert.left] /\ src.color # dst.color
      <4>1. step.left = convert.left /\ step.result = converted.result
        BY <2>8, <3>4
      <4> QED
        BY <2>6, <2>8, <4>1 DEF Pictures!As
    <3>5. CASE step = [resized EXCEPT !.left = resize.left] /\ src.color # dst.color
      <4>1. step.left = resize.left /\ step.result = resized.result
        BY <2>9, <3>5
      <4> QED
        BY <2>7, <2>9, <4>1 DEF Pictures!As
    <3> QED
      BY <2>5, <3>1, <3>2, <3>3, <3>4, <3>5
  <2>11. /\ made.ok = TRUE /\ made.layout = step.result
         /\ made.left = IF src.continus THEN step.left ELSE src.layout
    BY <2>5 DEF Pictures!OpenCVMatToBuffer, Pictures!OpenCVBufferToMat
  <2> QED
    BY <1>2, <2>10, <2>11
<1> QED
  BY <1>1, <1>2

\* The buffer drawn in is spoilt only where it is YUV without gaps.
LEMMA SpoiltFor ==
  ASSUME canvas \in CanvasTypes, NEW size, NEW color, Pictures!Spoils(size, color)
  PROVE  canvas.color \in Pictures!YUV /\ canvas.size % 2 = 0
<1>1. PICK src : src = Pictures!CanvasBuffer
  OBVIOUS
<1>2. /\ src.color = canvas.color /\ src.layout = canvas.color
      /\ (src.continus <=> canvas.size % 2 = 0)
  BY <1>1 DEF Pictures!CanvasBuffer
<1>3. PICK dst : dst = [width |-> size, height |-> size, color |-> color]
  OBVIOUS
<1>4. PICK from, to : from = Pictures!Trimmed(src) /\ to = Pictures!Trimmed(dst)
  OBVIOUS
<1>5. /\ from.color = canvas.color /\ from.layout = canvas.color
      /\ (from.continus <=> canvas.size % 2 = 0)
  BY <1>1, <1>2, <1>4 DEF Pictures!Trimmed, Pictures!CanvasBuffer
<1>6. Pictures!OpenCVProcess(from, to).left # canvas.color
  BY <1>1, <1>3, <1>4 DEF Pictures!Spoils, Pictures!Process
<1>7. CASE canvas.color \in Pictures!Supported
  <2>1. PICK layouts : layouts = Pictures!Supported \cup {Pictures!Scrambled}
    OBVIOUS
  <2>2. LET made == Pictures!OpenCVProcess(from, to)
        IN made.left # from.layout => from.continus /\ from.color \in Pictures!YUV
    BY <1>5, <1>7, <2>1, ConvertedIs
  <2> QED
    BY <1>5, <1>6, <2>2
<1>8. CASE canvas.color \notin Pictures!Supported
  <2>1. Pictures!OpenCVProcess(from, to) = [ok |-> FALSE, layout |-> "old", left |-> from.layout]
    BY <1>5, <1>8 DEF Pictures!OpenCVProcess
  <2> QED
    BY <1>5, <1>6, <2>1
<1> QED
  BY <1>7, <1>8

LEMMA TilerInvNext ==
  ASSUME TilerInv, [Pictures!CanvasNext \/ Pictures!Use]_pictureVars
  PROVE  TilerInv'
<1> DEFINE front == canvas.buffers[canvas.index]
           back == canvas.buffers[Pictures!Other(canvas.index)]
<1>1. /\ canvas.buffers \in [0..1 -> Drawing] /\ canvas.index \in 0..1
      /\ canvas.locked \in BOOLEAN /\ canvas.differs \in BOOLEAN
      /\ canvas.grid_buffer_count \in Nat /\ canvas.color \in Pictures!Colors /\ canvas.size \in Nat
      /\ canvas = [buffers |-> canvas.buffers, index |-> canvas.index, locked |-> canvas.locked,
                   differs |-> canvas.differs, grid_buffer_count |-> canvas.grid_buffer_count,
                   color |-> canvas.color, size |-> canvas.size]
  BY DEF TilerInv, CanvasTypes
<1>2. /\ Pictures!Other(canvas.index) \in 0..1 /\ Pictures!Other(canvas.index) # canvas.index
      /\ Pictures!Other(Pictures!Other(canvas.index)) = canvas.index
      /\ \A b \in 0..1 : b = canvas.index \/ b = Pictures!Other(canvas.index)
  BY <1>1 DEF Pictures!Other
<1>3. MaxBuffers \in Nat \ {0}
  BY SuiteAssumption DEF Pictures!CanvasAssumption
<1>a. /\ canvas.locked => back = shown
      /\ ~uncounted => ShowsLast(front, newest, spoilt)
      /\ ~uncounted /\ ~canvas.differs => ShowsLast(back, newest, spoilt)
      /\ spoilt => canvas.color \in Pictures!YUV /\ canvas.size % 2 = 0
      /\ uncounted \in BOOLEAN /\ spoilt \in BOOLEAN
  BY <1>2, UpToDateIs DEF TilerInv, Pictures!TilerShows
\* It is enough that the new canvas is of its type and shows what it should.
<1>b. ASSUME canvas' \in CanvasTypes,
             blitters' \in [Threads -> {Pictures!Idle} \cup [position : Pictures!Positions, picture : Nat]],
             pictures' \in Nat, newest' \in Drawing, uncounted' \in BOOLEAN, spoilt' \in BOOLEAN,
             IsFiniteSet(buffered'), Cardinality(buffered') <= canvas'.grid_buffer_count,
             Cardinality(buffered') < MaxBuffers,
             canvas'.locked => canvas'.buffers[Pictures!Other(canvas'.index)] = shown',
             ~uncounted' => ShowsLast(canvas'.buffers[canvas'.index], newest', spoilt'),
             ~uncounted' /\ ~canvas'.differs
               => ShowsLast(canvas'.buffers[Pictures!Other(canvas'.index)], newest', spoilt'),
             spoilt' => canvas'.color \in Pictures!YUV /\ canvas'.size % 2 = 0
      PROVE  TilerInv'
  <2>1. canvas'.index \in 0..1
    BY <1>b DEF CanvasTypes
  <2>2. \A b \in 0..1 : b = canvas'.index \/ b = Pictures!Other(canvas'.index)
    BY <2>1 DEF Pictures!Other
  <2>3. ~uncounted' /\ ~canvas'.differs => \A b \in 0..1 : ShowsLast(canvas'.buffers[b], newest', spoilt')
    BY <1>b, <2>2
  <2>4. /\ ~uncounted' => Pictures!UpToDate(canvas.buffers[canvas.index])'
        /\ ~uncounted' /\ ~canvas'.differs
             => \A b \in 0..1 : Pictures!UpToDate(canvas.buffers[b])'
    BY <1>b, <2>3 DEF ShowsLast, Pictures!UpToDate, Pictures!Positions
  <2>5. Pictures!Cardinality(buffered') = Cardinality(buffered')
    BY DEF Pictures!Cardinality, Cardinality
  <2>6. Pictures!TilerShows'
    BY <1>b, <2>4, <2>5 DEF Pictures!TilerShows, Pictures!Other
  <2> QED
    BY <1>b, <2>4, <2>6 DEF TilerInv, Drawing
<1>c. /\ IsFiniteSet(buffered) /\ Cardinality(buffered) \in Nat
      /\ Cardinality(buffered) <= canvas.grid_buffer_count /\ Cardinality(buffered) < MaxBuffers
  BY FS_CardinalityType, SameCardinality DEF TilerInv, Pictures!TilerShows
<1>4. CASE UNCHANGED <<canvas, blitters, buffered, pictures, newest, shown, uncounted, spoilt>>
  BY <1>4 DEF TilerInv, Pictures!TilerShows, Pictures!Other, Pictures!UpToDate
<1>5. ASSUME NEW t \in Threads, Pictures!Blit(t)
      PROVE  TilerInv'
  <2>1. PICK position \in -1..Grids, scales \in BOOLEAN,
             count \in {canvas.grid_buffer_count + (IF t \in buffered THEN 0 ELSE 1)},
             refused \in BOOLEAN :
          /\ position \in Pictures!Positions
          /\ count = canvas.grid_buffer_count + (IF t \in buffered THEN 0 ELSE 1)
          /\ refused = (t \notin buffered /\ count >= MaxBuffers)
          /\ canvas' = [canvas EXCEPT !.grid_buffer_count = count] /\ pictures' = pictures + 1
          /\ buffered' = IF refused THEN buffered ELSE buffered \cup {t}
          /\ blitters' = IF refused \/ ~scales THEN blitters
                         ELSE [blitters EXCEPT ![t] = [position |-> position, picture |-> pictures + 1]]
    BY <1>5 DEF Pictures!Blit, Pictures!Accepted
  <2>2. UNCHANGED <<newest, shown, uncounted, spoilt>>
    BY <1>5 DEF Pictures!Blit
  <2>3. count \in Nat /\ count >= canvas.grid_buffer_count /\ pictures + 1 \in Nat
    BY <1>1, <2>1 DEF TilerInv
  <2>4. /\ canvas'.buffers = canvas.buffers /\ canvas'.index = canvas.index
        /\ canvas'.locked = canvas.locked /\ canvas'.differs = canvas.differs
        /\ canvas'.grid_buffer_count = count /\ canvas' \in CanvasTypes
        /\ canvas'.color = canvas.color /\ canvas'.size = canvas.size
    BY <2>1, <2>3 DEF TilerInv, CanvasTypes
  <2>5. blitters' \in [Threads ->
          {Pictures!Idle} \cup [position : Pictures!Positions, picture : Nat]]
    <3>1. [position |-> position, picture |-> pictures + 1] \in
            [position : Pictures!Positions, picture : Nat]
      BY <2>1, <2>3
    <3> QED
      BY <2>1, <3>1 DEF TilerInv
  <2>6. /\ IsFiniteSet(buffered') /\ Cardinality(buffered') <= count
        /\ Cardinality(buffered') < MaxBuffers
    <3>2. CASE buffered' = buffered
      BY <1>1, <1>3, <1>c, <2>3, <3>2
    <3>3. CASE t \notin buffered /\ buffered' = buffered \cup {t} /\ ~(count >= MaxBuffers)
      <4>1. IsFiniteSet(buffered') /\ Cardinality(buffered') = Cardinality(buffered) + 1
        BY <1>c, <3>3, FS_AddElement
      <4>2. count = canvas.grid_buffer_count + 1
        BY <2>1, <3>3
      <4> QED
        BY <1>1, <1>3, <1>c, <2>3, <3>3, <4>1, <4>2
    <3>4. t \in buffered => buffered \cup {t} = buffered
      OBVIOUS
    <3> QED
      BY <2>1, <3>2, <3>3, <3>4
  <2>8. /\ ~uncounted' => ShowsLast(canvas'.buffers[canvas'.index], newest', spoilt')
        /\ ~uncounted' /\ ~canvas'.differs
             => ShowsLast(canvas'.buffers[Pictures!Other(canvas'.index)], newest', spoilt')
    BY <1>a, <2>2, <2>4
  <2> QED
    BY <1>a, <1>b, <2>1, <2>2, <2>3, <2>4, <2>5, <2>6, <2>8 DEF TilerInv
<1>6. ASSUME NEW t \in Threads, Pictures!Draw(t)
      PROVE  TilerInv'
  <2>1. PICK position, picture_ :
          /\ position = blitters[t].position /\ picture_ = blitters[t].picture
          /\ canvas' = [canvas EXCEPT !.buffers[canvas.index][position] = picture_,
                                      !.differs = @ \/ Pictures!Counted(canvas.locked)]
          /\ newest' = [newest EXCEPT ![position] = picture_]
    BY <1>6 DEF Pictures!Draw
  <2>2. /\ blitters[t] # Pictures!Idle /\ uncounted' = (uncounted \/ canvas.locked)
        /\ blitters' = [blitters EXCEPT ![t] = Pictures!Idle]
        /\ UNCHANGED <<buffered, pictures, shown, spoilt>>
    BY <1>6 DEF Pictures!Draw
  <2>3. position \in Pictures!Positions /\ picture_ \in Nat
    BY <2>1, <2>2 DEF TilerInv
  <2>4. PICK new : new = [front EXCEPT ![position] = picture_]
    OBVIOUS
  <2>5. PICK buffers_ : buffers_ = [canvas.buffers EXCEPT ![canvas.index] = new]
    OBVIOUS
  <2>6. front \in Drawing /\ new \in Drawing
    BY <1>1, <2>3, <2>4 DEF Drawing
  <2>7. /\ buffers_ \in [0..1 -> Drawing] /\ buffers_[canvas.index] = new
        /\ buffers_[Pictures!Other(canvas.index)] = back
    BY <1>1, <1>2, <2>5, <2>6
  <2>8. (canvas.differs \/ ~canvas.locked) \in BOOLEAN
    OBVIOUS
  <2>9. canvas' = [buffers |-> buffers_, index |-> canvas.index, locked |-> canvas.locked,
                   differs |-> (canvas.differs \/ ~canvas.locked),
                   grid_buffer_count |-> canvas.grid_buffer_count, color |-> canvas.color,
                   size |-> canvas.size]
    BY <1>1, <2>1, <2>4, <2>5 DEF Pictures!Counted
  <2>10. /\ canvas' \in CanvasTypes /\ canvas'.buffers = buffers_ /\ canvas'.index = canvas.index
         /\ canvas'.locked = canvas.locked /\ canvas'.differs = (canvas.differs \/ ~canvas.locked)
         /\ canvas'.grid_buffer_count = canvas.grid_buffer_count
         /\ canvas'.color = canvas.color /\ canvas'.size = canvas.size
    BY <1>1, <2>7, <2>8, <2>9, CanvasIs
  <2>11. uncounted' \in BOOLEAN /\ (~uncounted' <=> ~uncounted /\ ~canvas.locked)
    BY <1>1, <1>a, <2>2
  <2>12. newest \in Drawing /\ newest' \in Drawing
    BY <2>1, <2>3 DEF TilerInv, Drawing
  <2>13. ~uncounted => ShowsLast(new, newest', spoilt')
    <3>1. /\ new[position] = picture_ /\ newest'[position] = picture_
          /\ \A p \in Pictures!Positions : p # position => new[p] = front[p] /\ newest'[p] = newest[p]
      BY <2>1, <2>3, <2>4, <2>6, <2>12 DEF Drawing
    <3> QED
      BY <1>a, <2>2, <3>1 DEF ShowsLast
  <2>14. blitters' \in [Threads ->
           {Pictures!Idle} \cup [position : Pictures!Positions, picture : Nat]]
    BY <2>2 DEF TilerInv
  <2>15. ~uncounted' => canvas'.differs /\ ShowsLast(canvas'.buffers[canvas'.index], newest', spoilt')
    BY <2>7, <2>10, <2>11, <2>13
  <2>16. canvas'.locked => canvas'.buffers[Pictures!Other(canvas'.index)] = shown'
    BY <1>a, <2>2, <2>7, <2>10
  <2> QED
    BY <1>a, <1>b, <1>c, <2>2, <2>10, <2>11, <2>12, <2>14, <2>15, <2>16 DEF TilerInv
<1>7. CASE Pictures!GetCanvas
  <2>1. PICK buffers_ :
          buffers_ = [canvas.buffers EXCEPT ![Pictures!Other(canvas.index)] =
                        IF canvas.differs THEN front ELSE back]
    OBVIOUS
  <2>2. /\ ~canvas.locked /\ shown' = front
        /\ UNCHANGED <<blitters, buffered, pictures, newest, uncounted, spoilt>>
    BY <1>7 DEF Pictures!GetCanvas
  <2>3. canvas' = [canvas EXCEPT !.buffers = buffers_, !.differs = FALSE,
                                 !.index = Pictures!Other(canvas.index), !.locked = TRUE]
    BY <1>7, <2>1 DEF Pictures!GetCanvas
  <2>4. canvas' = [buffers |-> buffers_, index |-> Pictures!Other(canvas.index), locked |-> TRUE,
                   differs |-> FALSE, grid_buffer_count |-> canvas.grid_buffer_count,
                   color |-> canvas.color, size |-> canvas.size]
    BY <1>1, <2>3
  <2>5. /\ buffers_ \in [0..1 -> Drawing] /\ buffers_[canvas.index] = front
        /\ buffers_[Pictures!Other(canvas.index)] = IF canvas.differs THEN front ELSE back
    BY <1>1, <1>2, <2>1
  <2>6. /\ canvas' \in CanvasTypes /\ canvas'.buffers = buffers_
        /\ canvas'.index = Pictures!Other(canvas.index)
        /\ canvas'.grid_buffer_count = canvas.grid_buffer_count
        /\ canvas'.color = canvas.color /\ canvas'.size = canvas.size
    BY <1>1, <1>2, <2>4, <2>5, CanvasIs
  <2>8. ~uncounted => /\ ShowsLast(front, newest, spoilt)
                      /\ ShowsLast(IF canvas.differs THEN front ELSE back, newest, spoilt)
    BY <1>1, <1>a
  <2>9. /\ ~uncounted' => ShowsLast(canvas'.buffers[canvas'.index], newest', spoilt')
        /\ ~uncounted' => ShowsLast(canvas'.buffers[Pictures!Other(canvas'.index)], newest', spoilt')
        /\ canvas'.buffers[Pictures!Other(canvas'.index)] = shown'
    BY <1>2, <2>2, <2>5, <2>6, <2>8
  <2> QED
    BY <1>a, <1>b, <1>c, <2>2, <2>6, <2>9 DEF TilerInv
<1>8. CASE Pictures!ReleaseCanvas
  <2>1. /\ canvas' = [canvas EXCEPT !.locked = FALSE]
        /\ UNCHANGED <<blitters, buffered, pictures, newest, uncounted, spoilt>>
    BY <1>8 DEF Pictures!ReleaseCanvas
  <2>2. /\ canvas'.buffers = canvas.buffers /\ canvas'.index = canvas.index
        /\ ~canvas'.locked /\ canvas'.differs = canvas.differs
        /\ canvas'.grid_buffer_count = canvas.grid_buffer_count /\ canvas' \in CanvasTypes
        /\ canvas'.color = canvas.color /\ canvas'.size = canvas.size
    BY <2>1 DEF TilerInv, CanvasTypes
  <2> QED
    BY <1>a, <1>b, <1>c, <2>1, <2>2 DEF TilerInv
<1>10. CASE Pictures!GetCanvasOf
  <2>1. PICK new : new = Pictures!AllSpoilt(front)
    OBVIOUS
  <2>2. PICK buffers_ : buffers_ = [canvas.buffers EXCEPT ![canvas.index] = new]
    OBVIOUS
  <2>3. /\ canvas' = [canvas EXCEPT !.buffers = buffers_] /\ spoilt' = TRUE
        /\ UNCHANGED <<blitters, buffered, pictures, newest, shown, uncounted>>
        /\ Pictures!Spoiling # {}
    BY <1>10, <2>1, <2>2 DEF Pictures!GetCanvasOf
  <2>4. new \in Drawing
    BY <2>1 DEF Pictures!AllSpoilt, Drawing, Pictures!Blank, Pictures!NoPicture
  <2>5. /\ buffers_ \in [0..1 -> Drawing] /\ buffers_[canvas.index] = new
        /\ buffers_[Pictures!Other(canvas.index)] = back
    BY <1>1, <1>2, <2>2, <2>4
  <2>6. /\ canvas' \in CanvasTypes /\ canvas'.buffers = buffers_ /\ canvas'.index = canvas.index
        /\ canvas'.locked = canvas.locked /\ canvas'.differs = canvas.differs
        /\ canvas'.grid_buffer_count = canvas.grid_buffer_count
        /\ canvas'.color = canvas.color /\ canvas'.size = canvas.size
    <3>1. canvas' = [buffers |-> buffers_, index |-> canvas.index, locked |-> canvas.locked,
                     differs |-> canvas.differs, grid_buffer_count |-> canvas.grid_buffer_count,
                     color |-> canvas.color, size |-> canvas.size]
      BY <1>1, <2>3
    <3> QED
      BY <1>1, <2>5, <3>1, CanvasIs
  <2>7. canvas.color \in Pictures!YUV /\ canvas.size % 2 = 0
    <3>1. PICK output \in Pictures!Spoiling : TRUE
      BY <2>3
    <3>2. Pictures!Spoils(output[1], output[2])
      BY <3>1 DEF Pictures!Spoiling
    <3> QED
      BY <3>2, SpoiltFor DEF TilerInv
  <2>9. /\ ~uncounted => ShowsLast(new, newest', spoilt')
        /\ ~uncounted /\ ~canvas.differs => ShowsLast(back, newest', spoilt')
    BY <1>a, <2>1, <2>3, StaysFresh
  <2> QED
    BY <1>a, <1>b, <1>c, <2>3, <2>5, <2>6, <2>7, <2>9 DEF TilerInv
<1>9. CASE Pictures!Use \/ UNCHANGED pictureVars
  BY <1>4, <1>9 DEF Pictures!Use, Pictures!tilerVars, pictureVars
<1> QED
  BY <1>5, <1>6, <1>7, <1>8, <1>9, <1>10 DEF Pictures!CanvasNext

-----------------------------------------------------------------------------
(* The Scaler.                                                             *)

LEMMA ScalerInvInit == Pictures!ScalerInit => ScalerInv
<1> SUFFICES ASSUME Pictures!ScalerInit PROVE ScalerInv
  OBVIOUS
<1>1. PICK size \in SourceSizes, color \in Pictures!Supported, continus \in BOOLEAN :
        source = [width |-> size, height |-> size, color |-> color, layout |-> color,
                  continus |-> continus]
  BY DEF Pictures!ScalerInit
<1>2. SourceOk
  BY <1>1 DEF SourceOk
<1> QED
  BY <1>2 DEF Pictures!ScalerInit, ScalerInv

LEMMA OnlyTheLayout ==
  ASSUME NEW sizes, NEW colors, NEW layouts, NEW left \in layouts,
         NEW src \in [width : sizes, height : sizes, color : colors, layout : layouts,
                      continus : BOOLEAN],
         NEW new, new = [src EXCEPT !.layout = left]
  PROVE  /\ new \in [width : sizes, height : sizes, color : colors, layout : layouts,
                     continus : BOOLEAN]
         /\ new.color = src.color /\ new.layout = left
         /\ new.continus <=> src.continus
<1>1. new = [width |-> src.width, height |-> src.height, color |-> src.color, layout |-> left,
             continus |-> src.continus]
  OBVIOUS
<1> QED
  BY <1>1

LEMMA ScalerInvNext ==
  ASSUME ScalerInv, [Pictures!CanvasNext \/ Pictures!Use]_pictureVars
  PROVE  ScalerInv'
<1>1. CASE UNCHANGED <<source, target, uses>>
  BY <1>1 DEF ScalerInv, SourceOk
<1>2. CASE Pictures!Use
  <2>1. PICK size \in TargetSizes, color \in Pictures!Colors :
          LET aimed == [width |-> size, height |-> size, color |-> color]
              result == Pictures!Process(source, aimed)
          IN /\ target' = [color |-> color, ok |-> result.ok, layout |-> result.layout,
                           from |-> source.layout]
             /\ source' = [source EXCEPT !.layout = result.left]
             /\ uses' = uses + 1
    BY <1>2 DEF Pictures!Use
  <2>2. PICK dst : dst = [width |-> size, height |-> size, color |-> color]
    OBVIOUS
  <2>3. PICK made : made = Pictures!Process(source, dst)
    OBVIOUS
  <2>4. /\ target' = [color |-> color, ok |-> made.ok, layout |-> made.layout,
                      from |-> source.layout]
        /\ source' = [source EXCEPT !.layout = made.left]
        /\ uses' = uses + 1
    BY <2>1, <2>2, <2>3
  <2>5. PICK src, aim : src = Pictures!Trimmed(source) /\ aim = Pictures!Trimmed(dst)
    OBVIOUS
  <2>6. /\ src.color = source.color /\ src.layout = source.layout /\ src.continus = source.continus
        /\ aim.color = color
    BY <2>2, <2>5 DEF ScalerInv, SourceOk, Pictures!Trimmed
  <2>7. made = Pictures!OpenCVProcess(src, aim)
    BY <2>3, <2>5 DEF Pictures!Process
  <2>8. PICK layouts : layouts = Pictures!Supported \cup {Pictures!Scrambled}
    OBVIOUS
  <2>9. source.color \in Pictures!Supported /\ source.layout \in layouts
    BY <2>8 DEF ScalerInv, SourceOk
  <2>10. /\ made.ok <=> color \in Pictures!Supported
         /\ made.ok /\ source.layout = source.color => made.layout = color
         /\ made.left \in layouts
         /\ made.left # source.layout => source.continus /\ source.color \in Pictures!YUV
    BY <2>6, <2>7, <2>8, <2>9, ConvertedIs
  <2>11. /\ source'.color = source.color /\ source'.layout = made.left
         /\ source'.continus <=> source.continus
         /\ source' \in [width : SourceSizes, height : SourceSizes, color : Pictures!Supported,
                         layout : layouts, continus : BOOLEAN]
    <3>1. made.left \in layouts
      BY <2>10, Zenon
    <3>2. source \in [width : SourceSizes, height : SourceSizes, color : Pictures!Supported,
                      layout : layouts, continus : BOOLEAN]
      BY <2>8, Zenon DEF ScalerInv, SourceOk
    <3>3. source' = [source EXCEPT !.layout = made.left]
      BY <2>4
    <3> QED
      BY <3>1, <3>2, <3>3, OnlyTheLayout
  <2>12. SourceOk'
    <3>1. SourceOk
      BY DEF ScalerInv
    <3>2. source'.layout # source'.color => source'.continus /\ source'.color \in Pictures!YUV
      BY <2>10, <2>11, <3>1, Zenon DEF SourceOk
    <3> QED
      BY <2>8, <2>11, <3>2, Zenon DEF SourceOk
  <2>13. /\ target'.ok = made.ok /\ target'.from = source.layout
         /\ target'.layout = made.layout /\ target'.color = color
    BY <2>4
  <2> QED
    <3>1. uses' \in Nat
      BY <2>4 DEF ScalerInv
    <3>2. target'.ok /\ target'.from = source'.color => target'.layout = target'.color
      BY <2>10, <2>11, <2>13, Zenon
    <3>3. target'.ok <=> target'.color \in Pictures!Supported
      BY <2>10, <2>13, Zenon
    <3> QED
      BY <2>12, <3>1, <3>2, <3>3 DEF ScalerInv
<1>3. CASE Pictures!CanvasNext
  BY <1>1, <1>3
     DEF Pictures!CanvasNext, Pictures!Blit, Pictures!Draw, Pictures!GetCanvas, Pictures!GetCanvasOf,
         Pictures!ReleaseCanvas, Pictures!scalerVars
<1> QED
  BY <1>1, <1>2, <1>3 DEF pictureVars

LEMMA RestIsLess ==
  ASSUME NEW x \in Nat, NEW n \in Nat \ {0}
  PROVE  x % n \in 0..x
<1>1. PICK q \in Int, r \in 0..n - 1 : x = n * q + r /\ r = x % n
  OBVIOUS
<1>2. q >= 0
  <2>1. ASSUME q <= -1 PROVE FALSE
    <3>1. PICK k \in Nat : q = -1 - k
      BY <2>1
    <3>2. n * q = -n - n * k /\ n * k \in Nat
      BY <3>1
    <3> QED
      BY <1>1, <3>2
  <2> QED
    BY <2>1
<1>3. n * q \in Nat
  BY <1>2
<1> QED
  BY <1>1, <1>3

\* A crop that begins inside a buffer ends inside it.
LEMMA CropInside ==
  ASSUME NEW color, NEW length \in Nat, NEW crop \in Nat, NEW at \in 0..length
  PROVE  Pictures!CropFrom(color, at) + Pictures!CropLength(color, length, at, crop) <= length
<1>1. Wrap \in Nat \ {0}
  BY SuiteAssumption DEF Pictures!CanvasAssumption
<1>2. \A n \in Nat : Pictures!Even(n) \in 0..n
  BY DEF Pictures!Even
<1>3. PICK from \in 0..length : from = Pictures!CropFrom(color, at)
  <2>1. Pictures!Even(at) \in 0..length
    BY <1>2
  <2> QED
    BY <2>1 DEF Pictures!CropFrom
<1>4. PICK rest \in 0..length - from : rest = Pictures!Minus(length, from)
  <2>1. (length - from) \in Nat
    OBVIOUS
  <2>2. (length - from) % Wrap \in 0..length - from
    BY <1>1, <2>1, RestIsLess
  <2> QED
    BY <2>2 DEF Pictures!Minus
<1>5. PICK wanted \in 0..length - from :
        wanted = IF crop = 0 \/ from + crop > length THEN rest ELSE crop
  BY <1>4
<1>6. Pictures!CropLength(color, length, at, crop) =
        IF color \in Pictures!YUV THEN Pictures!Even(wanted) ELSE wanted
  BY <1>3, <1>4, <1>5 DEF Pictures!CropLength
<1>7. Pictures!Even(wanted) \in 0..wanted
  BY <1>2
<1>8. Pictures!CropLength(color, length, at, crop) \in 0..length - from
  BY <1>6, <1>7
<1> QED
  BY <1>3, <1>8

LEMMA CropsAreInside == Pictures!CropsFit
<1>1. SourceSizes \subseteq Nat /\ 0..2 \subseteq Nat
  BY SuiteAssumption DEF Pictures!CanvasAssumption
<1> QED
  BY <1>1, CropInside DEF Pictures!CropsFit

LEMMA ScalerKept == ScalerInv => Pictures!ScalerConverts
  BY DEF ScalerInv, SourceOk, Pictures!ScalerConverts

-----------------------------------------------------------------------------
(* Two modules of a pipeline whose ids were written never have the same,   *)
(* the mask of the pipeline has them all, and a module with an id is a     *)
(* member of the pipeline it names: the masks the routes of frames are     *)
(* made of do not mix modules up, for any number of modules and pipelines  *)
(* and whatever is in the memory an id is made in.                         *)
THEOREM ModulesToldApart == SuiteSpec => []Ids!IdsTellApart
<1>1. SuiteInit => IdsInv
  BY IdsInvInit DEF SuiteInit
<1>2. IdsInv /\ [SuiteNext]_suiteVars => IdsInv'
  BY SuiteStep, IdsInvNext
<1>3. IdsInv => Ids!IdsTellApart
  BY DEF IdsInv
<1> QED
  BY <1>1, <1>2, <1>3, PTL DEF SuiteSpec

-----------------------------------------------------------------------------
(***************************************************************************)
(* The grids of a canvas: Divide makes each of where the one before ended, *)
(* and what it comes to is a column and a row for each (DivideIs, shown    *)
(* for the first grid of which it would not hold). Columns and rows are    *)
(* parts of a whole that follow on each other, so the grids cover the      *)
(* canvas and do not overlap.                                              *)
(***************************************************************************)
\* Products, kept apart from the arithmetic around them.
LEMMA ProductFacts ==
  ASSUME NEW n \in Nat, NEW a \in Int, NEW b \in Int
  PROVE  /\ n * a \in Int /\ n * (a + b) = n * a + n * b /\ n * (a - b) = n * a - n * b
         /\ a >= 0 => n * a >= 0
         /\ a >= 1 => n * a >= n
  OBVIOUS

\* What a division leaves.
LEMMA Division ==
  ASSUME NEW a \in Nat, NEW n \in Nat \ {0}
  PROVE  a \div n \in Nat /\ a % n \in 0..n - 1 /\ a = n * (a \div n) + (a % n)
  OBVIOUS

\* A quotient and a remainder that fit are those of the division.
LEMMA DivisionIs ==
  ASSUME NEW a \in Nat, NEW n \in Nat \ {0}, NEW q \in Nat, NEW r \in 0..n - 1, a = n * q + r
  PROVE  a \div n = q /\ a % n = r
<1>1. PICK d \in Nat, e \in 0..n - 1 : d = a \div n /\ e = a % n /\ a = n * d + e
  BY Division
<1>2. n * (d - q) = r - e /\ n * (q - d) = e - r
  BY <1>1
<1>3. ~(d - q >= 1) /\ ~(q - d >= 1)
  <2>1. d - q >= 1 => n * (d - q) >= n
    BY ProductFacts
  <2>2. q - d >= 1 => n * (q - d) >= n
    BY ProductFacts
  <2> QED
    BY <1>1, <1>2, <2>1, <2>2
<1>4. d = q
  BY <1>3
<1> QED
  BY <1>1, <1>4

\* What follows on number i in rows of n.
LEMMA NextOfRow ==
  ASSUME NEW i \in Nat, NEW n \in Nat \ {0}
  PROVE  IF (i % n) + 1 = n THEN (i + 1) % n = 0 /\ (i + 1) \div n = i \div n + 1
         ELSE (i + 1) % n = (i % n) + 1 /\ (i + 1) \div n = i \div n
<1>1. PICK d \in Nat, e \in 0..n - 1 : d = i \div n /\ e = i % n /\ i = n * d + e
  BY Division
<1>2. n * (d + 1) = n * d + n
  OBVIOUS
<1>3. CASE e + 1 = n
  <2>1. i + 1 = n * (d + 1) + 0 /\ 0 \in 0..n - 1 /\ d + 1 \in Nat /\ i + 1 \in Nat
    BY <1>1, <1>2, <1>3
  <2>2. (i + 1) \div n = d + 1 /\ (i + 1) % n = 0
    BY <2>1, DivisionIs
  <2> QED
    BY <1>1, <1>3, <2>2
<1>4. CASE e + 1 # n
  <2>1. i + 1 = n * d + (e + 1) /\ e + 1 \in 0..n - 1 /\ i + 1 \in Nat
    BY <1>1, <1>4
  <2>2. (i + 1) \div n = d /\ (i + 1) % n = e + 1
    BY <2>1, DivisionIs
  <2> QED
    BY <1>1, <1>4, <2>2
<1> QED
  BY <1>3, <1>4

\* The sizes of n parts of a whole, the first of which are larger by one, and where part k begins.
PartSize(whole, n, k) == whole \div n + (IF k < whole % n THEN 1 ELSE 0)
PartAt(whole, n, k) == k * (whole \div n) + (IF k < whole % n THEN k ELSE whole % n)

\* The parts follow on each other from the beginning of the whole to its end; when there are more
\* parts than the whole has units, the first have one each and the others are empty.
LEMMA PartsFit ==
  ASSUME NEW whole \in Nat, NEW n \in Nat \ {0}
  PROVE  /\ PartAt(whole, n, 0) = 0 /\ PartAt(whole, n, n) = whole
         /\ \A k \in 0..n : PartAt(whole, n, k) \in Nat
         /\ \A k \in 0..n - 1 : /\ PartSize(whole, n, k) \in Nat
                                /\ PartAt(whole, n, k + 1) = PartAt(whole, n, k) + PartSize(whole, n, k)
                                /\ n <= whole => PartSize(whole, n, k) >= 1
         /\ \A j, k \in 0..n : j <= k => PartAt(whole, n, j) <= PartAt(whole, n, k)
         /\ whole < n => \A k \in 0..n : /\ PartSize(whole, n, k) = IF k < whole THEN 1 ELSE 0
                                        /\ PartAt(whole, n, k) = IF k < whole THEN k ELSE whole
<1>1. PICK q \in Nat, m \in 0..n - 1 : q = whole \div n /\ m = whole % n /\ whole = n * q + m
  BY Division
<1>2. /\ \A k : PartSize(whole, n, k) = q + (IF k < m THEN 1 ELSE 0)
      /\ \A k : PartAt(whole, n, k) = k * q + (IF k < m THEN k ELSE m)
  BY <1>1 DEF PartSize, PartAt
<1>3. \A k \in Nat : k * q \in Nat /\ (k + 1) * q = k * q + q
  OBVIOUS
<1>4. ASSUME NEW k \in 0..n PROVE PartAt(whole, n, k) \in Nat
  <2>1. PICK p \in Nat : p = k * q
    BY <1>3
  <2>2. PartAt(whole, n, k) = p + (IF k < m THEN k ELSE m)
    BY <1>2, <2>1
  <2> QED
    BY <2>2
<1>5. PartAt(whole, n, 0) = 0 /\ PartAt(whole, n, n) = whole
  <2>2. PartAt(whole, n, 0) = 0 * q + (IF 0 < m THEN 0 ELSE m)
    BY <1>2
  <2>3. PartAt(whole, n, n) = n * q + (IF n < m THEN n ELSE m)
    BY <1>2
  <2>4. (IF 0 < m THEN 0 ELSE m) = 0 /\ (IF n < m THEN n ELSE m) = m /\ 0 * q = 0
    BY <1>1
  <2> QED
    BY <1>1, <2>2, <2>3, <2>4
<1>6. n <= whole => q >= 1
  <2>1. q = 0 => n * q = 0
    OBVIOUS
  <2> QED
    BY <1>1, <2>1
<1>7. ASSUME NEW k \in 0..n - 1
      PROVE  /\ PartSize(whole, n, k) \in Nat
             /\ PartAt(whole, n, k + 1) = PartAt(whole, n, k) + PartSize(whole, n, k)
             /\ n <= whole => PartSize(whole, n, k) >= 1
  <2>1. PICK p \in Nat : p = k * q /\ (k + 1) * q = p + q
    BY <1>3
  <2>2. /\ PartAt(whole, n, k) = p + (IF k < m THEN k ELSE m)
        /\ PartAt(whole, n, k + 1) = p + q + (IF k + 1 < m THEN k + 1 ELSE m)
        /\ PartSize(whole, n, k) = q + (IF k < m THEN 1 ELSE 0)
    BY <1>2, <2>1
  <2>3. (IF k + 1 < m THEN k + 1 ELSE m) = (IF k < m THEN k ELSE m) + (IF k < m THEN 1 ELSE 0)
    OBVIOUS
  <2> QED
    BY <1>6, <2>2, <2>3
<1>8. ASSUME NEW j \in 0..n, NEW k \in 0..n, j <= k
      PROVE  PartAt(whole, n, j) <= PartAt(whole, n, k)
  <2>1. j * q <= k * q
    <3>1. k - j \in Nat
      BY <1>8
    <3>2. k * q = j * q + (k - j) * q /\ (k - j) * q \in Nat
      BY <1>3, <3>1
    <3> QED
      BY <1>3, <3>2
  <2>2. PICK a, b \in Nat : a = j * q /\ b = k * q
    BY <1>3
  <2>3. /\ PartAt(whole, n, j) = a + (IF j < m THEN j ELSE m)
        /\ PartAt(whole, n, k) = b + (IF k < m THEN k ELSE m)
    BY <1>2, <2>2
  <2>4. (IF j < m THEN j ELSE m) <= (IF k < m THEN k ELSE m)
    BY <1>8
  <2> QED
    BY <2>1, <2>2, <2>3, <2>4
<1>9. ASSUME whole < n, NEW k \in 0..n
      PROVE  /\ PartSize(whole, n, k) = IF k < whole THEN 1 ELSE 0
             /\ PartAt(whole, n, k) = IF k < whole THEN k ELSE whole
  <2>1. q = 0 /\ m = whole
    <3>1. q >= 1 => n * q >= n
      BY ProductFacts
    <3>2. q = 0 => n * q = 0
      OBVIOUS
    <3> QED
      BY <1>1, <1>9, <3>1, <3>2
  <2>2. k * q = 0
    BY <2>1
  <2> QED
    BY <1>2, <2>1, <2>2
<1> QED
  BY <1>4, <1>5, <1>7, <1>8, <1>9

\* Every place of the whole is in one of its parts.
LEMMA SomePart ==
  ASSUME NEW whole \in Nat, NEW n \in Nat \ {0}, NEW x \in 0..whole - 1
  PROVE  \E k \in 0..n - 1 : PartAt(whole, n, k) <= x /\ x < PartAt(whole, n, k) + PartSize(whole, n, k)
<1>1. /\ PartAt(whole, n, 0) = 0 /\ PartAt(whole, n, n) = whole
      /\ \A k \in 0..n - 1 : /\ PartSize(whole, n, k) \in Nat
                             /\ PartAt(whole, n, k + 1) = PartAt(whole, n, k) + PartSize(whole, n, k)
      /\ \A k \in 0..n : PartAt(whole, n, k) \in Nat
  BY PartsFit
<1> DEFINE Ends == {k \in 0..n - 1 : x < PartAt(whole, n, k + 1)}
<1>2. Ends \subseteq Nat /\ n - 1 \in Ends
  BY <1>1
<1>3. PICK k \in Ends : \A j \in Ends : k <= j
  <2> HIDE DEF Ends
  <2> QED
    BY <1>2, SmallestExists
<1>4. PartAt(whole, n, k) <= x
  <2>1. CASE k = 0
    BY <1>1, <2>1
  <2>2. CASE k # 0
    <3>1. k - 1 \in 0..n - 1 /\ k - 1 \notin Ends /\ (k - 1) + 1 = k
      BY <1>3, <2>2
    <3>2. ~(x < PartAt(whole, n, (k - 1) + 1))
      BY <3>1
    <3> QED
      BY <1>1, <3>1, <3>2
  <2> QED
    BY <2>1, <2>2
<1> QED
  BY <1>1, <1>3, <1>4

\* The division into grids, as the recursion of Pictures!Divide states it.
FirstGrid == [grids |-> <<>>, x |-> 0, y |-> 0, dw |-> 0, dh |-> 0]
NextGrid(color, width, height, cols, rows, i, last) ==
  LET w == PartSize(width, cols, (i - 1) % cols) + last.dw
      h == PartSize(height, rows, (i - 1) \div cols) + last.dh
      dw == IF color \in Pictures!YUV THEN w % 2 ELSE 0
      dh == IF color \in Pictures!YUV THEN h % 2 ELSE 0
      over == last.x + w - dw >= width
  IN [grids |-> Append(last.grids,
                       Pictures!Rect(last.x, last.y, PartSize(width, cols, (i - 1) % cols),
                                     PartSize(height, rows, (i - 1) \div cols))),
      x |-> IF over THEN 0 ELSE last.x + w - dw,
      y |-> IF over THEN last.y + h - dh ELSE last.y,
      dw |-> IF over THEN 0 ELSE dw, dh |-> dh]
IsDivision(color, width, height, cols, rows, step) ==
  step = [i \in 0..cols * rows |->
    IF i = 0 THEN FirstGrid ELSE NextGrid(color, width, height, cols, rows, i, step[i - 1])]

\* What it comes to: grid j is in its column and row; the columns that are left when the width
\* is used up are empty, and are put where the next row begins.
GridX(width, cols, c) == IF c < width THEN PartAt(width, cols, c) ELSE 0
GridY(width, height, rows, c, r) == PartAt(height, rows, IF c < width THEN r ELSE r + 1)
GridAt(width, height, cols, rows, j) ==
  Pictures!Rect(GridX(width, cols, (j - 1) % cols),
       GridY(width, height, rows, (j - 1) % cols, (j - 1) \div cols),
       PartSize(width, cols, (j - 1) % cols), PartSize(height, rows, (j - 1) \div cols))
GridsOf(width, height, cols, rows) ==
  [j \in 1..cols * rows |-> GridAt(width, height, cols, rows, j)]
Divided(width, height, cols, rows, i) ==
  [grids |-> [j \in 1..i |-> GridAt(width, height, cols, rows, j)],
   x |-> GridX(width, cols, i % cols), y |-> GridY(width, height, rows, i % cols, i \div cols),
   dw |-> 0, dh |-> 0]

\* Each grid is in a column and a row of the canvas.
LEMMA PlaceOf ==
  ASSUME NEW cols \in Nat \ {0}, NEW rows \in Nat \ {0}, NEW i \in 1..cols * rows
  PROVE  (i - 1) % cols \in 0..cols - 1 /\ (i - 1) \div cols \in 0..rows - 1 /\ i - 1 \in Nat
<1>1. cols * rows \in Nat
  OBVIOUS
<1>2. i - 1 \in Nat /\ i - 1 < cols * rows
  BY <1>1
<1>3. PICK d \in Nat, e \in 0..cols - 1 :
        d = (i - 1) \div cols /\ e = (i - 1) % cols /\ i - 1 = cols * d + e
  BY <1>2, Division
<1>4. d < rows
  <2>1. d - rows >= 0 => cols * (d - rows) >= 0
    BY ProductFacts
  <2>2. cols * (d - rows) = cols * d - cols * rows
    OBVIOUS
  <2> QED
    BY <1>1, <1>2, <1>3, <2>1, <2>2
<1> QED
  BY <1>2, <1>3, <1>4

\* A Pictures!YUV canvas divides into even sizes.
LEMMA EvenSizes ==
  ASSUME NEW whole \in Nat, NEW n \in Nat \ {0}, whole % (2 * n) = 0, NEW k \in Nat
  PROVE  PartSize(whole, n, k) % 2 = 0
<1>1. PICK d \in Nat : whole = (2 * n) * d
  <2>1. 2 * n \in Nat \ {0}
    OBVIOUS
  <2>2. PICK m \in Nat \ {0} : m = 2 * n
    BY <2>1
  <2>3. whole \div m \in Nat /\ whole = m * (whole \div m) + (whole % m)
    BY Division
  <2> QED
    BY <2>2, <2>3
<1>2. whole = n * (2 * d) + 0 /\ 2 * d \in Nat /\ 0 \in 0..n - 1
  BY <1>1
<1>3. whole \div n = 2 * d /\ whole % n = 0
  BY <1>2, DivisionIs
<1>4. PartSize(whole, n, k) = 2 * d
  BY <1>3 DEF PartSize
<1> QED
  BY <1>4

\* A grid reaches the right edge if it is in the last column, or in the last that has pixels.
LEMMA Reaches ==
  ASSUME NEW width \in Nat \ {0}, NEW cols \in Nat \ {0}, NEW c \in 0..cols - 1, c < width
  PROVE  PartAt(width, cols, c + 1) >= width <=> c + 1 = cols \/ c + 1 >= width
<1>1. c + 1 \in 0..cols /\ cols \in 0..cols
  OBVIOUS
<1>2. CASE width < cols
  <2>1. PICK k \in 0..cols : k = c + 1
    BY <1>1
  <2>2. PartAt(width, cols, k) = IF k < width THEN k ELSE width
    BY <1>2, PartsFit
  <2> QED
    BY <1>2, <2>1, <2>2
<1>3. CASE ~(width < cols)
  <2>1. CASE c + 1 = cols
    <3>1. PartAt(width, cols, cols) = width
      BY PartsFit
    <3> QED
      BY <2>1, <3>1
  <2>2. CASE c + 1 # cols
    <3>1. PICK k \in 0..cols - 1 : k = c + 1
      BY <2>2
    <3>2. /\ PartAt(width, cols, k + 1) = PartAt(width, cols, k) + PartSize(width, cols, k)
          /\ PartSize(width, cols, k) >= 1 /\ PartSize(width, cols, k) \in Nat
          /\ PartAt(width, cols, k) \in Nat /\ PartAt(width, cols, cols) = width
      <4>1. cols <= width
        BY <1>3
      <4>2. k \in 0..cols
        OBVIOUS
      <4> QED
        BY <4>1, <4>2, PartsFit
    <3>3. PartAt(width, cols, k + 1) <= PartAt(width, cols, cols)
      <4>1. k + 1 \in 0..cols /\ k + 1 <= cols
        OBVIOUS
      <4> QED
        BY <1>1, <4>1, PartsFit
    <3>4. PartAt(width, cols, c + 1) \in Nat /\ PartAt(width, cols, c + 1) < width
      BY <3>1, <3>2, <3>3
    <3>5. ~(c + 1 >= width)
      BY <1>1, <1>3, <2>2
    <3> QED
      BY <2>2, <3>4, <3>5
  <2> QED
    BY <2>1, <2>2
<1> QED
  BY <1>2, <1>3

\* One step of the recursion of Divide keeps the form.
LEMMA NextDivided ==
  ASSUME NEW color, NEW width \in Nat \ {0}, NEW height \in Nat, NEW cols \in Nat \ {0},
         NEW rows \in Nat \ {0},
         color \in Pictures!YUV => width % (2 * cols) = 0 /\ height % (2 * rows) = 0,
         NEW i \in 1..cols * rows
  PROVE  NextGrid(color, width, height, cols, rows, i, Divided(width, height, cols, rows, i - 1))
           = Divided(width, height, cols, rows, i)
<1>1. PICK c \in 0..cols - 1, r \in 0..rows - 1 : c = (i - 1) % cols /\ r = (i - 1) \div cols
  BY PlaceOf
<1>2. /\ c \in 0..cols /\ r \in 0..rows /\ c + 1 \in 0..cols /\ r + 1 \in 0..rows
      /\ cols \in 0..cols
  OBVIOUS
<1>3. /\ PartAt(width, cols, c) \in Nat /\ PartSize(width, cols, c) \in Nat
      /\ PartAt(width, cols, c + 1) = PartAt(width, cols, c) + PartSize(width, cols, c)
      /\ PartAt(height, rows, r) \in Nat /\ PartAt(height, rows, r + 1) \in Nat
      /\ PartSize(height, rows, r) \in Nat
      /\ PartAt(height, rows, r + 1) = PartAt(height, rows, r) + PartSize(height, rows, r)
  BY <1>2, PartsFit, Zenon
<1>4. PICK x \in Nat, y \in Nat, w \in Nat, h \in Nat :
        /\ x = GridX(width, cols, c) /\ y = GridY(width, height, rows, c, r)
        /\ w = PartSize(width, cols, c) /\ h = PartSize(height, rows, r)
  BY <1>3 DEF GridX, GridY
<1>5. IF c + 1 = cols THEN i % cols = 0 /\ i \div cols = r + 1
      ELSE i % cols = c + 1 /\ i \div cols = r
  <2>1. i - 1 \in Nat /\ (i - 1) + 1 = i
    BY PlaceOf
  <2>2. PICK k \in Nat : k = i - 1
    BY <2>1
  <2>3. IF (k % cols) + 1 = cols THEN (k + 1) % cols = 0 /\ (k + 1) \div cols = k \div cols + 1
        ELSE (k + 1) % cols = (k % cols) + 1 /\ (k + 1) \div cols = k \div cols
    BY NextOfRow
  <2> QED
    BY <1>1, <2>1, <2>2, <2>3
<1>6. /\ GridX(width, cols, i % cols) = IF x + w >= width THEN 0 ELSE x + w
      /\ GridY(width, height, rows, i % cols, i \div cols) = IF x + w >= width THEN y + h ELSE y
  <2>1. CASE c < width
    <3>1. /\ x = PartAt(width, cols, c) /\ y = PartAt(height, rows, r)
          /\ PartAt(width, cols, c + 1) = x + w /\ PartAt(height, rows, r + 1) = y + h
      BY <1>3, <1>4, <2>1 DEF GridX, GridY
    <3>2. x + w >= width <=> c + 1 = cols \/ c + 1 >= width
      <4>1. PartAt(width, cols, c + 1) >= width <=> c + 1 = cols \/ c + 1 >= width
        BY <2>1, Reaches
      <4> QED
        BY <3>1, <4>1
    <3>3. CASE c + 1 = cols
      <4>1. i % cols = 0 /\ i \div cols = r + 1 /\ 0 < width
        BY <1>5, <3>3
      <4>2. GridX(width, cols, 0) = 0
        BY <4>1, PartsFit DEF GridX
      <4>3. GridY(width, height, rows, 0, r + 1) = y + h
        BY <3>1, <4>1 DEF GridY
      <4> QED
        BY <3>2, <3>3, <4>1, <4>2, <4>3
    <3>4. CASE c + 1 # cols
      <4>1. i % cols = c + 1 /\ i \div cols = r
        BY <1>5, <3>4
      <4>2. GridX(width, cols, c + 1) = IF c + 1 < width THEN x + w ELSE 0
        BY <3>1 DEF GridX
      <4>3. GridY(width, height, rows, c + 1, r) = IF c + 1 < width THEN y ELSE y + h
        BY <3>1 DEF GridY
      <4>4. x + w >= width <=> ~(c + 1 < width)
        BY <3>2, <3>4
      <4> QED
        BY <4>1, <4>2, <4>3, <4>4, Zenon
    <3> QED
      BY <3>3, <3>4
  <2>2. CASE ~(c < width)
    <3>1. x = 0 /\ y = PartAt(height, rows, r + 1)
      BY <1>4, <2>2 DEF GridX, GridY
    <3>2. w = 0
      <4>1. width < cols
        BY <2>2
      <4> QED
        BY <1>2, <1>4, <2>2, <4>1, PartsFit
    <3>3. ~(x + w >= width)
      BY <3>1, <3>2
    <3>4. CASE c + 1 = cols
      <4>1. i % cols = 0 /\ i \div cols = r + 1 /\ 0 < width
        BY <1>5, <3>4
      <4>2. GridX(width, cols, 0) = 0
        BY <4>1, PartsFit DEF GridX
      <4>3. GridY(width, height, rows, 0, r + 1) = y
        BY <3>1, <4>1 DEF GridY
      <4> QED
        BY <3>1, <3>2, <3>3, <4>1, <4>2, <4>3
    <3>5. CASE c + 1 # cols
      <4>1. i % cols = c + 1 /\ i \div cols = r /\ ~(c + 1 < width)
        BY <1>5, <2>2, <3>5
      <4>2. GridX(width, cols, c + 1) = 0
        BY <4>1 DEF GridX
      <4>3. GridY(width, height, rows, c + 1, r) = y
        BY <3>1, <4>1 DEF GridY
      <4> QED
        BY <3>1, <3>2, <3>3, <4>1, <4>2, <4>3
    <3> QED
      BY <3>4, <3>5
  <2> QED
    BY <2>1, <2>2
<1>13. color \in Pictures!YUV => w % 2 = 0 /\ h % 2 = 0
  BY <1>4, EvenSizes
<1>7. PICK last : last = Divided(width, height, cols, rows, i - 1)
  OBVIOUS
<1>8. /\ last.x = x /\ last.y = y /\ last.dw = 0 /\ last.dh = 0
      /\ last.grids = [j \in 1..i - 1 |-> GridAt(width, height, cols, rows, j)]
  BY <1>1, <1>4, <1>7 DEF Divided
<1>9. PICK made : made = Append(last.grids, Pictures!Rect(x, y, w, h))
  OBVIOUS
<1>10. made = [j \in 1..i |-> GridAt(width, height, cols, rows, j)]
  <2>1. PICK S : \A j \in 1..i : GridAt(width, height, cols, rows, j) \in S
    <3>1. \A j \in 1..i : GridAt(width, height, cols, rows, j)
                            \in {GridAt(width, height, cols, rows, k) : k \in 1..i}
      OBVIOUS
    <3> QED
      BY <3>1
  <2>2. i \in Nat \ {0}
    BY PlaceOf
  <2>3. GridAt(width, height, cols, rows, i) = Pictures!Rect(x, y, w, h)
    BY <1>1, <1>4 DEF GridAt
  <2>4. PICK f : f = [j \in 1..i |-> GridAt(width, height, cols, rows, j)]
    OBVIOUS
  <2>5. PICK g : g = [j \in 1..i - 1 |-> GridAt(width, height, cols, rows, j)]
    OBVIOUS
  <2>6. f \in Seq(S) /\ Len(f) = i /\ g \in Seq(S) /\ Len(g) = i - 1
    BY <2>1, <2>2, <2>4, <2>5
  <2>7. PICK rect \in S : rect = Pictures!Rect(x, y, w, h)
    BY <2>1, <2>2, <2>3
  <2>8. PICK a : a = Append(g, rect)
    OBVIOUS
  <2>9. /\ a \in Seq(S) /\ Len(a) = i /\ a[i] = rect /\ \A j \in 1..i - 1 : a[j] = g[j]
    BY <2>2, <2>6, <2>7, <2>8, SMTT(60)
  <2>10. \A j \in 1..i : a[j] = f[j]
    <3> SUFFICES ASSUME NEW j \in 1..i PROVE a[j] = f[j]
      OBVIOUS
    <3>1. CASE j = i
      BY <2>3, <2>4, <2>7, <2>9, <3>1
    <3>2. CASE j # i
      <4>1. j \in 1..i - 1
        BY <2>2, <3>2
      <4> QED
        BY <2>4, <2>5, <2>9, <4>1
    <3> QED
      BY <3>1, <3>2
  <2>11. a = f
    BY <2>6, <2>9, <2>10
  <2> QED
    BY <1>8, <1>9, <2>4, <2>5, <2>7, <2>8, <2>11
<1>11. NextGrid(color, width, height, cols, rows, i, last)
         = [grids |-> made, x |-> IF x + w >= width THEN 0 ELSE x + w,
            y |-> IF x + w >= width THEN y + h ELSE y, dw |-> 0, dh |-> 0]
  <2>1. w + last.dw = w /\ h + last.dh = h
    BY <1>8
  <2>2. /\ (IF color \in Pictures!YUV THEN w % 2 ELSE 0) = 0
        /\ (IF color \in Pictures!YUV THEN h % 2 ELSE 0) = 0
        /\ last.x + w - 0 = x + w /\ last.y + h - 0 = y + h
    BY <1>13, <1>8
  <2> QED
    BY <1>1, <1>4, <1>8, <1>9, <2>1, <2>2, Zenon DEF NextGrid
<1> QED
  BY <1>6, <1>7, <1>10, <1>11, Zenon DEF Divided

\* The grids Divide makes.
LEMMA DivideIs ==
  ASSUME NEW color, NEW width \in Nat \ {0}, NEW height \in Nat, NEW cols \in Nat \ {0},
         NEW rows \in Nat \ {0},
         color \in Pictures!YUV => width % (2 * cols) = 0 /\ height % (2 * rows) = 0
  PROVE  Pictures!Divide(color, width, height, cols, rows) = GridsOf(width, height, cols, rows)
<1>1. PICK n \in Nat \ {0} : n = cols * rows
  <2>1. cols * rows \in Nat /\ cols * rows >= cols
    BY ProductFacts
  <2> QED
    BY <2>1
<1>2. Divided(width, height, cols, rows, 0) = FirstGrid
  <2>1. 0 % cols = 0 /\ 0 \div cols = 0
    <3>1. 0 = cols * 0 + 0 /\ 0 \in 0..cols - 1
      OBVIOUS
    <3> QED
      BY <3>1, DivisionIs
  <2>2. PartAt(width, cols, 0) = 0 /\ PartAt(height, rows, 0) = 0
    BY PartsFit
  <2>3. [j \in 1..0 |-> GridAt(width, height, cols, rows, j)] = <<>>
    OBVIOUS
  <2>4. GridX(width, cols, 0) = 0 /\ GridY(width, height, rows, 0, 0) = 0
    BY <2>2 DEF GridX, GridY
  <2> QED
    BY <2>1, <2>3, <2>4 DEF Divided, FirstGrid
<1>3. PICK whole : whole = [i \in 0..n |-> Divided(width, height, cols, rows, i)]
  OBVIOUS
<1>4. \A i \in 0..n :
        whole[i] = IF i = 0 THEN FirstGrid
                   ELSE NextGrid(color, width, height, cols, rows, i, whole[i - 1])
  <2> SUFFICES ASSUME NEW i \in 0..n
               PROVE  whole[i] = IF i = 0 THEN FirstGrid
                                 ELSE NextGrid(color, width, height, cols, rows, i, whole[i - 1])
    OBVIOUS
  <2>1. CASE i = 0
    BY <1>2, <1>3, <2>1
  <2>2. CASE i # 0
    <3>1. i \in 1..cols * rows /\ i - 1 \in 0..n
      BY <1>1, <2>2
    <3>2. whole[i - 1] = Divided(width, height, cols, rows, i - 1)
      BY <1>3, <3>1
    <3> QED
      BY <1>3, <2>2, <3>1, <3>2, NextDivided
  <2> QED
    BY <2>1, <2>2
<1>5. IsDivision(color, width, height, cols, rows, whole)
  BY <1>1, <1>3, <1>4 DEF IsDivision
<1>6. PICK step : step = CHOOSE s : IsDivision(color, width, height, cols, rows, s)
  OBVIOUS
<1>7. \A i \in 0..n : step[i] = IF i = 0 THEN FirstGrid
                                ELSE NextGrid(color, width, height, cols, rows, i, step[i - 1])
  <2>1. IsDivision(color, width, height, cols, rows, step)
    BY <1>5, <1>6
  <2> QED
    BY <1>1, <2>1 DEF IsDivision
<1> DEFINE Wrong == {i \in 0..n : step[i] # Divided(width, height, cols, rows, i)}
<1>8. Wrong = {}
  <2> SUFFICES ASSUME Wrong # {} PROVE FALSE
    OBVIOUS
  <2>1. PICK i \in Wrong : \A j \in Wrong : i <= j
    <3>1. Wrong \subseteq Nat
      OBVIOUS
    <3> HIDE DEF Wrong
    <3> QED
      BY <3>1, SmallestExists
  <2>2. i # 0
    BY <1>2, <1>7, <2>1
  <2>3. i \in 1..cols * rows /\ i - 1 \in 0..n /\ i - 1 \notin Wrong
    BY <1>1, <2>1, <2>2
  <2>4. step[i - 1] = Divided(width, height, cols, rows, i - 1)
    BY <2>3
  <2>5. step[i] = Divided(width, height, cols, rows, i)
    BY <1>7, <2>1, <2>2, <2>3, <2>4, NextDivided
  <2> QED
    BY <2>1, <2>5
<1>9. Pictures!Divide(color, width, height, cols, rows) = step[n].grids
  BY <1>1, <1>6 DEF Pictures!Divide, IsDivision, FirstGrid, NextGrid, PartSize
<1>10. step[n] = Divided(width, height, cols, rows, n)
  BY <1>8
<1> QED
  BY <1>1, <1>9, <1>10 DEF Divided, GridsOf

\* A place of the canvas is in one grid.
LEMMA GridsCover ==
  ASSUME NEW width \in Nat \ {0}, NEW height \in Nat, NEW cols \in Nat \ {0},
         NEW rows \in Nat \ {0}, NEW grids,
         grids = GridsOf(width, height, cols, rows)
  PROVE  /\ \A i, j \in DOMAIN grids :
              i # j => Pictures!CellsOf(grids[i]) \cap Pictures!CellsOf(grids[j]) = {}
         /\ UNION {Pictures!CellsOf(grids[i]) : i \in DOMAIN grids}
              = (0..width - 1) \X (0..height - 1)
<1>1. PICK n \in Nat : n = cols * rows
  OBVIOUS
<1>2. DOMAIN grids = 1..n /\ \A i \in 1..n : grids[i] = GridAt(width, height, cols, rows, i)
  BY <1>1 DEF GridsOf
<1> DEFINE X(c) == PartAt(width, cols, c)
           Y(r) == PartAt(height, rows, r)
<1>3. /\ X(0) = 0 /\ X(cols) = width /\ Y(0) = 0 /\ Y(rows) = height
      /\ \A c \in 0..cols : X(c) \in Nat
      /\ \A r \in 0..rows : Y(r) \in Nat
      /\ \A c \in 0..cols - 1 : PartSize(width, cols, c) \in Nat /\ X(c + 1) = X(c) + PartSize(width, cols, c)
      /\ \A r \in 0..rows - 1 : PartSize(height, rows, r) \in Nat /\ Y(r + 1) = Y(r) + PartSize(height, rows, r)
      /\ \A c, d \in 0..cols : c <= d => X(c) <= X(d)
      /\ \A r, s \in 0..rows : r <= s => Y(r) <= Y(s)
  BY PartsFit, Zenon
<1> HIDE DEF X, Y
<1>4. ASSUME NEW i \in 1..n
      PROVE  \E c \in 0..cols - 1, r \in 0..rows - 1 :
               /\ i - 1 = cols * r + c
               /\ Pictures!CellsOf(grids[i]) = (X(c)..X(c + 1) - 1) \X (Y(r)..Y(r + 1) - 1)
  <2>1. PICK c \in 0..cols - 1, r \in 0..rows - 1 :
          c = (i - 1) % cols /\ r = (i - 1) \div cols /\ i - 1 \in Nat
    BY <1>1, PlaceOf
  <2>2. i - 1 = cols * r + c
    BY <2>1, Division
  <2>3. PICK x, y, w, h : /\ x = GridX(width, cols, c) /\ y = GridY(width, height, rows, c, r)
                          /\ w = PartSize(width, cols, c) /\ h = PartSize(height, rows, r)
    OBVIOUS
  <2>4. grids[i] = Pictures!Rect(x, y, w, h)
    BY <1>2, <2>1, <2>3 DEF GridAt
  <2>5. Pictures!CellsOf(grids[i]) = (x..x + w - 1) \X (y..y + h - 1)
    BY <2>4 DEF Pictures!Rect, Pictures!CellsOf
  <2>6. /\ X(c + 1) = X(c) + w /\ Y(r + 1) = Y(r) + h /\ w \in Nat /\ h \in Nat
        /\ X(c) \in Nat /\ Y(r) \in Nat
    BY <1>3, <2>3
  <2>7. CASE c < width
    <3>1. x = X(c) /\ y = Y(r)
      BY <2>3, <2>7 DEF GridX, GridY, X, Y
    <3>2. x + w - 1 = X(c + 1) - 1 /\ y + h - 1 = Y(r + 1) - 1
      BY <2>6, <3>1
    <3> QED
      BY <2>2, <2>5, <3>1, <3>2, Zenon
  <2>8. CASE ~(c < width)
    <3>1. x = 0
      BY <2>3, <2>8 DEF GridX
    <3>2. w = 0
      <4>1. width < cols /\ c \in 0..cols
        BY <2>8
      <4> QED
        BY <2>3, <2>8, <4>1, PartsFit
    <3>3. x..x + w - 1 = {} /\ X(c)..X(c + 1) - 1 = {}
      BY <2>6, <3>1, <3>2
    <3>4. Pictures!CellsOf(grids[i]) = {} /\ (X(c)..X(c + 1) - 1) \X (Y(r)..Y(r + 1) - 1) = {}
      BY <2>5, <3>3
    <3> QED
      BY <2>2, <3>4
  <2> QED
    BY <2>7, <2>8
<1>5. ASSUME NEW i \in 1..n, NEW j \in 1..n, i # j
      PROVE  Pictures!CellsOf(grids[i]) \cap Pictures!CellsOf(grids[j]) = {}
  <2>1. PICK c \in 0..cols - 1, r \in 0..rows - 1 :
          /\ i - 1 = cols * r + c
          /\ Pictures!CellsOf(grids[i]) = (X(c)..X(c + 1) - 1) \X (Y(r)..Y(r + 1) - 1)
    BY <1>4
  <2>2. PICK d \in 0..cols - 1, s \in 0..rows - 1 :
          /\ j - 1 = cols * s + d
          /\ Pictures!CellsOf(grids[j]) = (X(d)..X(d + 1) - 1) \X (Y(s)..Y(s + 1) - 1)
    BY <1>4
  <2>3. c # d \/ r # s
    <3>1. c = d /\ r = s => i - 1 = j - 1
      BY <2>1, <2>2
    <3> QED
      BY <1>5, <3>1
  <2>4. CASE c # d
    <3>1. (X(c)..X(c + 1) - 1) \cap (X(d)..X(d + 1) - 1) = {}
      <4>1. X(c) \in Nat /\ X(c + 1) \in Nat /\ X(d) \in Nat /\ X(d + 1) \in Nat
        BY <1>3
      <4>2. X(c + 1) <= X(d) \/ X(d + 1) <= X(c)
        <5>1. c + 1 <= d \/ d + 1 <= c
          BY <2>4
        <5>2. c + 1 \in 0..cols /\ d + 1 \in 0..cols /\ c \in 0..cols /\ d \in 0..cols
          OBVIOUS
        <5> QED
          BY <1>3, <5>1, <5>2
      <4> QED
        BY <4>1, <4>2
    <3> QED
      BY <2>1, <2>2, <3>1
  <2>5. CASE r # s
    <3>1. (Y(r)..Y(r + 1) - 1) \cap (Y(s)..Y(s + 1) - 1) = {}
      <4>1. Y(r) \in Nat /\ Y(r + 1) \in Nat /\ Y(s) \in Nat /\ Y(s + 1) \in Nat
        BY <1>3
      <4>2. Y(r + 1) <= Y(s) \/ Y(s + 1) <= Y(r)
        <5>1. r + 1 <= s \/ s + 1 <= r
          BY <2>5
        <5>2. r + 1 \in 0..rows /\ s + 1 \in 0..rows /\ r \in 0..rows /\ s \in 0..rows
          OBVIOUS
        <5> QED
          BY <1>3, <5>1, <5>2
      <4> QED
        BY <4>1, <4>2
    <3> QED
      BY <2>1, <2>2, <3>1
  <2> QED
    BY <2>3, <2>4, <2>5
<1>6. ASSUME NEW i \in 1..n
      PROVE  Pictures!CellsOf(grids[i]) \subseteq (0..width - 1) \X (0..height - 1)
  <2>1. PICK c \in 0..cols - 1, r \in 0..rows - 1 :
          Pictures!CellsOf(grids[i]) = (X(c)..X(c + 1) - 1) \X (Y(r)..Y(r + 1) - 1)
    BY <1>4
  <2>2. /\ X(c) \in Nat /\ X(c + 1) \in Nat /\ X(c + 1) <= width
        /\ Y(r) \in Nat /\ Y(r + 1) \in Nat /\ Y(r + 1) <= height
    <3>1. c + 1 \in 0..cols /\ r + 1 \in 0..rows /\ cols \in 0..cols /\ rows \in 0..rows
      OBVIOUS
    <3> QED
      BY <1>3, <3>1
  <2>3. X(c)..X(c + 1) - 1 \subseteq 0..width - 1 /\ Y(r)..Y(r + 1) - 1 \subseteq 0..height - 1
    BY <2>2
  <2> QED
    BY <2>1, <2>3
<1>7. ASSUME NEW x \in 0..width - 1, NEW y \in 0..height - 1
      PROVE  \E i \in 1..n : <<x, y>> \in Pictures!CellsOf(grids[i])
  <2>1. PICK c \in 0..cols - 1 : X(c) <= x /\ x < X(c) + PartSize(width, cols, c)
    BY SomePart DEF X
  <2>2. PICK r \in 0..rows - 1 : Y(r) <= y /\ y < Y(r) + PartSize(height, rows, r)
    BY SomePart DEF Y
  <2>3. PICK i \in 1..n : i - 1 = cols * r + c
    <3>1. cols * r + c \in Nat /\ cols * r + c < n
      <4>1. rows - 1 - r >= 0 => cols * (rows - 1 - r) >= 0
        BY ProductFacts
      <4>2. cols * (rows - 1 - r) = cols * rows - cols - cols * r
        OBVIOUS
      <4>3. cols * r \in Nat
        OBVIOUS
      <4> QED
        BY <1>1, <4>1, <4>2, <4>3
    <3>2. (cols * r + c) + 1 \in 1..n
      BY <3>1
    <3> QED
      BY <3>1, <3>2
  <2>4. PICK d \in 0..cols - 1, s \in 0..rows - 1 :
          /\ i - 1 = cols * s + d
          /\ Pictures!CellsOf(grids[i]) = (X(d)..X(d + 1) - 1) \X (Y(s)..Y(s + 1) - 1)
    BY <1>4
  <2>5. d = c /\ s = r
    <3>1. PICK k \in Nat : k = i - 1
      OBVIOUS
    <3>2. k = cols * r + c /\ c \in 0..cols - 1 /\ r \in Nat
      BY <2>3, <3>1
    <3>3. k = cols * s + d /\ d \in 0..cols - 1 /\ s \in Nat
      BY <2>4, <3>1
    <3>4. k \div cols = r /\ k % cols = c
      BY <3>2, DivisionIs
    <3>5. k \div cols = s /\ k % cols = d
      BY <3>3, DivisionIs
    <3> QED
      BY <3>4, <3>5
  <2>6. x \in X(c)..X(c + 1) - 1 /\ y \in Y(r)..Y(r + 1) - 1
    <3>1. /\ X(c + 1) = X(c) + PartSize(width, cols, c) /\ Y(r + 1) = Y(r) + PartSize(height, rows, r)
          /\ X(c) \in Nat /\ Y(r) \in Nat /\ X(c + 1) \in Nat /\ Y(r + 1) \in Nat
      BY <1>3
    <3> QED
      BY <2>1, <2>2, <3>1
  <2> QED
    BY <2>4, <2>5, <2>6
<1>8. UNION {Pictures!CellsOf(grids[i]) : i \in DOMAIN grids}
        \subseteq (0..width - 1) \X (0..height - 1)
  BY <1>2, <1>6
<1>9. (0..width - 1) \X (0..height - 1)
        \subseteq UNION {Pictures!CellsOf(grids[i]) : i \in DOMAIN grids}
  BY <1>2, <1>7
<1> QED
  BY <1>2, <1>5, <1>8, <1>9

\* The grids of a canvas tile it; those of a YUV canvas when its sizes are even.
LEMMA GridsAreTiles == Pictures!GridsTile
<1> DEFINE Of(tiling) == Pictures!Divide(tiling.color, tiling.width, tiling.height, tiling.cols, tiling.rows)
           Tiled(tiling, grids) ==
             /\ \A i, j \in DOMAIN grids :
                  i # j => Pictures!CellsOf(grids[i]) \cap Pictures!CellsOf(grids[j]) = {}
             /\ UNION {Pictures!CellsOf(grids[i]) : i \in DOMAIN grids}
                  = (0..tiling.width - 1) \X (0..tiling.height - 1)
<1> SUFFICES ASSUME NEW tiling \in Tilings, Pictures!Divides(tiling)
             PROVE  Tiled(tiling, Of(tiling))
  BY DEF Pictures!GridsTile
<1>1. PICK width \in Nat \ {0}, height \in Nat, cols \in Nat \ {0}, rows \in Nat \ {0} :
        /\ width = tiling.width /\ height = tiling.height
        /\ cols = tiling.cols /\ rows = tiling.rows
  BY SuiteAssumption DEF Pictures!CanvasAssumption
<1>2. PICK color : color = tiling.color
  OBVIOUS
<1>3. color \in Pictures!YUV => width % (2 * cols) = 0 /\ height % (2 * rows) = 0
  BY <1>1, <1>2 DEF Pictures!Divides
<1>4. PICK grids : grids = Pictures!Divide(color, width, height, cols, rows)
  OBVIOUS
<1>5. /\ \A i, j \in DOMAIN grids :
           i # j => Pictures!CellsOf(grids[i]) \cap Pictures!CellsOf(grids[j]) = {}
      /\ UNION {Pictures!CellsOf(grids[i]) : i \in DOMAIN grids} = (0..width - 1) \X (0..height - 1)
  <2>1. grids = GridsOf(width, height, cols, rows)
    BY <1>3, <1>4, DivideIs
  <2> QED
    BY <2>1, GridsCover
<1>6. grids = Of(tiling)
  BY <1>1, <1>2, <1>4, Zenon
<1>7. Tiled(tiling, grids)
  BY <1>1, <1>5, Zenon
<1> HIDE DEF Tiled, Of
<1> QED
  BY <1>6, <1>7

(* The canvas that is shown is not drawn in and misses no picture drawn    *)
(* while none was shown, but for what GetCanvas of an output buffer        *)
(* converts of a YUV canvas; the grids of a canvas tile it, a conversion   *)
(* has the format asked for, and what a module read of a frame stays in    *)
(* it, for any number of threads and grids, any canvases and any sizes.    *)
THEOREM PicturesKept == SuiteSpec => []PicturesStand
<1> DEFINE Inv == TilerInv /\ ScalerInv /\ ObjectsInv
<1>1. SuiteInit => Inv
  BY TilerInvInit, ScalerInvInit, ObjectsInvInit DEF SuiteInit
<1>2. Inv /\ [SuiteNext]_suiteVars => Inv'
  BY SuiteStep, TilerInvNext, ScalerInvNext, ObjectsInvNext
<1>3. Inv => PicturesStand
  BY ScalerKept, ObjectsAreKept, GridsAreTiles, CropsAreInside
  DEF TilerInv, PicturesStand, Pictures!CanvasShows
<1> QED
  BY <1>1, <1>2, <1>3, PTL DEF SuiteSpec
=============================================================================
