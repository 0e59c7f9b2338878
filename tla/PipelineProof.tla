---------------------------- MODULE PipelineProof ----------------------------
(***************************************************************************)
(* Proofs, for every pipeline graph, stream set, parallelism and capacity, *)
(* that the data path keeps its types, that DataInv is inductive, and what *)
(* follows from it: frames arrive complete, EOS_MSG comes last, and        *)
(* Pipeline implements FrameFlow.                                          *)
(*                                                                         *)
(* Only three actions give a thread something new to do: Send, MarkPassed  *)
(* and a PushDataBuffer that finds room.  After any other step every       *)
(* thread waits for, transmits and owes at most what it did before (Less). *)
(***************************************************************************)
EXTENDS PipelineInvariant, TLAPS

USE DEF StreamOf, ModuleOf

(***************************************************************************)
(* Threads and frames                                                      *)
(***************************************************************************)

(* A worker runs for an inner module, a handler for the root of its stream *)
(* and the conveyor a frame is pushed to belongs to the module it is       *)
(* pushed to.                                                              *)
LEMMA WorkerFacts ==
  /\ \A w \in Workers : ModuleOf(w) \in Inner
  /\ \A s \in Streams : Origin[s] \in Roots /\ Handler(s) \notin Workers /\ Handler(s) \in Threads
  /\ \A s \in Streams : ModuleOf(Handler(s)) = Origin[s]
  /\ \A t \in Threads : t \in Workers \/ \E s \in Streams : t = Handler(s)
  /\ \A w \in Workers : w \in Threads
<1> USE PipelineAssumption
<1>1. \A w \in Workers : ModuleOf(w) \in Inner
  BY DEF Workers
<1>2. \A s \in Streams : Origin[s] \in Roots /\ ModuleOf(Handler(s)) = Origin[s]
  BY DEF Handler
<1>3. \A s \in Streams : Handler(s) \notin Workers
  BY <1>1, <1>2 DEF Inner
<1> QED
  BY <1>1, <1>2, <1>3 DEF Threads

LEMMA FrameFacts ==
  ASSUME NEW f \in Frames
  PROVE  /\ StreamOf(f) \in Streams
         /\ f[2] \in 1..LastFrame[StreamOf(f)]
         /\ f[2] \in Nat
         /\ f = <<f[1], f[2]>>
         /\ f # None
BY PipelineAssumption DEF Frames

LEMMA MakeFrame ==
  ASSUME NEW s \in Streams, NEW n \in 1..LastFrame[s]
  PROVE  <<s, n>> \in Frames
BY DEF Frames

LEMMA LastIsFrame ==
  ASSUME NEW s \in Streams
  PROVE  <<s, LastFrame[s]>> \in Frames
<1>1. LastFrame[s] \in 1..LastFrame[s]
  BY PipelineAssumption
<1> QED BY <1>1, MakeFrame

LEMMA ConveyorFacts ==
  ASSUME NEW m \in Inner, NEW f \in Frames
  PROVE  ConveyorFor(m, f) \in Workers /\ ModuleOf(ConveyorFor(m, f)) = m
<1>1. StreamIndex[StreamOf(f)] \in Nat
  BY FrameFacts, PipelineAssumption
<1>2. Parallelism[m] \in Nat \ {0}
  BY PipelineAssumption DEF Inner, Roots
<1>3. StreamIndex[StreamOf(f)] % Parallelism[m] \in 0..Parallelism[m] - 1
  BY <1>1, <1>2
<1> QED
  BY <1>3 DEF ConveyorFor, Workers

(* A down node of a module is an inner module that has it as a parent. *)
LEMMA DownFacts ==
  ASSUME NEW m \in Modules, NEW d \in DownNodes(m)
  PROVE  d \in Inner /\ m \in Parents(d)
BY DEF DownNodes, Parents, Inner, Roots, IsRootNode

(* No module linked to the input of an unreachable module is reachable.    *)
LEMMA RouteMaskClosed ==
  ASSUME NEW r \in Modules, NEW m \in RouteMask(r), NEW p \in Parents(m)
  PROVE  p \in RouteMask(r)
<1> SUFFICES ASSUME p \in Reachable(r) PROVE FALSE
  BY DEF RouteMask, Parents
<1>1. PICK S \in SUBSET Modules :
         /\ r \in S /\ \A l \in Links : l[1] \in S => l[2] \in S
         /\ m \notin S
  BY DEF RouteMask, Reachable
<1>2. p \in S
  BY <1>1 DEF Reachable
<1>3. <<p, m>> \in Links
  BY DEF Parents
<1>4. m \in S
  BY <1>1, <1>2, <1>3
<1> QED BY <1>1, <1>4

(* A source reaches itself. *)
LEMMA OriginReachable ==
  ASSUME NEW r \in Modules
  PROVE  r \notin RouteMask(r)
BY DEF RouteMask, Reachable

(***************************************************************************)
(* Types.  SpawnThreads makes idle threads of a module without looking, so *)
(* that a thread holds no frame when it starts needs CtlInv.               *)
(***************************************************************************)

TypeInv == TypeOK /\ CtlInv

LEMMA TypeInit == Init => TypeInv
<1> SUFFICES ASSUME Init PROVE TypeInv
  OBVIOUS
<1> USE PipelineAssumption DEF Init
<1>1. TypeOK
  BY WorkerFacts DEF TypeOK, Pcs, Holding, BeforeMark, AfterMark, ModuleOf, Inner
<1>2. CtlInv
  BY WorkerFacts DEF CtlInv
<1> QED BY <1>1, <1>2 DEF TypeInv

LEMMA ReleaseTypes ==
  ASSUME TypeOK, NEW t \in Threads, NEW label \in Pcs \ Holding, Release(t, label)
  PROVE  /\ pc' \in [Threads -> Pcs]
         /\ cur' \in [Threads -> Frames \cup {None}]
         /\ \A u \in Threads : pc'[u] \in Holding <=> cur'[u] # None
         /\ changed' \in [Threads -> SUBSET Modules]
         /\ todo' \in [Threads -> SUBSET Inner]
         /\ \A u \in Threads : u # t => pc'[u] = pc[u] /\ cur'[u] = cur[u]
BY DEF TypeOK, Release, Goto

LEMMA PushLoopTypes ==
  ASSUME TypeOK, NEW t \in Threads, pc[t] \in Holding, NEW rest \in SUBSET Inner,
         PushLoop(t, rest)
  PROVE  /\ pc' \in [Threads -> Pcs]
         /\ cur' \in [Threads -> Frames \cup {None}]
         /\ \A u \in Threads : pc'[u] \in Holding <=> cur'[u] # None
         /\ changed' \in [Threads -> SUBSET Modules]
         /\ todo' \in [Threads -> SUBSET Inner]
<1>1. CASE rest = {} /\ Release(t, "idle")
  BY <1>1, ReleaseTypes DEF Pcs, Holding, BeforeMark, AfterMark
<1>2. CASE rest # {} /\ Goto(t, "gate") /\ todo' = [todo EXCEPT ![t] = rest]
           /\ UNCHANGED <<cur, changed>>
  BY <1>2 DEF TypeOK, Goto, Pcs, Holding, BeforeMark, AfterMark
<1> QED BY <1>1, <1>2 DEF PushLoop

(* The frame a thread holds is one. *)
LEMMA HeldFrame ==
  ASSUME TypeOK, NEW t \in Threads, pc[t] \in Holding
  PROVE  cur[t] \in Frames
BY DEF TypeOK

LEMMA TypeStep == TypeInv /\ [Next]_vars => TypeInv'
<1> SUFFICES ASSUME TypeInv, [Next]_vars PROVE TypeInv'
  OBVIOUS
<1> USE PipelineAssumption
<1>0. TypeOK /\ CtlInv
  BY DEF TypeInv
<1>1. ASSUME NEW s \in Streams, Send(s) PROVE TypeInv'
  <2> DEFINE t == Handler(s)
             f == <<s, sent[s] + 1>>
  <2>1. t \in Threads /\ t \notin Workers
    BY WorkerFacts
  <2>2. sent[s] \in Nat /\ sent[s] + 1 \in 1..LastFrame[s]
    BY <1>0, <1>1 DEF TypeOK, Send
  <2>3. f \in Frames /\ f # None
    BY <2>2, MakeFrame
  <2>4. sent' = [sent EXCEPT ![s] = @ + 1]
    BY <1>1 DEF Send
  <2>5. sent' \in [Streams -> Nat] /\ \A x \in Streams : sent'[x] <= LastFrame[x]
    BY <1>0, <2>2, <2>4 DEF TypeOK
  <2>6. invalid' \subseteq Frames
    BY <1>0, <1>1, <2>3 DEF TypeOK, Send
  <2>7. CASE UNCHANGED threadVars
    BY <1>0, <1>1, <2>5, <2>6, <2>7 DEF TypeInv, TypeOK, CtlInv, Send, dataVars, threadVars, ctlVars
  <2>8. CASE /\ pc' = [pc EXCEPT ![t] = "mark"]
             /\ cur' = [cur EXCEPT ![t] = f]
             /\ UNCHANGED <<changed, todo>>
    <3>1. /\ pc' \in [Threads -> Pcs]
          /\ cur' \in [Threads -> Frames \cup {None}]
          /\ \A u \in Threads : pc'[u] \in Holding <=> cur'[u] # None
      BY <1>0, <2>1, <2>3, <2>8 DEF TypeOK, Pcs, Holding, BeforeMark, AfterMark
    <3>2. CtlInv'
      BY <1>0, <1>1, <2>1, <2>8, WorkerFacts DEF CtlInv, TypeOK, Send, ctlVars
    <3> QED
      BY <1>0, <1>1, <2>5, <2>6, <2>8, <3>1, <3>2 DEF TypeInv, TypeOK, Send, dataVars, ctlVars
  <2> QED
    BY <1>1, <2>7, <2>8 DEF Send, Goto
<1>2. ASSUME NEW s \in Streams, SetStreamRemoved(s) PROVE TypeInv'
  BY <1>0, <1>2 DEF TypeInv, TypeOK, CtlInv, SetStreamRemoved, dataVars, threadVars, ctlVars
<1>3. ASSUME NEW t \in Workers, TaskLoopExit(t) PROVE TypeInv'
  <2>1. pc' \in [Threads -> Pcs] /\ \A u \in Threads : pc'[u] \in Holding <=> cur'[u] # None
    BY <1>0, <1>3, WorkerFacts
       DEF TypeOK, TaskLoopExit, Goto, Pcs, Holding, BeforeMark, AfterMark
  <2>2. CtlInv'
    BY <1>0, <1>3, WorkerFacts DEF CtlInv, TypeOK, TaskLoopExit, Goto, ctlVars
  <2> QED
    BY <1>0, <1>3, <2>1, <2>2 DEF TypeInv, TypeOK, TaskLoopExit, dataVars, sourceVars, ctlVars
<1>4. ASSUME NEW t \in Workers, PopDataBuffer(t) PROVE TypeInv'
  <2>1. dataq[t] \in Seq(Frames) /\ dataq[t] # <<>> /\ t \in Threads
    BY <1>0, <1>4, WorkerFacts DEF TypeOK, PopDataBuffer
  <2>2. Head(dataq[t]) \in Frames /\ Tail(dataq[t]) \in Seq(Frames)
        /\ Len(Tail(dataq[t])) <= Len(dataq[t])
    BY <2>1
  <2>3. dataq' \in [Workers -> Seq(Frames)]
        /\ \A w \in Workers : Len(dataq'[w]) <= Capacity[ModuleOf(w)]
    <3>1. dataq' = [dataq EXCEPT ![t] = Tail(@)]
      BY <1>4 DEF PopDataBuffer
    <3>2. \A w \in Workers : Len(dataq'[w]) <= Len(dataq[w]) /\ Len(dataq'[w]) \in Nat
                             /\ Len(dataq[w]) \in Nat
      BY <1>0, <2>2, <3>1 DEF TypeOK
    <3>3. \A w \in Workers : Capacity[ModuleOf(w)] \in Nat
      BY WorkerFacts DEF Inner
    <3> QED BY <1>0, <2>2, <3>1, <3>2, <3>3 DEF TypeOK
  <2>4. /\ pc' \in [Threads -> Pcs]
        /\ cur' \in [Threads -> Frames \cup {None}]
        /\ \A u \in Threads : pc'[u] \in Holding <=> cur'[u] # None
    BY <1>0, <1>4, <2>1, <2>2
       DEF TypeOK, PopDataBuffer, Goto, Pcs, Holding, BeforeMark, AfterMark
  <2>5. CtlInv'
    BY <1>0, <1>4, WorkerFacts DEF CtlInv, TypeOK, PopDataBuffer, Goto, ctlVars
  <2> QED
    BY <1>0, <1>4, <2>3, <2>4, <2>5 DEF TypeInv, TypeOK, PopDataBuffer, sourceVars, ctlVars
<1>5. ASSUME NEW t \in Workers, DoProcess(t) PROVE TypeInv'
  <2>1. t \in Threads
    BY WorkerFacts
  <2>2. /\ pc' \in [Threads -> Pcs]
        /\ cur' \in [Threads -> Frames \cup {None}]
        /\ \A u \in Threads : pc'[u] \in Holding <=> cur'[u] # None
        /\ changed' \in [Threads -> SUBSET Modules]
        /\ todo' \in [Threads -> SUBSET Inner]
    <3>1. CASE Goto(t, "mark") /\ UNCHANGED <<cur, changed, todo>>
      BY <1>0, <1>5, <2>1, <3>1 DEF TypeOK, DoProcess, Goto, Pcs, Holding, BeforeMark, AfterMark
    <3>2. CASE Release(t, "idle") \/ Release(t, "done")
      BY <1>0, <2>1, <3>2, ReleaseTypes DEF Pcs, Holding, BeforeMark, AfterMark
    <3> QED BY <1>5, <3>1, <3>2 DEF DoProcess
  <2>3. CtlInv'
    BY <1>0, <1>5, WorkerFacts DEF CtlInv, TypeOK, DoProcess, Goto, Release, ctlVars
  <2> QED
    BY <1>0, <1>5, <2>2, <2>3 DEF TypeInv, TypeOK, DoProcess, dataVars, sourceVars, ctlVars
<1>6. ASSUME NEW t \in Threads, MarkPassed(t) PROVE TypeInv'
  <2>1. cur[t] \in Frames
    BY <1>0, <1>6, HeldFrame DEF MarkPassed, Holding, BeforeMark
  <2>2. ModuleOf(t) \in Modules
    BY WorkerFacts DEF Inner, Roots
  <2> DEFINE base == IF IsRootNode(ModuleOf(t)) THEN route_masks[ModuleOf(t)] ELSE mask[cur[t]]
  <2>3. base \in SUBSET Modules
    BY <1>0, <2>1, <2>2 DEF TypeOK, route_masks, RouteMask, Roots
  <2>4. mask' \in [Frames -> SUBSET Modules] /\ changed' \in [Threads -> SUBSET Modules]
    <3>1. base \cup {ModuleOf(t)} \in SUBSET Modules
      BY <2>2, <2>3
    <3>2. mask' = [mask EXCEPT ![cur[t]] = base \cup {ModuleOf(t)}]
          /\ changed' = [changed EXCEPT ![t] = base \cup {ModuleOf(t)}]
      BY <1>6 DEF MarkPassed
    <3> HIDE DEF base
    <3> QED BY <1>0, <3>1, <3>2 DEF TypeOK
  <2>5. /\ pc' \in [Threads -> Pcs]
        /\ \A u \in Threads : pc'[u] \in Holding <=> cur'[u] # None
    BY <1>0, <1>6 DEF TypeOK, MarkPassed, Goto, Pcs, Holding, BeforeMark, AfterMark
  <2>6. CtlInv'
    BY <1>0, <1>6, WorkerFacts DEF CtlInv, TypeOK, MarkPassed, Goto, ctlVars
  <2> QED
    BY <1>0, <1>6, <2>4, <2>5, <2>6 DEF TypeInv, TypeOK, MarkPassed, sourceVars, ctlVars
<1>7. ASSUME NEW t \in Threads, TransmitCheck(t) PROVE TypeInv'
  <2> DEFINE downs == {d \in DownNodes(ModuleOf(t)) : ShouldTransmit(TransmitMask(t), d)}
  <2>1. cur[t] \in Frames /\ pc[t] \in Holding /\ StreamOf(cur[t]) \in Streams
    BY <1>0, <1>7, HeldFrame, FrameFacts DEF TransmitCheck, Holding, AfterMark
  <2>2. ModuleOf(t) \in Modules
    BY WorkerFacts DEF Inner, Roots
  <2>3. downs \in SUBSET Inner
    BY <2>2, DownFacts
  <2>4. eosMsg' \in [Streams -> Nat]
    BY <1>0, <1>7, <2>1 DEF TypeOK, TransmitCheck
  <2>5. Release(t, "idle") \/ PushLoop(t, downs)
    BY <1>7 DEF TransmitCheck
  <2> HIDE DEF downs
  <2>6. /\ pc' \in [Threads -> Pcs]
        /\ cur' \in [Threads -> Frames \cup {None}]
        /\ \A u \in Threads : pc'[u] \in Holding <=> cur'[u] # None
        /\ changed' \in [Threads -> SUBSET Modules]
        /\ todo' \in [Threads -> SUBSET Inner]
    BY <1>0, <2>1, <2>3, <2>5, ReleaseTypes, PushLoopTypes DEF Pcs, Holding, BeforeMark, AfterMark
  <2>7. CtlInv'
    BY <1>0, <1>7, <2>5, WorkerFacts
       DEF CtlInv, TypeOK, TransmitCheck, PushLoop, Goto, Release, ctlVars
  <2> QED
    BY <1>0, <1>7, <2>4, <2>6, <2>7 DEF TypeInv, TypeOK, TransmitCheck, dataVars, sourceVars, ctlVars
<1>8. ASSUME NEW t \in Threads, PushGate(t) PROVE TypeInv'
  <2>1. pc[t] \in Holding
    BY <1>8 DEF PushGate, Holding, AfterMark
  <2>2. PICK d \in Inner : \/ PushLoop(t, todo[t] \ {d})
                           \/ Goto(t, "push") /\ UNCHANGED <<cur, changed, todo>>
    BY <1>8 DEF PushGate
  <2>3. todo[t] \ {d} \in SUBSET Inner
    BY <1>0 DEF TypeOK
  <2>4. /\ pc' \in [Threads -> Pcs]
        /\ cur' \in [Threads -> Frames \cup {None}]
        /\ \A u \in Threads : pc'[u] \in Holding <=> cur'[u] # None
        /\ changed' \in [Threads -> SUBSET Modules]
        /\ todo' \in [Threads -> SUBSET Inner]
    <3>1. CASE PushLoop(t, todo[t] \ {d})
      BY <1>0, <2>1, <2>3, <3>1, PushLoopTypes
    <3>2. CASE Goto(t, "push") /\ UNCHANGED <<cur, changed, todo>>
      BY <1>0, <2>1, <3>2 DEF TypeOK, Goto, Pcs, Holding, BeforeMark, AfterMark
    <3> QED BY <2>2, <3>1, <3>2
  <2>5. CtlInv'
    BY <1>0, <1>8, <2>2, WorkerFacts DEF CtlInv, TypeOK, PushGate, PushLoop, Goto, Release, ctlVars
  <2> QED
    BY <1>0, <1>8, <2>4, <2>5 DEF TypeInv, TypeOK, PushGate, dataVars, sourceVars, ctlVars
<1>9. ASSUME NEW t \in Threads, PushDataBuffer(t) PROVE TypeInv'
  <2>1. pc[t] \in Holding /\ cur[t] \in Frames
    BY <1>0, <1>9, HeldFrame DEF PushDataBuffer, Holding, AfterMark
  <2>2. PICK d \in Inner :
          LET c == ConveyorFor(d, cur[t]) IN
          IF HasRoom(c)
            THEN /\ dataq' = [dataq EXCEPT ![c] = Append(@, cur[t])]
                 /\ PushLoop(t, todo[t] \ {d})
            ELSE /\ Goto(t, "gate")
                 /\ UNCHANGED <<dataq, cur, changed, todo>>
    BY <1>9 DEF PushDataBuffer
  <2> DEFINE c == ConveyorFor(d, cur[t])
  <2>3. c \in Workers /\ ModuleOf(c) = d
    BY <2>1, ConveyorFacts
  <2>4. todo[t] \ {d} \in SUBSET Inner
    BY <1>0 DEF TypeOK
  <2>5. CASE HasRoom(c)
    <3> HIDE DEF c
    <3>1. dataq' = [dataq EXCEPT ![c] = Append(@, cur[t])] /\ PushLoop(t, todo[t] \ {d})
      BY <2>2, <2>5 DEF c
    <3>2. dataq[c] \in Seq(Frames)
      BY <1>0, <2>3 DEF TypeOK
    <3>3. Append(dataq[c], cur[t]) \in Seq(Frames)
          /\ Len(Append(dataq[c], cur[t])) = Len(dataq[c]) + 1 /\ Len(dataq[c]) \in Nat
      BY <2>1, <3>2
    <3>4. Len(dataq[c]) + 1 <= Capacity[ModuleOf(c)]
      <4>1. Capacity[ModuleOf(c)] \in Nat
        BY <2>3 DEF Inner
      <4> QED BY <2>5, <3>3, <4>1 DEF HasRoom
    <3>5. /\ dataq' \in [Workers -> Seq(Frames)]
          /\ \A w \in Workers : Len(dataq'[w]) <= Capacity[ModuleOf(w)]
      BY <1>0, <3>1, <3>3, <3>4 DEF TypeOK
    <3>6. /\ pc' \in [Threads -> Pcs]
          /\ cur' \in [Threads -> Frames \cup {None}]
          /\ \A u \in Threads : pc'[u] \in Holding <=> cur'[u] # None
          /\ changed' \in [Threads -> SUBSET Modules]
          /\ todo' \in [Threads -> SUBSET Inner]
      BY <1>0, <2>1, <2>4, <3>1, PushLoopTypes
    <3>7. CtlInv'
      BY <1>0, <1>9, <3>1, WorkerFacts
         DEF CtlInv, TypeOK, PushDataBuffer, PushLoop, Goto, Release, ctlVars
    <3> QED
      BY <1>0, <1>9, <3>5, <3>6, <3>7 DEF TypeInv, TypeOK, PushDataBuffer, sourceVars, ctlVars
  <2>6. CASE ~HasRoom(c)
    <3>1. Goto(t, "gate") /\ UNCHANGED <<dataq, cur, changed, todo>>
      BY <2>2, <2>6
    <3>2. pc' \in [Threads -> Pcs] /\ \A u \in Threads : pc'[u] \in Holding <=> cur'[u] # None
      BY <1>0, <2>1, <3>1 DEF TypeOK, Goto, Pcs, Holding, BeforeMark, AfterMark
    <3>3. CtlInv'
      BY <1>0, <1>9, <3>1, WorkerFacts DEF CtlInv, TypeOK, PushDataBuffer, Goto, ctlVars
    <3> QED
      BY <1>0, <1>9, <3>1, <3>2, <3>3 DEF TypeInv, TypeOK, PushDataBuffer, sourceVars, ctlVars
  <2> QED BY <2>5, <2>6
<1>10. ASSUME StartOpen PROVE TypeInv'
  <2>1. starts' \in 0..MaxStarts
    BY <1>0, <1>10 DEF TypeOK, StartOpen
  <2> QED
    BY <1>0, <1>10, <2>1
       DEF TypeInv, TypeOK, CtlInv, StartOpen, dataVars, threadVars, sourceVars
<1>11. ASSUME StopBegin PROVE TypeInv'
  BY <1>0, <1>11 DEF TypeInv, TypeOK, CtlInv, StopBegin, dataVars, threadVars, sourceVars
<1>12. ASSUME NEW m \in Inner, StartConnector(m) PROVE TypeInv'
  BY <1>0, <1>12 DEF TypeInv, TypeOK, CtlInv, StartConnector, threadVars, sourceVars
<1>13. ASSUME NEW m \in Inner, SpawnThreads(m) PROVE TypeInv'
  <2>1. \A w \in Workers : ModuleOf(w) = m => pc[w] = "off"
    BY <1>0, <1>13 DEF CtlInv, SpawnThreads, NextModule
  <2>2. pc' \in [Threads -> Pcs] /\ \A u \in Threads : pc'[u] \in Holding <=> cur'[u] # None
    BY <1>0, <1>13, <2>1 DEF TypeOK, SpawnThreads, Pcs, Holding, BeforeMark, AfterMark
  <2>3. CtlInv'
    BY <1>0, <1>13, WorkerFacts DEF CtlInv, SpawnThreads
  <2> QED
    BY <1>0, <1>13, <2>2, <2>3 DEF TypeInv, TypeOK, SpawnThreads, dataVars, sourceVars
<1>14. ASSUME NEW m \in Inner, StopConnector(m) PROVE TypeInv'
  BY <1>0, <1>14 DEF TypeInv, TypeOK, CtlInv, StopConnector, threadVars, sourceVars
<1>15. ASSUME NEW w \in Workers, EmptyDataQueue(w) PROVE TypeInv'
  <2>1. dataq' \in [Workers -> Seq(Frames)] /\ \A x \in Workers : Len(dataq'[x]) <= Capacity[ModuleOf(x)]
    <3>1. dataq' = [dataq EXCEPT ![w] = <<>>]
      BY <1>15 DEF EmptyDataQueue
    <3>2. Capacity[ModuleOf(w)] \in Nat /\ Len(<<>>) = 0 /\ <<>> \in Seq(Frames)
      BY WorkerFacts DEF Inner
    <3> QED BY <1>0, <3>1, <3>2 DEF TypeOK
  <2> QED
    BY <1>0, <1>15, <2>1 DEF TypeInv, TypeOK, CtlInv, EmptyDataQueue, threadVars, sourceVars
<1>16. ASSUME ConnectorsStarted \/ Started \/ ConnectorsStopped \/ CloseModules PROVE TypeInv'
  BY <1>0, <1>16 DEF TypeInv, TypeOK, CtlInv, ConnectorsStarted, Started, ConnectorsStopped,
                     CloseModules, dataVars, threadVars, sourceVars
<1>17. ASSUME JoinThreads PROVE TypeInv'
  <2>1. pc' \in [Threads -> Pcs] /\ \A u \in Threads : pc'[u] \in Holding <=> cur'[u] # None
    BY <1>0, <1>17 DEF TypeOK, JoinThreads, Pcs, Holding, BeforeMark, AfterMark
  <2>2. CtlInv'
    BY <1>0, <1>17, WorkerFacts DEF CtlInv, JoinThreads
  <2> QED
    BY <1>0, <1>17, <2>1, <2>2 DEF TypeInv, TypeOK, JoinThreads, dataVars, sourceVars
<1>18. CASE UNCHANGED vars
  BY <1>0, <1>18 DEF TypeInv, TypeOK, CtlInv, vars, dataVars, threadVars, sourceVars, ctlVars
<1> QED
  BY <1>1, <1>2, <1>3, <1>4, <1>5, <1>6, <1>7, <1>8, <1>9, <1>10, <1>11, <1>12, <1>13, <1>14,
     <1>15, <1>16, <1>17, <1>18
     DEF Next, ThreadStep, TaskLoop, TransmitData, ControlStep

(* Every reachable state of the data path has its type: conveyors within   *)
(* their capacity, frames in the hands of exactly the threads that popped  *)
(* or created them.                                                        *)
THEOREM TypeCorrect == Spec => []TypeOK
<1>1. Spec => []TypeInv
  BY TypeInit, TypeStep, PTL DEF Spec
<1>2. TypeInv => TypeOK
  BY DEF TypeInv
<1> QED BY <1>1, <1>2, PTL

(***************************************************************************)
(* The data invariant                                                      *)
(***************************************************************************)

Keeps(t) ==
  /\ pc'[t] = pc[t] /\ cur'[t] = cur[t] /\ changed'[t] = changed[t] /\ todo'[t] = todo[t]
  /\ t \in Workers => dataq'[t] = dataq[t]

LessWaiting(t) ==
  /\ Waiting(t)' \subseteq Waiting(t)
  /\ t \in Workers => Sorted(t)'

LessPassing(t) ==
  /\ pc'[t] \in AfterMark =>
       pc[t] \in AfterMark /\ cur'[t] = cur[t] /\ changed'[t] = changed[t]
  /\ pc'[t] = "check" => pc[t] = "check"
  /\ \A d \in Inner : Pending(t, d)' => Pending(t, d)

LessSending(s) ==
  /\ sent'[s] \in Nat /\ sent'[s] >= sent[s]
  /\ pc'[Handler(s)] \in BeforeMark =>
       /\ pc[Handler(s)] \in BeforeMark
       /\ cur'[Handler(s)] = cur[Handler(s)]
       /\ sent'[s] = sent[s]

LEMMA KeepsLess ==
  ASSUME SortedInv, NEW t \in Threads, Keeps(t)
  PROVE  LessWaiting(t) /\ LessPassing(t) /\ Waiting(t)' = Waiting(t)
<1>1. Waiting(t)' = Waiting(t)
  BY DEF Waiting, Keeps, Queued
<1>2. t \in Workers => Sorted(t)'
  BY DEF Sorted, Keeps, Queued, Before, SortedInv
<1>3. LessPassing(t)
  BY DEF LessPassing, Keeps, Pending
<1> QED BY <1>1, <1>2, <1>3 DEF LessWaiting

(* A frame that waits or is transmitted is a frame; a thread of an inner   *)
(* module is a worker.                                                     *)
LEMMA WaitingFrame ==
  ASSUME TypeOK, NEW t \in Threads, NEW f \in Waiting(t)
  PROVE  f \in Frames
<1>1. CASE t \in Workers /\ f \in Queued(t)
  BY <1>1 DEF TypeOK, Queued
<1>2. CASE pc[t] \in BeforeMark /\ f = cur[t]
  BY <1>2, HeldFrame DEF Holding
<1> QED BY <1>1, <1>2 DEF Waiting

LEMMA InnerThread ==
  ASSUME NEW t \in Threads, ModuleOf(t) \in Inner
  PROVE  t \in Workers
BY WorkerFacts, PipelineAssumption DEF Inner

LEMMA ModuleFacts ==
  ASSUME NEW t \in Threads
  PROVE  ModuleOf(t) \in Modules
BY WorkerFacts, PipelineAssumption DEF Inner, Roots

LEMMA PendingPasses ==
  ASSUME NEW t \in Threads, NEW d \in Inner, Pending(t, d)
  PROVE  pc[t] \in AfterMark
BY DEF Pending, AfterMark

(* The thread of an earlier frame of the same stream is the same.          *)
LEMMA SameThread ==
  ASSUME NEW m \in Modules, NEW f \in Frames, NEW g \in Frames, StreamOf(f) = StreamOf(g)
  PROVE  ThreadFor(m, f) = ThreadFor(m, g)
BY DEF ThreadFor, ConveyorFor

(* After a step with nothing new to transmit or send, and the masks as     *)
(* they were.                                                              *)
LEMMA PassingShrinks ==
  ASSUME IInv, UNCHANGED mask, \A t \in Threads : LessPassing(t),
         \A s \in Streams : LessSending(s)
  PROVE  PassingInv' /\ MaskInv' /\ HandlerInv' /\ ChainInv'
<1> USE DEF IInv, DataInv
<1>1. PassingInv'
  BY DEF PassingInv, LessPassing, Before
<1>2. MaskInv'
  <2> SUFFICES ASSUME NEW f \in Frames
               PROVE  /\ \A m \in mask'[f] : Parents(m) \subseteq mask'[f]
                      /\ f[2] > sent'[StreamOf(f)] => mask'[f] = {}
    BY DEF MaskInv
  <2>1. f[2] \in Nat /\ StreamOf(f) \in Streams
    BY FrameFacts
  <2>2. sent[StreamOf(f)] \in Nat /\ sent'[StreamOf(f)] \in Nat /\ sent'[StreamOf(f)] >= sent[StreamOf(f)]
    BY <2>1 DEF TypeOK, LessSending
  <2> QED BY <2>1, <2>2 DEF MaskInv
<1>3. HandlerInv'
  BY WorkerFacts DEF HandlerInv, LessSending
<1>4. ChainInv'
  BY DEF ChainInv, LessPassing
<1> QED BY <1>1, <1>2, <1>3, <1>4

LEMMA EosShrinks ==
  ASSUME IInv, UNCHANGED <<mask, eosMsg>>, \A t \in Threads : LessPassing(t)
  PROVE  EosInv'
<1> SUFFICES ASSUME NEW s \in Streams, eosMsg'[s] > 0
             PROVE  /\ eosMsg'[s] = 1
                    /\ mask'[<<s, LastFrame[s]>>] = Modules
                    /\ \A t \in Threads :
                         ~(pc'[t] = "check" /\ cur'[t] = <<s, LastFrame[s]>> /\ changed'[t] = Modules)
  BY DEF EosInv
<1>1. /\ eosMsg[s] = 1
      /\ mask[<<s, LastFrame[s]>>] = Modules
      /\ \A t \in Threads :
           ~(pc[t] = "check" /\ cur[t] = <<s, LastFrame[s]>> /\ changed[t] = Modules)
  BY DEF IInv, DataInv, EosInv
<1> QED BY <1>1 DEF LessPassing, AfterMark

(* And nothing new that waits.                                             *)
LEMMA WaitingShrinks ==
  ASSUME IInv, UNCHANGED mask, \A t \in Threads : LessPassing(t),
         \A t \in Threads : LessWaiting(t)
  PROVE  PlacedInv' /\ WaitingInv' /\ SortedInv' /\ PendingInv'
<1> USE DEF IInv, DataInv
<1>1. PlacedInv'
  BY DEF PlacedInv, LessPassing, LessWaiting, Passing
<1>2. WaitingInv'
  BY DEF WaitingInv, LessWaiting
<1>3. SortedInv'
  BY WorkerFacts DEF SortedInv, LessWaiting
<1>4. PendingInv'
  <2> SUFFICES ASSUME NEW t \in Threads, NEW d \in Inner, Pending(t, d)'
               PROVE  /\ d \in DownNodes(ModuleOf(t))
                      /\ Parents(d) \subseteq changed'[t]
                      /\ d \notin mask'[cur'[t]]
                      /\ \A w \in Workers : ModuleOf(w) = d => cur'[t] \notin Waiting(w)'
    BY DEF PendingInv
  <2>1. Pending(t, d) /\ cur'[t] = cur[t] /\ changed'[t] = changed[t]
    <3>1. pc'[t] \in AfterMark
      BY DEF Pending, AfterMark
    <3> QED BY <3>1 DEF LessPassing
  <2>2. /\ d \in DownNodes(ModuleOf(t))
        /\ Parents(d) \subseteq changed[t]
        /\ d \notin mask[cur[t]]
        /\ \A w \in Workers : ModuleOf(w) = d => cur[t] \notin Waiting(w)
    BY <2>1 DEF PendingInv
  <2> QED BY <2>1, <2>2, WorkerFacts DEF LessWaiting
<1> QED BY <1>1, <1>2, <1>3, <1>4

LEMMA DataShrinks ==
  ASSUME IInv, UNCHANGED <<mask, eosMsg>>, \A t \in Threads : LessPassing(t),
         \A t \in Threads : LessWaiting(t), \A s \in Streams : LessSending(s)
  PROVE  DataInv'
BY PassingShrinks, EosShrinks, WaitingShrinks DEF DataInv

(***************************************************************************)
(* The steps that shrink                                                   *)
(***************************************************************************)

LEMMA SendingKept ==
  ASSUME TypeOK, UNCHANGED sent,
         \A s \in Streams : pc'[Handler(s)] \in BeforeMark =>
                               pc[Handler(s)] \in BeforeMark /\ cur'[Handler(s)] = cur[Handler(s)]
  PROVE  \A s \in Streams : LessSending(s)
BY DEF LessSending, TypeOK

LEMMA ReleaseLess ==
  ASSUME IInv, NEW t \in Threads, NEW label \in {"idle", "done"}, Release(t, label),
         UNCHANGED dataq
  PROVE  /\ \A u \in Threads : LessPassing(u) /\ LessWaiting(u)
         /\ pc'[t] = label
         /\ \A u \in Threads : u # t => Keeps(u)
<1>1. pc'[t] = label /\ \A u \in Threads : u # t => Keeps(u)
  BY DEF IInv, TypeOK, Release, Goto, Keeps
<1>2. LessPassing(t)
  BY <1>1 DEF LessPassing, Pending, AfterMark
<1>3. Waiting(t)' \subseteq Waiting(t)
  BY <1>1 DEF Waiting, Queued, BeforeMark
<1>4. t \in Workers => Sorted(t)'
  BY <1>1 DEF Sorted, Queued, BeforeMark, IInv, DataInv, SortedInv
<1> QED BY <1>1, <1>2, <1>3, <1>4, KeepsLess DEF LessWaiting, IInv, DataInv

(* The push loop goes on with some of what it had.                         *)
LEMMA PushLoopLess ==
  ASSUME IInv, NEW t \in Threads, NEW rest \in SUBSET Inner, PushLoop(t, rest),
         pc[t] \in AfterMark, \A d \in rest : Pending(t, d)
  PROVE  /\ LessPassing(t)
         /\ pc'[t] \in {"idle", "gate"}
         /\ \A u \in Threads : u # t => /\ pc'[u] = pc[u] /\ cur'[u] = cur[u]
                                        /\ changed'[u] = changed[u] /\ todo'[u] = todo[u]
<1>1. CASE Release(t, "idle")
  BY <1>1 DEF IInv, TypeOK, Release, Goto, LessPassing, Pending, AfterMark
<1>2. CASE Goto(t, "gate") /\ todo' = [todo EXCEPT ![t] = rest] /\ UNCHANGED <<cur, changed>>
  <2>1. pc'[t] = "gate" /\ todo'[t] = rest /\ cur'[t] = cur[t] /\ changed'[t] = changed[t]
    BY <1>2 DEF IInv, TypeOK, Goto
  <2>2. LessPassing(t)
    BY <2>1 DEF LessPassing, Pending
  <2> QED BY <1>2, <2>1, <2>2 DEF IInv, TypeOK, Goto
<1> QED BY <1>1, <1>2 DEF PushLoop

(* A thread in TransmitData waits for what its conveyor holds.             *)
LEMMA QueueOnly ==
  ASSUME IInv, NEW t \in Threads, pc'[t] \notin BeforeMark, t \in Workers => dataq'[t] = dataq[t]
  PROVE  LessWaiting(t)
<1>1. Waiting(t)' \subseteq Waiting(t)
  BY DEF Waiting, Queued
<1>2. t \in Workers => Sorted(t)'
  BY DEF Sorted, Queued, IInv, DataInv, SortedInv
<1> QED BY <1>1, <1>2 DEF LessWaiting

LEMMA PopStep ==
  ASSUME IInv, NEW t \in Workers, PopDataBuffer(t)
  PROVE  DataInv'
<1>1. t \in Threads /\ pc[t] = "idle" /\ dataq[t] \in Seq(Frames) /\ dataq[t] # <<>>
  BY WorkerFacts DEF PopDataBuffer, IInv, TypeOK
<1>2. /\ pc'[t] = "popped" /\ cur'[t] = Head(dataq[t]) /\ dataq'[t] = Tail(dataq[t])
      /\ \A u \in Threads : u # t => Keeps(u)
  BY <1>1 DEF PopDataBuffer, IInv, TypeOK, Goto, Keeps
<1>3. /\ cur'[t] = dataq[t][1] /\ Len(dataq[t]) \in Nat \ {0}
      /\ Len(dataq'[t]) = Len(dataq[t]) - 1
      /\ \A i \in 1..Len(dataq'[t]) : dataq'[t][i] = dataq[t][i + 1]
  BY <1>1, <1>2
<1>4. Sorted(t)
  BY DEF IInv, DataInv, SortedInv
<1>5. Waiting(t)' \subseteq Waiting(t)
  BY <1>1, <1>2, <1>3 DEF Waiting, Queued
<1>6. Sorted(t)'
  <2>1. \A i, j \in 1..Len(dataq'[t]) :
          i < j /\ StreamOf(dataq'[t][i]) = StreamOf(dataq'[t][j]) => dataq'[t][i][2] < dataq'[t][j][2]
    <3> SUFFICES ASSUME NEW i \in 1..Len(dataq'[t]), NEW j \in 1..Len(dataq'[t]), i < j,
                        StreamOf(dataq'[t][i]) = StreamOf(dataq'[t][j])
                 PROVE  dataq'[t][i][2] < dataq'[t][j][2]
      OBVIOUS
    <3>1. i + 1 \in 1..Len(dataq[t]) /\ j + 1 \in 1..Len(dataq[t]) /\ i + 1 < j + 1
      BY <1>3
    <3> QED BY <1>3, <1>4, <3>1 DEF Sorted
  <2>2. \A f \in Queued(t)' : StreamOf(f) = StreamOf(cur'[t]) => Before(cur'[t], f)
    <3> SUFFICES ASSUME NEW j \in 1..Len(dataq'[t]), StreamOf(dataq'[t][j]) = StreamOf(cur'[t])
                 PROVE  Before(cur'[t], dataq'[t][j])
      BY DEF Queued
    <3>1. 1 \in 1..Len(dataq[t]) /\ j + 1 \in 1..Len(dataq[t]) /\ 1 < j + 1
      BY <1>3
    <3> QED BY <1>3, <1>4, <3>1 DEF Sorted, Before
  <2> QED BY <2>1, <2>2 DEF Sorted
<1>7. LessPassing(t)
  BY <1>2 DEF LessPassing, Pending, AfterMark
<1>8. \A s \in Streams : LessSending(s)
  <2>1. \A s \in Streams : Handler(s) # t
    BY WorkerFacts
  <2> QED BY <1>2, <2>1, SendingKept, WorkerFacts DEF PopDataBuffer, sourceVars, IInv, Keeps
<1> QED
  BY <1>2, <1>5, <1>6, <1>7, <1>8, KeepsLess, DataShrinks
     DEF LessWaiting, PopDataBuffer, IInv, DataInv

LEMMA ProcessStep ==
  ASSUME IInv, NEW t \in Workers, DoProcess(t)
  PROVE  DataInv'
<1>1. t \in Threads /\ pc[t] = "popped" /\ \A s \in Streams : Handler(s) # t
  BY WorkerFacts DEF DoProcess
<1>2. UNCHANGED <<dataq, mask, eosMsg, sent>>
  BY DEF DoProcess, dataVars, sourceVars
<1>3. CASE Release(t, "idle") \/ Release(t, "done")
  <2>1. /\ \A u \in Threads : LessPassing(u) /\ LessWaiting(u)
        /\ \A u \in Threads : u # t => Keeps(u)
    BY <1>1, <1>2, <1>3, ReleaseLess
  <2>2. \A s \in Streams : LessSending(s)
    BY <1>1, <1>2, <2>1, SendingKept, WorkerFacts DEF IInv, Keeps
  <2> QED BY <1>2, <2>1, <2>2, DataShrinks
<1>4. CASE Goto(t, "mark") /\ UNCHANGED <<cur, changed, todo>>
  <2>1. pc'[t] = "mark" /\ \A u \in Threads : u # t => Keeps(u)
    BY <1>1, <1>2, <1>4 DEF IInv, TypeOK, Goto, Keeps
  <2>2. LessPassing(t)
    BY <2>1 DEF LessPassing, Pending, AfterMark
  <2>3. Waiting(t)' \subseteq Waiting(t)
    BY <1>1, <1>2, <1>4, <2>1 DEF Waiting, Queued, BeforeMark
  <2>4. Sorted(t)'
    BY <1>1, <1>2, <1>4 DEF IInv, DataInv, SortedInv, Sorted, Queued, BeforeMark, Before
  <2>5. \A s \in Streams : LessSending(s)
    BY <1>1, <1>2, <2>1, SendingKept, WorkerFacts DEF IInv, Keeps
  <2> QED
    BY <1>2, <2>1, <2>2, <2>3, <2>4, <2>5, KeepsLess, DataShrinks DEF LessWaiting, IInv, DataInv
<1> QED BY <1>3, <1>4 DEF DoProcess

LEMMA CheckStep ==
  ASSUME IInv, NEW t \in Threads, TransmitCheck(t)
  PROVE  DataInv'
<1> DEFINE f == cur[t]
           downs == {d \in DownNodes(ModuleOf(t)) : ShouldTransmit(TransmitMask(t), d)}
<1>1. pc[t] = "check" /\ pc[t] \in AfterMark /\ UNCHANGED <<dataq, mask, sent>>
  BY DEF TransmitCheck, AfterMark, dataVars, sourceVars
<1>2. f \in Frames /\ StreamOf(f) \in Streams
  BY <1>1, HeldFrame, FrameFacts DEF IInv, Holding
<1>3. downs \in SUBSET Inner /\ \A d \in downs : Pending(t, d)
  BY <1>1, DownFacts, ModuleFacts DEF Pending, ShouldTransmit, TransmitMask
<1>4. Release(t, "idle") \/ PushLoop(t, downs)
  BY DEF TransmitCheck
<1>5. /\ \A u \in Threads : u # t => Keeps(u)
      /\ LessPassing(t) /\ pc'[t] \in {"idle", "gate"}
  <2> HIDE DEF downs
  <2>1. CASE Release(t, "idle")
    BY <1>1, <2>1, ReleaseLess
  <2>2. CASE PushLoop(t, downs)
    BY <1>1, <1>3, <2>2, PushLoopLess DEF Keeps
  <2> QED BY <1>4, <2>1, <2>2
<1>6. \A u \in Threads : LessPassing(u) /\ LessWaiting(u)
  BY <1>1, <1>5, KeepsLess, QueueOnly DEF IInv, DataInv, BeforeMark
<1>7. \A s \in Streams : LessSending(s)
  BY <1>1, <1>5, SendingKept, WorkerFacts DEF IInv, Keeps, BeforeMark
<1>8. EosInv'
  <2>1. CASE UNCHANGED eosMsg
    BY <1>1, <1>6, <2>1, EosShrinks
  <2>2. CASE /\ IsEos(f) /\ changed[t] = Modules
             /\ eosMsg' = [eosMsg EXCEPT ![StreamOf(f)] = @ + 1]
    <3>1. f = <<StreamOf(f), LastFrame[StreamOf(f)]>>
      BY <1>2, <2>2, FrameFacts DEF IsEos, StreamOf
    <3>2. eosMsg[StreamOf(f)] = 0 /\ eosMsg'[StreamOf(f)] = 1
      <4>1. eosMsg[StreamOf(f)] \in Nat /\ eosMsg'[StreamOf(f)] = eosMsg[StreamOf(f)] + 1
        BY <1>2, <2>2 DEF IInv, TypeOK
      <4>2. ~(eosMsg[StreamOf(f)] > 0)
        BY <1>1, <1>2, <2>2, <3>1 DEF IInv, DataInv, EosInv
      <4> QED BY <4>1, <4>2
    <3>3. mask'[f] = Modules
      <4>1. changed[t] \subseteq mask[f]
        BY <1>1 DEF IInv, DataInv, PassingInv
      <4>2. mask[f] \subseteq Modules
        BY <1>2 DEF IInv, TypeOK
      <4> QED BY <1>1, <2>2, <4>1, <4>2
    <3>4. \A u \in Threads : ~(pc'[u] = "check" /\ cur'[u] = f /\ changed'[u] = Modules)
      <4> SUFFICES ASSUME NEW u \in Threads, pc'[u] = "check", cur'[u] = f, changed'[u] = Modules
                   PROVE  FALSE
        OBVIOUS
      <4>1. u # t
        BY <1>5
      <4>2. pc[u] = "check" /\ cur[u] = cur[t] /\ changed[u] = Modules
        BY <1>5, <4>1 DEF Keeps
      <4>3. ModuleOf(t) \in Modules /\ ModuleOf(u) \in Modules
        BY ModuleFacts
      <4> QED BY <1>1, <2>2, <4>1, <4>2, <4>3 DEF IInv, DataInv, ChainInv, AfterMark
    <3> SUFFICES ASSUME NEW s \in Streams, eosMsg'[s] > 0
                 PROVE  /\ eosMsg'[s] = 1
                        /\ mask'[<<s, LastFrame[s]>>] = Modules
                        /\ \A u \in Threads :
                             ~(pc'[u] = "check" /\ cur'[u] = <<s, LastFrame[s]>> /\ changed'[u] = Modules)
      BY DEF EosInv
    <3>5. CASE s = StreamOf(f)
      BY <3>1, <3>2, <3>3, <3>4, <3>5
    <3>6. CASE s # StreamOf(f)
      <4>1. eosMsg[s] = eosMsg'[s]
        BY <1>2, <2>2, <3>6 DEF IInv, TypeOK
      <4>2. /\ eosMsg[s] = 1 /\ mask[<<s, LastFrame[s]>>] = Modules
            /\ \A u \in Threads :
                 ~(pc[u] = "check" /\ cur[u] = <<s, LastFrame[s]>> /\ changed[u] = Modules)
        BY <4>1 DEF IInv, DataInv, EosInv
      <4> QED BY <1>1, <1>6, <4>1, <4>2 DEF LessPassing, AfterMark
    <3> QED BY <3>5, <3>6
  <2> QED BY <2>1, <2>2 DEF TransmitCheck, TransmitMask
<1> QED
  BY <1>1, <1>6, <1>7, <1>8, PassingShrinks, WaitingShrinks DEF DataInv

LEMMA GateStep ==
  ASSUME IInv, NEW t \in Threads, PushGate(t)
  PROVE  DataInv'
<1>1. pc[t] = "gate" /\ pc[t] \in AfterMark /\ UNCHANGED <<dataq, mask, sent, eosMsg>>
  BY DEF PushGate, AfterMark, dataVars, sourceVars
<1>2. PICK d \in Inner : \/ PushLoop(t, todo[t] \ {d})
                         \/ Goto(t, "push") /\ UNCHANGED <<cur, changed, todo>>
  BY DEF PushGate
<1>3. /\ \A u \in Threads : u # t => Keeps(u)
      /\ LessPassing(t) /\ pc'[t] \in {"idle", "gate", "push"}
  <2>1. CASE PushLoop(t, todo[t] \ {d})
    <3>1. todo[t] \ {d} \in SUBSET Inner /\ \A e \in todo[t] \ {d} : Pending(t, e)
      BY <1>1 DEF IInv, TypeOK, Pending
    <3> QED BY <1>1, <2>1, <3>1, PushLoopLess DEF Keeps
  <2>2. CASE Goto(t, "push") /\ UNCHANGED <<cur, changed, todo>>
    BY <1>1, <2>2 DEF IInv, TypeOK, Goto, Keeps, LessPassing, Pending
  <2> QED BY <1>2, <2>1, <2>2
<1>4. \A u \in Threads : LessPassing(u) /\ LessWaiting(u)
  BY <1>1, <1>3, KeepsLess, QueueOnly DEF IInv, DataInv, BeforeMark
<1>5. \A s \in Streams : LessSending(s)
  BY <1>1, <1>3, SendingKept, WorkerFacts DEF IInv, Keeps, BeforeMark
<1> QED BY <1>1, <1>4, <1>5, DataShrinks

(* The steps of Start and Stop, of RemoveSource and the end of TaskLoop.   *)
LEMMA QuietStep ==
  ASSUME IInv, UNCHANGED <<dataq, mask, cur, changed, todo, sent, eosMsg>>,
         \A t \in Threads : pc'[t] = pc[t] \/ pc'[t] \notin Holding
  PROVE  DataInv'
<1>1. \A t \in Threads : LessPassing(t)
  BY DEF LessPassing, Pending, Holding, AfterMark
<1>2. \A t \in Threads : LessWaiting(t)
  <2> TAKE t \in Threads
  <2>1. CASE pc'[t] = pc[t]
    BY <2>1, KeepsLess DEF Keeps, IInv, DataInv
  <2>2. CASE pc'[t] \notin Holding
    BY <2>2, QueueOnly DEF Holding
  <2> QED BY <2>1, <2>2
<1>3. \A s \in Streams : LessSending(s)
  BY SendingKept, WorkerFacts DEF IInv, Holding
<1> QED BY <1>1, <1>2, <1>3, DataShrinks

LEMMA EmptyStep ==
  ASSUME IInv, NEW w \in Workers, EmptyDataQueue(w)
  PROVE  DataInv'
<1>1. UNCHANGED <<mask, pc, cur, changed, todo, sent, eosMsg>>
  BY DEF EmptyDataQueue, threadVars, sourceVars
<1>2. dataq'[w] = <<>> /\ \A u \in Workers : u # w => dataq'[u] = dataq[u]
  BY DEF EmptyDataQueue, IInv, TypeOK
<1>3. \A t \in Threads : LessPassing(t)
  BY <1>1 DEF LessPassing, Pending
<1>4. \A t \in Threads : t # w => LessWaiting(t)
  BY <1>1, <1>2, KeepsLess DEF Keeps, IInv, DataInv
<1>5. LessWaiting(w)
  <2>1. Len(dataq'[w]) = 0 /\ Queued(w)' = {}
    BY <1>2 DEF Queued
  <2>2. Waiting(w)' \subseteq Waiting(w)
    BY <1>1, <2>1 DEF Waiting
  <2>3. Sorted(w)'
    BY <2>1 DEF Sorted
  <2> QED BY <2>2, <2>3 DEF LessWaiting
<1>6. \A s \in Streams : LessSending(s)
  BY <1>1, SendingKept DEF IInv
<1> QED BY <1>1, <1>3, <1>4, <1>5, <1>6, DataShrinks

(***************************************************************************)
(* Send: a new frame, that no module has passed                            *)
(***************************************************************************)

LEMMA SendStep ==
  ASSUME IInv, NEW s \in Streams, Send(s)
  PROVE  DataInv'
<1> DEFINE t == Handler(s)
           f == <<s, sent[s] + 1>>
<1> USE DEF IInv, DataInv
<1>1. /\ t \in Threads /\ t \notin Workers /\ ModuleOf(t) = Origin[s] /\ Origin[s] \in Roots
      /\ \A u \in Streams : u # s => Handler(u) # t
  BY WorkerFacts DEF Handler
<1>2. /\ pc[t] = "idle" /\ UNCHANGED <<dataq, mask, eosMsg>>
      /\ sent' = [sent EXCEPT ![s] = @ + 1]
      /\ sent[s] \in Nat /\ sent[s] < LastFrame[s]
  BY DEF Send, dataVars, TypeOK
<1>3. f \in Frames /\ StreamOf(f) = s /\ f[2] = sent[s] + 1
  <2>1. sent[s] + 1 \in 1..LastFrame[s]
    BY <1>2, PipelineAssumption
  <2> QED BY <2>1, MakeFrame DEF StreamOf
<1>4. sent'[s] = sent[s] + 1 /\ \A u \in Streams : u # s => sent'[u] = sent[u] /\ sent[u] \in Nat
  BY <1>2 DEF TypeOK
<1>5. CASE UNCHANGED threadVars
  <2>1. \A u \in Threads : LessPassing(u) /\ LessWaiting(u)
    BY <1>2, <1>5, KeepsLess DEF Keeps, threadVars
  <2>2. \A u \in Streams : LessSending(u)
    BY <1>1, <1>2, <1>4, <1>5 DEF LessSending, threadVars, BeforeMark
  <2> QED BY <1>2, <2>1, <2>2, DataShrinks
<1>6. CASE /\ pc' = [pc EXCEPT ![t] = "mark"] /\ cur' = [cur EXCEPT ![t] = f]
           /\ UNCHANGED <<changed, todo>>
  <2> HIDE DEF t, f
  <2>1. pc'[t] = "mark" /\ cur'[t] = f /\ \A u \in Threads : u # t => Keeps(u)
    BY <1>1, <1>2, <1>6 DEF TypeOK, Keeps
  <2>2. \A u \in Threads : u # t => LessPassing(u) /\ LessWaiting(u)
    BY <2>1, KeepsLess
  <2>3. LessPassing(t)
    BY <2>1 DEF LessPassing, AfterMark, Pending
  <2>4. Waiting(t)' = {f}
    BY <1>1, <2>1 DEF Waiting, BeforeMark
  <2>5. mask[f] = {} /\ \A g \in Frames : Before(f, g) => mask[g] = {}
    <3>1. f[2] > sent[StreamOf(f)]
      BY <1>2, <1>3
    <3>2. ASSUME NEW g \in Frames, Before(f, g) PROVE mask[g] = {}
      <4>1. StreamOf(g) = s /\ g[2] \in Nat /\ g[2] > sent[StreamOf(g)]
        BY <1>2, <1>3, <3>2, FrameFacts DEF Before
      <4> QED BY <4>1 DEF MaskInv
    <3> QED BY <1>3, <3>1, <3>2 DEF MaskInv
  <2>6. PlacedInv'
    <3>1. ThreadFor(Origin[s], f) = t
      BY <1>1, <1>3 DEF ThreadFor, Inner, t
    <3>2. Origin[s] \notin RouteMask(Origin[s])
      BY <1>1, OriginReachable DEF Roots
    <3> SUFFICES ASSUME NEW u \in Threads, NEW g \in Frames,
                        g \in Waiting(u)' \/ Passing(u, g)'
                 PROVE  /\ u = ThreadFor(ModuleOf(u), g)
                        /\ ModuleOf(u) \notin RouteMask(Origin[StreamOf(g)])
      BY DEF PlacedInv
    <3>3. CASE u = t
      BY <1>1, <1>3, <2>1, <2>4, <3>1, <3>2, <3>3 DEF Passing, AfterMark
    <3>4. CASE u # t
      BY <2>2, <3>4 DEF PlacedInv, Passing, LessPassing, LessWaiting
    <3> QED BY <3>3, <3>4
  <2>7. WaitingInv'
    <3> SUFFICES ASSUME NEW u \in Threads, NEW g \in Waiting(u)'
                 PROVE  /\ Parents(ModuleOf(u)) \subseteq mask[g]
                        /\ ModuleOf(u) \notin mask[g]
                        /\ \A h \in Frames : Before(g, h) => ModuleOf(u) \notin mask[h]
      BY <1>2 DEF WaitingInv
    <3>1. Parents(Origin[s]) = {}
      BY <1>1 DEF Roots, IsRootNode
    <3>2. CASE u = t
      BY <1>1, <2>4, <2>5, <3>1, <3>2
    <3>3. CASE u # t
      BY <2>2, <3>3 DEF WaitingInv, LessWaiting
    <3> QED BY <3>2, <3>3
  <2>8. PassingInv' /\ ChainInv'
    BY <1>2, <2>2, <2>3 DEF PassingInv, ChainInv, LessPassing
  <2>9. MaskInv'
    <3> SUFFICES ASSUME NEW g \in Frames
                 PROVE  /\ \A m \in mask[g] : Parents(m) \subseteq mask[g]
                        /\ g[2] > sent'[StreamOf(g)] => mask[g] = {}
      BY <1>2 DEF MaskInv
    <3>1. g[2] \in Nat /\ StreamOf(g) \in Streams
      BY FrameFacts
    <3>2. sent[StreamOf(g)] \in Nat /\ sent'[StreamOf(g)] \in Nat /\ sent'[StreamOf(g)] >= sent[StreamOf(g)]
      BY <1>2, <1>4, <3>1
    <3> QED BY <3>1, <3>2 DEF MaskInv
  <2>10. HandlerInv'
    <3> SUFFICES ASSUME NEW x \in Streams, pc'[Handler(x)] \in BeforeMark
                 PROVE  /\ cur'[Handler(x)] = <<x, sent'[x]>>
                        /\ mask[cur'[Handler(x)]] = {}
      BY <1>2 DEF HandlerInv
    <3>1. CASE x = s
      BY <1>4, <2>1, <2>5, <3>1 DEF t, f
    <3>2. CASE x # s
      BY <1>1, <1>4, <2>1, <3>2, WorkerFacts DEF HandlerInv, Keeps
    <3> QED BY <3>1, <3>2
  <2>11. SortedInv'
    BY <1>1, <2>2, WorkerFacts DEF SortedInv, LessWaiting
  <2>12. PendingInv'
    <3> SUFFICES ASSUME NEW u \in Threads, NEW d \in Inner, Pending(u, d)'
                 PROVE  /\ d \in DownNodes(ModuleOf(u))
                        /\ Parents(d) \subseteq changed'[u]
                        /\ d \notin mask[cur'[u]]
                        /\ \A w \in Workers : ModuleOf(w) = d => cur'[u] \notin Waiting(w)'
      BY <1>2 DEF PendingInv
    <3>1. u # t /\ Pending(u, d) /\ cur'[u] = cur[u] /\ changed'[u] = changed[u]
      BY <2>1, <2>2 DEF Pending, LessPassing, Keeps
    <3>2. \A w \in Workers : Waiting(w)' \subseteq Waiting(w)
      BY <1>1, <2>2, WorkerFacts DEF LessWaiting
    <3> QED BY <3>1, <3>2 DEF PendingInv
  <2>13. EosInv'
    BY <1>2, <2>2, <2>3, EosShrinks
  <2> QED BY <2>6, <2>7, <2>8, <2>9, <2>10, <2>11, <2>12, <2>13
<1> QED BY <1>5, <1>6 DEF Send, Goto

(***************************************************************************)
(* MarkPassed: the module, and for a source its route mask, is added to    *)
(* the mask of the frame                                                   *)
(***************************************************************************)

(* What a step of MarkPassed changes.                                      *)
LEMMA MarkChanges ==
  ASSUME IInv, NEW t \in Threads, MarkPassed(t)
  PROVE  /\ cur[t] \in Frames /\ cur[t] \in Waiting(t)
         /\ pc[t] = "mark" /\ pc'[t] = "check"
         /\ cur'[t] = cur[t] /\ changed'[t] = mask'[cur[t]]
         /\ \A g \in Frames : g # cur[t] => mask'[g] = mask[g]
         /\ mask[cur[t]] \subseteq mask'[cur[t]] /\ mask'[cur[t]] \subseteq Modules
         /\ ModuleOf(t) \in mask'[cur[t]] /\ ModuleOf(t) \notin mask[cur[t]]
         /\ \A x \in mask'[cur[t]] :
              \/ x \in mask[cur[t]]
              \/ x = ModuleOf(t)
              \/ x \in RouteMask(Origin[StreamOf(cur[t])])
         /\ \A x \in mask'[cur[t]] : Parents(x) \subseteq mask'[cur[t]]
         /\ cur[t][2] <= sent[StreamOf(cur[t])]
         /\ t \in Workers => mask[cur[t]] # {}
<1> DEFINE f == cur[t]
           m == ModuleOf(t)
           base == IF IsRootNode(m) THEN route_masks[m] ELSE mask[f]
<1> USE DEF IInv, DataInv
<1>1. pc[t] = "mark" /\ pc'[t] = "check" /\ cur' = cur
  BY DEF MarkPassed, TypeOK, Goto
<1>2. f \in Frames /\ f \in Waiting(t) /\ m \in Modules
  BY <1>1, HeldFrame, ModuleFacts DEF Holding, BeforeMark, Waiting
<1>3. Parents(m) \subseteq mask[f] /\ m \notin mask[f]
  BY <1>2 DEF WaitingInv
<1>4. mask[f] \subseteq Modules /\ f[2] \in Nat /\ StreamOf(f) \in Streams
      /\ sent[StreamOf(f)] \in Nat
  BY <1>2, FrameFacts DEF TypeOK
<1>5. mask' = [mask EXCEPT ![f] = base \cup {m}] /\ changed' = [changed EXCEPT ![t] = base \cup {m}]
  BY DEF MarkPassed
<1>6. mask'[f] = base \cup {m} /\ changed'[t] = base \cup {m}
      /\ \A g \in Frames : g # f => mask'[g] = mask[g]
  <2> HIDE DEF base, m, f
  <2> QED BY <1>2, <1>5 DEF TypeOK
<1>7. CASE t \in Workers
  <2>1. m \in Inner /\ Parents(m) # {}
    BY <1>7, WorkerFacts DEF Inner, Roots, IsRootNode
  <2>2. base = mask[f] /\ mask[f] # {}
    BY <1>3, <2>1 DEF IsRootNode
  <2>3. f[2] <= sent[StreamOf(f)]
    BY <1>2, <1>4, <2>2 DEF MaskInv
  <2>4. \A x \in base : Parents(x) \subseteq base
    BY <1>2, <2>2 DEF MaskInv
  <2> HIDE DEF base
  <2> QED BY <1>1, <1>2, <1>3, <1>4, <1>6, <2>2, <2>3, <2>4
<1>8. CASE t \notin Workers
  <2>1. PICK s \in Streams : t = Handler(s)
    BY <1>8, WorkerFacts
  <2>2. f = <<s, sent[s]>> /\ mask[f] = {}
    BY <1>1, <2>1 DEF HandlerInv, BeforeMark
  <2>3. StreamOf(f) = s /\ f[2] = sent[s]
    BY <2>2 DEF StreamOf
  <2>4. m = Origin[s] /\ m \in Roots /\ Parents(m) = {}
    BY <2>1, WorkerFacts DEF Roots, IsRootNode
  <2>5. base = RouteMask(Origin[StreamOf(f)])
    BY <2>3, <2>4 DEF IsRootNode, route_masks
  <2>6. base \subseteq Modules
    BY <2>5 DEF RouteMask
  <2>7. \A x \in base : Parents(x) \subseteq base
    BY <1>2, <2>3, <2>4, <2>5, RouteMaskClosed
  <2> HIDE DEF base
  <2> QED BY <1>1, <1>2, <1>3, <1>4, <1>6, <1>8, <2>2, <2>3, <2>4, <2>5, <2>6, <2>7
<1> QED BY <1>7, <1>8

(* Another thread that has to do with a frame of the same stream does not  *)
(* find its own module among those the mask has gained.                    *)
LEMMA MarkSpares ==
  ASSUME IInv, NEW t \in Threads, MarkPassed(t),
         NEW u \in Threads, u # t, NEW g \in Frames, g \in Waiting(u) \/ Passing(u, g),
         NEW h \in Frames, StreamOf(h) = StreamOf(g), ModuleOf(u) \in mask'[h]
  PROVE  ModuleOf(u) \in mask[h]
<1> SUFFICES ASSUME ModuleOf(u) \notin mask[h] PROVE FALSE
  OBVIOUS
<1>1. h = cur[t] /\ h \in Frames /\ h \in Waiting(t)
  BY MarkChanges
<1>2. ModuleOf(u) = ModuleOf(t) \/ ModuleOf(u) \in RouteMask(Origin[StreamOf(g)])
  BY <1>1, MarkChanges
<1>3. /\ u = ThreadFor(ModuleOf(u), g) /\ t = ThreadFor(ModuleOf(t), h)
      /\ ModuleOf(u) \notin RouteMask(Origin[StreamOf(g)])
  BY <1>1 DEF IInv, DataInv, PlacedInv
<1>4. u = t
  BY <1>2, <1>3, SameThread, ModuleFacts
<1> QED BY <1>4

LEMMA MarkStep ==
  ASSUME IInv, NEW t \in Threads, MarkPassed(t)
  PROVE  DataInv'
<1> DEFINE f == cur[t]
           m == ModuleOf(t)
<1> USE DEF IInv, DataInv
<1>1. /\ f \in Frames /\ f \in Waiting(t)
      /\ pc[t] = "mark" /\ pc'[t] = "check" /\ cur'[t] = f /\ changed'[t] = mask'[f]
      /\ \A g \in Frames : g # f => mask'[g] = mask[g]
      /\ mask[f] \subseteq mask'[f] /\ m \in mask'[f] /\ m \notin mask[f]
  BY MarkChanges
<1>2. /\ UNCHANGED <<dataq, todo, sent, eosMsg>>
      /\ \A u \in Threads : u # t => Keeps(u)
  BY DEF MarkPassed, Goto, TypeOK, Keeps, sourceVars
<1>3. \A u \in Threads : u # t => LessPassing(u) /\ LessWaiting(u) /\ Waiting(u)' = Waiting(u)
  BY <1>2, KeepsLess
<1>4. /\ t \in Workers => Waiting(t)' = Queued(t)
      /\ t \notin Workers => Waiting(t)' = {}
      /\ LessWaiting(t)
  <2>1. LessWaiting(t)
    BY <1>1, <1>2, QueueOnly DEF BeforeMark
  <2> QED BY <1>1, <1>2, <2>1 DEF Waiting, BeforeMark, Queued
<1>5. \A g \in Waiting(t)' : StreamOf(g) = StreamOf(f) => Before(f, g)
  BY <1>1, <1>4 DEF SortedInv, Sorted, BeforeMark
<1>6. \A g \in Frames : ~Before(g, g)
  BY FrameFacts DEF Before
<1>7. \A g, h \in Frames : Before(g, h) => g # h /\ ~Before(h, g) /\ StreamOf(g) = StreamOf(h)
  BY FrameFacts DEF Before
<1>8. PlacedInv'
  <2> SUFFICES ASSUME NEW u \in Threads, NEW g \in Frames, g \in Waiting(u)' \/ Passing(u, g)'
               PROVE  /\ u = ThreadFor(ModuleOf(u), g)
                      /\ ModuleOf(u) \notin RouteMask(Origin[StreamOf(g)])
    BY DEF PlacedInv
  <2>1. g \in Waiting(u) \/ Passing(u, g)
    BY <1>1, <1>3, <1>4 DEF Passing, LessPassing, LessWaiting
  <2> QED BY <2>1 DEF PlacedInv
<1>9. WaitingInv'
  <2> SUFFICES ASSUME NEW u \in Threads, NEW g \in Waiting(u)'
               PROVE  /\ Parents(ModuleOf(u)) \subseteq mask'[g]
                      /\ ModuleOf(u) \notin mask'[g]
                      /\ \A h \in Frames : Before(g, h) => ModuleOf(u) \notin mask'[h]
    BY DEF WaitingInv
  <2>1. g \in Waiting(u) /\ g \in Frames
    BY <1>3, <1>4, WaitingFrame DEF LessWaiting
  <2>2. /\ Parents(ModuleOf(u)) \subseteq mask[g] /\ ModuleOf(u) \notin mask[g]
        /\ \A h \in Frames : Before(g, h) => ModuleOf(u) \notin mask[h]
    BY <2>1 DEF WaitingInv
  <2>3. mask[g] \subseteq mask'[g]
    BY <1>1, <2>1
  <2>4. CASE u # t
    BY <2>1, <2>2, <2>3, <2>4, <1>7, MarkSpares
  <2>5. CASE u = t
    <3>1. g # f /\ ~Before(g, f)
      BY <1>1, <1>5, <1>6, <1>7, <2>1, <2>5 DEF Before
    <3> QED BY <1>1, <2>1, <2>2, <2>3, <2>5, <3>1
  <2> QED BY <2>4, <2>5
<1>10. PassingInv'
  <2> SUFFICES ASSUME NEW u \in Threads, pc'[u] \in AfterMark
               PROVE  /\ ModuleOf(u) \in changed'[u]
                      /\ changed'[u] \subseteq mask'[cur'[u]]
                      /\ \A g \in Frames : Before(cur'[u], g) => ModuleOf(u) \notin mask'[g]
    BY DEF PassingInv
  <2>1. CASE u = t
    <3>1. \A g \in Frames : Before(f, g) => m \notin mask[g]
      BY <1>1 DEF WaitingInv
    <3> QED BY <1>1, <1>6, <2>1, <3>1
  <2>2. CASE u # t
    <3>1. /\ pc[u] \in AfterMark /\ cur'[u] = cur[u] /\ changed'[u] = changed[u]
          /\ Passing(u, cur[u]) /\ cur[u] \in Frames
      BY <1>3, <2>2, HeldFrame DEF LessPassing, Passing, Holding
    <3>2. /\ ModuleOf(u) \in changed[u] /\ changed[u] \subseteq mask[cur[u]]
          /\ \A g \in Frames : Before(cur[u], g) => ModuleOf(u) \notin mask[g]
      BY <3>1 DEF PassingInv
    <3>3. mask[cur[u]] \subseteq mask'[cur[u]]
      BY <1>1, <3>1
    <3> QED BY <1>7, <2>2, <3>1, <3>2, <3>3, MarkSpares
  <2> QED BY <2>1, <2>2
<1>11. MaskInv'
  <2> SUFFICES ASSUME NEW g \in Frames
               PROVE  /\ \A x \in mask'[g] : Parents(x) \subseteq mask'[g]
                      /\ g[2] > sent[StreamOf(g)] => mask'[g] = {}
    BY <1>2 DEF MaskInv
  <2>1. CASE g = f
    <3>1. f[2] <= sent[StreamOf(f)] /\ f[2] \in Nat /\ sent[StreamOf(f)] \in Nat
      BY <1>1, MarkChanges, FrameFacts DEF TypeOK
    <3>2. \A x \in mask'[g] : Parents(x) \subseteq mask'[g]
      BY <2>1, MarkChanges
    <3> QED BY <2>1, <3>1, <3>2
  <2>2. CASE g # f
    BY <1>1, <2>2 DEF MaskInv
  <2> QED BY <2>1, <2>2
<1>12. HandlerInv'
  <2> SUFFICES ASSUME NEW s \in Streams, pc'[Handler(s)] \in BeforeMark
               PROVE  /\ cur'[Handler(s)] = <<s, sent[s]>>
                      /\ mask'[cur'[Handler(s)]] = {}
    BY <1>2 DEF HandlerInv
  <2> DEFINE u == Handler(s)
  <2>1. u # t /\ u \in Threads /\ u \notin Workers
    BY <1>1, WorkerFacts DEF BeforeMark
  <2>2. /\ pc[u] \in BeforeMark /\ cur'[u] = cur[u]
        /\ cur[u] = <<s, sent[s]>> /\ mask[cur[u]] = {} /\ cur[u] \in Frames
    BY <1>2, <2>1, HeldFrame DEF HandlerInv, Keeps, Holding
  <2>3. cur[u] # f
    <3>1. SUFFICES ASSUME cur[u] = f PROVE FALSE
      OBVIOUS
    <3>2. t \notin Workers
      BY <2>2, <3>1, MarkChanges
    <3>3. PICK r \in Streams : t = Handler(r)
      BY <3>2, WorkerFacts
    <3>4. f = <<r, sent[r]>>
      BY <1>1, <3>3 DEF HandlerInv, BeforeMark
    <3>5. r = s
      BY <2>2, <3>1, <3>4
    <3> QED BY <2>1, <3>3, <3>5
  <2> QED BY <1>1, <2>2, <2>3
<1>13. SortedInv'
  BY <1>3, <1>4, WorkerFacts DEF SortedInv, LessWaiting
<1>14. ChainInv'
  <2> SUFFICES ASSUME NEW u \in Threads, u # t, pc'[u] \in AfterMark, cur'[u] = f
               PROVE  m \notin changed'[u]
    <3>1. ASSUME NEW v \in Threads, NEW w \in Threads, v # t, w # t, v # w,
                 pc'[v] \in AfterMark, pc'[w] \in AfterMark, cur'[v] = cur'[w]
          PROVE  ModuleOf(v) \notin changed'[w] \/ ModuleOf(w) \notin changed'[v]
      BY <1>3, <3>1 DEF ChainInv, LessPassing
    <3> QED BY <1>1, <3>1 DEF ChainInv
  <2>1. pc[u] \in AfterMark /\ cur[u] = f /\ changed'[u] = changed[u]
    BY <1>3 DEF LessPassing
  <2> QED BY <1>1, <2>1 DEF PassingInv
<1>15. PendingInv'
  <2> SUFFICES ASSUME NEW u \in Threads, NEW d \in Inner, Pending(u, d)'
               PROVE  /\ d \in DownNodes(ModuleOf(u))
                      /\ Parents(d) \subseteq changed'[u]
                      /\ d \notin mask'[cur'[u]]
                      /\ \A w \in Workers : ModuleOf(w) = d => cur'[u] \notin Waiting(w)'
    BY DEF PendingInv
  <2>1. \A w \in Threads : Waiting(w)' \subseteq Waiting(w)
    BY <1>3, <1>4 DEF LessWaiting
  <2>2. ModuleOf(u) \in Modules
    BY ModuleFacts
  <2>3. CASE u = t
    <3>1. d \in DownNodes(m) /\ Parents(d) \subseteq mask'[f] /\ m \in Parents(d)
      <4>1. d \in DownNodes(m) /\ Parents(d) \subseteq mask'[f]
        BY <1>1, <2>3 DEF Pending
      <4> QED BY <2>2, <2>3, <4>1, DownFacts
    <3>2. d \notin mask[f]
      BY <1>1, <3>1 DEF MaskInv
    <3>3. d # m
      BY <1>1, <3>1 DEF WaitingInv
    <3>4. d \notin RouteMask(Origin[StreamOf(f)])
      <4>1. Origin[StreamOf(f)] \in Modules /\ m \notin RouteMask(Origin[StreamOf(f)])
        BY <1>1, FrameFacts, WorkerFacts DEF PlacedInv, Roots
      <4> QED BY <3>1, <4>1, RouteMaskClosed
    <3>5. d \notin mask'[f]
      BY <3>2, <3>3, <3>4, MarkChanges
    <3>6. \A w \in Workers : ModuleOf(w) = d => f \notin Waiting(w)
      BY <1>1, <3>1, WorkerFacts DEF WaitingInv
    <3> QED BY <1>1, <2>1, <2>3, <3>1, <3>5, <3>6, WorkerFacts
  <2>4. CASE u # t
    <3>1. Pending(u, d) /\ pc[u] \in AfterMark
      BY <1>3, <2>4, PendingPasses DEF LessPassing
    <3>2. /\ cur'[u] = cur[u] /\ changed'[u] = changed[u] /\ cur[u] \in Frames
          /\ Passing(u, cur[u])
      BY <1>2, <2>4, <3>1, HeldFrame DEF Keeps, Holding, Passing
    <3>3. /\ d \in DownNodes(ModuleOf(u)) /\ Parents(d) \subseteq changed[u]
          /\ d \notin mask[cur[u]]
          /\ \A w \in Workers : ModuleOf(w) = d => cur[u] \notin Waiting(w)
      BY <3>1 DEF PendingInv
    <3>4. d \notin mask'[cur[u]]
      <4> SUFFICES ASSUME d \in mask'[cur[u]] PROVE FALSE
        OBVIOUS
      <4>1. cur[u] = f
        BY <1>1, <3>2, <3>3
      <4>2. d = m \/ d \in RouteMask(Origin[StreamOf(f)])
        BY <3>3, <4>1, MarkChanges
      <4>3. d # m
        BY <1>1, <3>3, <4>1, InnerThread
      <4>4. ModuleOf(u) \in RouteMask(Origin[StreamOf(f)])
        <5>1. Origin[StreamOf(f)] \in Modules
          BY <1>1, FrameFacts, WorkerFacts DEF Roots
        <5>2. ModuleOf(u) \in Parents(d)
          BY <2>2, <3>3, DownFacts
        <5> QED BY <4>2, <4>3, <5>1, <5>2, RouteMaskClosed
      <4> QED BY <1>1, <3>2, <4>1, <4>4 DEF PlacedInv
    <3> QED BY <2>1, <3>2, <3>3, <3>4, WorkerFacts
  <2> QED BY <2>3, <2>4
<1>16. EosInv'
  <2> SUFFICES ASSUME NEW s \in Streams, eosMsg[s] > 0
               PROVE  /\ eosMsg[s] = 1
                      /\ mask'[<<s, LastFrame[s]>>] = Modules
                      /\ \A u \in Threads :
                           ~(pc'[u] = "check" /\ cur'[u] = <<s, LastFrame[s]>> /\ changed'[u] = Modules)
    BY <1>2 DEF EosInv
  <2>1. /\ eosMsg[s] = 1 /\ mask[<<s, LastFrame[s]>>] = Modules
        /\ \A u \in Threads :
             ~(pc[u] = "check" /\ cur[u] = <<s, LastFrame[s]>> /\ changed[u] = Modules)
    BY DEF EosInv
  <2>2. <<s, LastFrame[s]>> \in Frames /\ <<s, LastFrame[s]>> # f
    BY <1>1, <2>1, ModuleFacts, LastIsFrame
  <2> QED BY <1>1, <1>2, <2>1, <2>2 DEF Keeps
<1> QED
  BY <1>8, <1>9, <1>10, <1>11, <1>12, <1>13, <1>14, <1>15, <1>16

(***************************************************************************)
(* PushDataBuffer: the frame waits for the module it is pushed to          *)
(***************************************************************************)

(* A push that found no room, or the end of one: nothing new to transmit.  *)
LEMMA FullStep ==
  ASSUME IInv, NEW t \in Threads, pc[t] = "push", Goto(t, "gate"),
         UNCHANGED <<dataq, mask, cur, changed, todo, sent, eosMsg>>
  PROVE  DataInv'
<1>1. pc'[t] = "gate" /\ \A u \in Threads : u # t => Keeps(u)
  BY DEF IInv, TypeOK, Goto, Keeps
<1>2. LessPassing(t) /\ LessWaiting(t)
  BY <1>1, QueueOnly DEF LessPassing, Pending, AfterMark, BeforeMark
<1>3. \A u \in Threads : LessPassing(u) /\ LessWaiting(u)
  BY <1>1, <1>2, KeepsLess DEF IInv, DataInv
<1>4. \A s \in Streams : LessSending(s)
  BY <1>1, SendingKept, WorkerFacts DEF IInv, Keeps, BeforeMark
<1> QED BY <1>3, <1>4, DataShrinks

(* No frame that comes later in the stream, nor the frame itself, has got  *)
(* to the module it is pushed to.                                          *)
LEMMA PushComesNext ==
  ASSUME IInv, NEW t \in Threads, NEW d \in Inner, Pending(t, d), NEW f \in Frames, cur[t] = f
  PROVE  /\ t # ConveyorFor(d, f)
         /\ d \notin RouteMask(Origin[StreamOf(f)])
         /\ Parents(d) \subseteq mask[f] /\ d \notin mask[f]
         /\ \A g \in Frames : Before(f, g) => d \notin mask[g]
         /\ \A g \in Waiting(ConveyorFor(d, f)) : StreamOf(g) = StreamOf(f) => Before(g, f)
<1> DEFINE c == ConveyorFor(d, f)
           m == ModuleOf(t)
<1> USE DEF IInv, DataInv
<1>1. pc[t] \in AfterMark /\ Passing(t, f)
  BY PendingPasses DEF Passing
<1>2. c \in Workers /\ c \in Threads /\ ModuleOf(c) = d
  BY ConveyorFacts, WorkerFacts
<1>3. /\ m \in changed[t] /\ changed[t] \subseteq mask[f]
      /\ \A g \in Frames : Before(f, g) => m \notin mask[g]
  BY <1>1 DEF PassingInv
<1>4. m \in Modules /\ m \in Parents(d) /\ Parents(d) \subseteq changed[t] /\ d \notin mask[f]
      /\ f \notin Waiting(c)
  BY <1>2, ModuleFacts, DownFacts DEF PendingInv
<1>5. t # c
  BY <1>2, <1>3, <1>4
<1>6. d \notin RouteMask(Origin[StreamOf(f)])
  <2>1. Origin[StreamOf(f)] \in Modules /\ m \notin RouteMask(Origin[StreamOf(f)])
    BY <1>1, FrameFacts, WorkerFacts DEF PlacedInv, Roots
  <2> QED BY <1>4, <2>1, RouteMaskClosed
<1>7. ASSUME NEW g \in Frames, Before(f, g) PROVE m \notin mask[g] /\ d \notin mask[g]
  BY <1>3, <1>4, <1>7 DEF MaskInv
<1>8. ASSUME NEW g \in Waiting(c), StreamOf(g) = StreamOf(f) PROVE Before(g, f)
  <2>1. g \in Frames /\ m \in mask[g]
    BY <1>2, <1>4, WaitingFrame DEF WaitingInv
  <2>2. g # f /\ ~Before(f, g)
    BY <1>4, <1>7, <2>1
  <2>3. g[2] # f[2]
    BY <1>8, <2>1, <2>2, FrameFacts DEF StreamOf
  <2> QED BY <1>8, <2>1, <2>2, <2>3, FrameFacts DEF Before
<1> QED BY <1>3, <1>4, <1>5, <1>6, <1>7, <1>8

LEMMA PushStep ==
  ASSUME IInv, NEW t \in Threads, PushDataBuffer(t)
  PROVE  DataInv'
<1> USE DEF IInv, DataInv
<1>1. pc[t] = "push" /\ UNCHANGED <<mask, sent, eosMsg>>
  BY DEF PushDataBuffer, sourceVars
<1>2. PICK f \in Frames : f = cur[t]
  BY <1>1, HeldFrame DEF Holding, AfterMark
<1>3. PICK d \in Inner, c \in Workers :
        /\ c = ConveyorFor(d, f)
        /\ NextDown(t, d)
        /\ IF HasRoom(c)
             THEN /\ dataq' = [dataq EXCEPT ![c] = Append(@, f)]
                  /\ PushLoop(t, todo[t] \ {d})
             ELSE /\ Goto(t, "gate")
                  /\ UNCHANGED <<dataq, cur, changed, todo>>
  BY <1>2, ConveyorFacts DEF PushDataBuffer
<1>4. CASE ~HasRoom(c)
  BY <1>1, <1>3, <1>4, FullStep
<1>5. CASE HasRoom(c)
  <2>1. dataq' = [dataq EXCEPT ![c] = Append(@, f)] /\ PushLoop(t, todo[t] \ {d})
    BY <1>3, <1>5
  <2>2. c \in Workers /\ c \in Threads /\ ModuleOf(c) = d
    BY <1>3, ConveyorFacts, WorkerFacts
  <2>3. Pending(t, d) /\ d \in todo[t]
    BY <1>1, <1>3 DEF Pending, NextDown
  <2>4. /\ t # c /\ d \notin RouteMask(Origin[StreamOf(f)])
        /\ Parents(d) \subseteq mask[f] /\ d \notin mask[f]
        /\ \A g \in Frames : Before(f, g) => d \notin mask[g]
        /\ \A g \in Waiting(c) : StreamOf(g) = StreamOf(f) => Before(g, f)
    BY <1>2, <1>3, <2>3, PushComesNext
  <2>5. /\ LessPassing(t) /\ pc'[t] \in {"idle", "gate"}
        /\ \A u \in Threads : u # t => /\ pc'[u] = pc[u] /\ cur'[u] = cur[u]
                                       /\ changed'[u] = changed[u] /\ todo'[u] = todo[u]
    <3>1. todo[t] \ {d} \in SUBSET Inner /\ \A e \in todo[t] \ {d} : Pending(t, e)
      BY <1>1 DEF TypeOK, Pending
    <3> QED BY <1>1, <2>1, <3>1, PushLoopLess DEF AfterMark
  <2>6. /\ dataq[c] \in Seq(Frames) /\ dataq'[c] = Append(dataq[c], f)
        /\ \A w \in Workers : w # c => dataq'[w] = dataq[w]
    BY <2>1, <2>2 DEF TypeOK
  <2>7. /\ Len(dataq[c]) \in Nat /\ Len(dataq'[c]) = Len(dataq[c]) + 1
        /\ dataq'[c][Len(dataq[c]) + 1] = f
        /\ \A i \in 1..Len(dataq[c]) : dataq'[c][i] = dataq[c][i]
    BY <1>2, <2>6
  <2>8. Queued(c)' = Queued(c) \cup {f}
    BY <2>7 DEF Queued
  <2>9. Waiting(c)' = Waiting(c) \cup {f}
    BY <2>2, <2>4, <2>5, <2>8 DEF Waiting
  <2>10. \A u \in Threads : u # c => LessWaiting(u)
    <3> TAKE u \in Threads
    <3>1. CASE u = t
      BY <2>4, <2>5, <2>6, <3>1, QueueOnly DEF BeforeMark
    <3>2. CASE u # t /\ u # c
      BY <2>5, <2>6, <3>2, KeepsLess DEF Keeps
    <3> QED BY <3>1, <3>2
  <2>11. \A u \in Threads : LessPassing(u)
    <3> TAKE u \in Threads
    <3>1. CASE u # t
      BY <2>5, <3>1 DEF LessPassing, Pending
    <3> QED BY <2>5, <3>1
  <2>12. \A s \in Streams : LessSending(s)
    <3>1. \A s \in Streams : pc'[Handler(s)] \in BeforeMark =>
                               pc[Handler(s)] \in BeforeMark /\ cur'[Handler(s)] = cur[Handler(s)]
      BY <2>5, WorkerFacts DEF BeforeMark
    <3> QED BY <1>1, <3>1, SendingKept
  <2>13. PassingInv' /\ MaskInv' /\ HandlerInv' /\ ChainInv'
    BY <1>1, <2>11, <2>12, PassingShrinks
  <2>14. EosInv'
    BY <1>1, <2>11, EosShrinks
  <2>15. PlacedInv'
    <3> SUFFICES ASSUME NEW u \in Threads, NEW g \in Frames, g \in Waiting(u)' \/ Passing(u, g)'
                 PROVE  /\ u = ThreadFor(ModuleOf(u), g)
                        /\ ModuleOf(u) \notin RouteMask(Origin[StreamOf(g)])
      BY DEF PlacedInv
    <3>1. CASE g \in Waiting(u) \/ Passing(u, g)
      BY <3>1 DEF PlacedInv
    <3>2. CASE u = c /\ g = f
      BY <1>3, <2>2, <2>4, <3>2 DEF ThreadFor
    <3> QED
      BY <2>9, <2>10, <2>11, <3>1, <3>2 DEF LessWaiting, LessPassing, Passing
  <2>16. WaitingInv'
    BY <1>1, <2>2, <2>4, <2>9, <2>10 DEF WaitingInv, LessWaiting
  <2>17. Sorted(c)'
    <3>1. Sorted(c) /\ \A i \in 1..Len(dataq[c]) : dataq[c][i] \in Waiting(c)
      BY <2>2 DEF SortedInv, Waiting, Queued
    <3>2. \A i, j \in 1..Len(dataq'[c]) :
            i < j /\ StreamOf(dataq'[c][i]) = StreamOf(dataq'[c][j]) => dataq'[c][i][2] < dataq'[c][j][2]
      <4> SUFFICES ASSUME NEW i \in 1..Len(dataq'[c]), NEW j \in 1..Len(dataq'[c]), i < j,
                          StreamOf(dataq'[c][i]) = StreamOf(dataq'[c][j])
                   PROVE  dataq'[c][i][2] < dataq'[c][j][2]
        OBVIOUS
      <4>1. CASE j = Len(dataq[c]) + 1
        <5>1. i \in 1..Len(dataq[c])
          BY <2>7, <4>1
        <5>2. dataq'[c][i] = dataq[c][i] /\ dataq'[c][j] = f
          BY <2>7, <4>1, <5>1
        <5> QED BY <2>4, <3>1, <5>1, <5>2 DEF Before
      <4>2. CASE j # Len(dataq[c]) + 1
        <5>1. i \in 1..Len(dataq[c]) /\ j \in 1..Len(dataq[c])
          BY <2>7, <4>2
        <5> QED BY <2>7, <3>1, <5>1 DEF Sorted
      <4> QED BY <4>1, <4>2
    <3>3. pc'[c] \in BeforeMark =>
            \A g \in Queued(c)' : StreamOf(g) = StreamOf(cur'[c]) => Before(cur'[c], g)
      <4> SUFFICES ASSUME pc[c] \in BeforeMark, NEW g \in Queued(c) \cup {f},
                          StreamOf(g) = StreamOf(cur[c])
                   PROVE  Before(cur[c], g)
        BY <2>2, <2>4, <2>5, <2>8
      <4>1. cur[c] \in Waiting(c)
        BY DEF Waiting
      <4> QED BY <2>4, <3>1, <4>1 DEF Sorted
    <3> QED BY <3>2, <3>3 DEF Sorted
  <2>18. SortedInv'
    BY <2>10, <2>17, WorkerFacts DEF SortedInv, LessWaiting
  <2>19. PendingInv'
    <3> SUFFICES ASSUME NEW u \in Threads, NEW e \in Inner, Pending(u, e)'
                 PROVE  /\ e \in DownNodes(ModuleOf(u))
                        /\ Parents(e) \subseteq changed'[u]
                        /\ e \notin mask[cur'[u]]
                        /\ \A w \in Workers : ModuleOf(w) = e => cur'[u] \notin Waiting(w)'
      BY <1>1 DEF PendingInv
    <3>1. Pending(u, e) /\ pc[u] \in AfterMark /\ cur'[u] = cur[u] /\ changed'[u] = changed[u]
      <4>1. pc'[u] \in AfterMark
        BY DEF Pending, AfterMark
      <4> QED BY <2>11, <4>1 DEF LessPassing
    <3>2. /\ e \in DownNodes(ModuleOf(u)) /\ Parents(e) \subseteq changed[u]
          /\ e \notin mask[cur[u]]
          /\ \A w \in Workers : ModuleOf(w) = e => cur[u] \notin Waiting(w)
      BY <3>1 DEF PendingInv
    <3>3. ~(e = d /\ cur[u] = f)
      <4> SUFFICES ASSUME e = d, cur[u] = f PROVE FALSE
        OBVIOUS
      <4>1. CASE u = t
        <5>1. d \notin todo'[t] /\ pc'[t] # "check"
          BY <2>1, <2>5 DEF PushLoop, Release, TypeOK, Goto
        <5> QED BY <4>1, <5>1 DEF Pending
      <4>2. CASE u # t
        <5>1. Parents(d) \subseteq changed[t] /\ Parents(d) \subseteq changed[u]
          BY <2>3, <3>2 DEF PendingInv
        <5>2. ModuleOf(t) \in Parents(d) /\ ModuleOf(u) \in Parents(d)
          BY <2>3, <3>2, ModuleFacts, DownFacts DEF PendingInv
        <5>3. cur[t] = cur[u] /\ pc[t] \in AfterMark
          BY <1>1, <1>2 DEF AfterMark
        <5> QED BY <3>1, <4>2, <5>1, <5>2, <5>3 DEF ChainInv
      <4> QED BY <4>1, <4>2
    <3>4. \A w \in Workers : ModuleOf(w) = e => cur[u] \notin Waiting(w)'
      BY <2>2, <2>9, <2>10, <3>2, <3>3, WorkerFacts DEF LessWaiting
    <3> QED BY <3>1, <3>2, <3>4
  <2> QED BY <2>13, <2>14, <2>15, <2>16, <2>18, <2>19
<1> QED BY <1>4, <1>5

(***************************************************************************)
(* The inductive invariant                                                 *)
(***************************************************************************)

LEMMA DataInit == Init => IInv
<1> SUFFICES ASSUME Init PROVE IInv
  OBVIOUS
<1>1. TypeOK /\ CtlInv
  BY TypeInit DEF TypeInv
<1>2. \A t \in Threads : pc[t] \in {"off", "idle"}
  BY DEF Init
<1>3. \A t \in Threads : Waiting(t) = {}
  <2> TAKE t \in Threads
  <2>1. t \in Workers => Queued(t) = {}
    <3>1. t \in Workers => dataq[t] = <<>> /\ Len(dataq[t]) = 0
      BY DEF Init
    <3> QED BY <3>1 DEF Queued
  <2> QED BY <1>2, <2>1 DEF Waiting, BeforeMark
<1>4. PlacedInv /\ WaitingInv /\ PassingInv /\ ChainInv
  BY <1>2, <1>3 DEF PlacedInv, WaitingInv, PassingInv, ChainInv, Passing, AfterMark
<1>5. HandlerInv
  BY <1>2, WorkerFacts DEF HandlerInv, BeforeMark
<1>6. MaskInv
  BY DEF MaskInv, Init
<1>7. SortedInv
  <2> SUFFICES ASSUME NEW w \in Workers PROVE Sorted(w)
    BY DEF SortedInv
  <2>1. Len(dataq[w]) = 0 /\ pc[w] \notin BeforeMark
    BY <1>2, WorkerFacts DEF Init, BeforeMark
  <2> QED BY <2>1 DEF Sorted
<1>8. PendingInv
  BY <1>2 DEF PendingInv, Pending
<1>9. EosInv
  BY DEF EosInv, Init
<1> QED BY <1>1, <1>4, <1>5, <1>6, <1>7, <1>8, <1>9 DEF IInv, DataInv

LEMMA DataStep == IInv /\ [Next]_vars => IInv'
<1> SUFFICES ASSUME IInv, [Next]_vars PROVE IInv'
  OBVIOUS
<1>1. TypeOK' /\ CtlInv'
  BY TypeStep DEF TypeInv, IInv
<1>2. ASSUME NEW s \in Streams, Send(s) PROVE DataInv'
  BY <1>2, SendStep
<1>3. ASSUME NEW s \in Streams, SetStreamRemoved(s) PROVE DataInv'
  BY <1>3, QuietStep DEF SetStreamRemoved, dataVars, threadVars
<1>4. ASSUME NEW t \in Workers, TaskLoopExit(t) PROVE DataInv'
  <2>1. \A u \in Threads : pc'[u] = pc[u] \/ pc'[u] \notin Holding
    BY <1>4 DEF TaskLoopExit, Goto, IInv, TypeOK, Holding, BeforeMark, AfterMark
  <2> QED BY <1>4, <2>1, QuietStep DEF TaskLoopExit, dataVars, sourceVars
<1>5. ASSUME NEW t \in Workers, PopDataBuffer(t) \/ DoProcess(t) PROVE DataInv'
  BY <1>5, PopStep, ProcessStep
<1>6. ASSUME NEW t \in Threads, TransmitData(t) PROVE DataInv'
  BY <1>6, MarkStep, CheckStep, GateStep, PushStep DEF TransmitData
<1>7. ASSUME StartOpen \/ StopBegin \/ ConnectorsStarted \/ Started \/ ConnectorsStopped
             \/ CloseModules
      PROVE  DataInv'
  BY <1>7, QuietStep
     DEF StartOpen, StopBegin, ConnectorsStarted, Started, ConnectorsStopped, CloseModules,
         dataVars, threadVars, sourceVars
<1>8. ASSUME NEW m \in Inner, StartConnector(m) \/ StopConnector(m) PROVE DataInv'
  BY <1>8, QuietStep DEF StartConnector, StopConnector, threadVars, sourceVars
<1>9. ASSUME NEW m \in Inner, SpawnThreads(m) PROVE DataInv'
  <2>1. \A u \in Threads : pc'[u] = pc[u] \/ pc'[u] \notin Holding
    BY <1>9 DEF SpawnThreads, Holding, BeforeMark, AfterMark
  <2> QED BY <1>9, <2>1, QuietStep DEF SpawnThreads, dataVars, sourceVars
<1>10. ASSUME JoinThreads PROVE DataInv'
  <2>1. \A u \in Threads : pc'[u] = pc[u] \/ pc'[u] \notin Holding
    BY <1>10 DEF JoinThreads, Holding, BeforeMark, AfterMark
  <2> QED BY <1>10, <2>1, QuietStep DEF JoinThreads, dataVars, sourceVars
<1>11. ASSUME NEW w \in Workers, EmptyDataQueue(w) PROVE DataInv'
  BY <1>11, EmptyStep
<1>12. ASSUME UNCHANGED vars PROVE DataInv'
  BY <1>12, QuietStep DEF vars, dataVars, threadVars, sourceVars
<1>13. DataInv'
  BY <1>2, <1>3, <1>4, <1>5, <1>6, <1>7, <1>8, <1>9, <1>10, <1>11, <1>12
     DEF Next, ThreadStep, TaskLoop, ControlStep
<1> QED BY <1>1, <1>13 DEF IInv

(* DataInv is inductive on top of the types: it holds in every reachable   *)
(* state of every pipeline.                                                *)
THEOREM Inductive == Spec => []IInv
BY DataInit, DataStep, PTL DEF Spec

(* What relates frames, masks, conveyors and pending pushes, the part of   *)
(* the invariant that says why each frame passes each module once.         *)
THEOREM DataKept == Spec => []DataInv
<1>1. IInv => DataInv BY DEF IInv
<1> QED BY <1>1, Inductive, PTL

(* The assert of TaskLoop holds: no frame reaches a module before all the  *)
(* modules linked to its input have passed it.                             *)
THEOREM CompleteFrames == Spec => []OnlyCompleteFramesArrive
<1>1. IInv => OnlyCompleteFramesArrive
  BY WorkerFacts
     DEF IInv, DataInv, WaitingInv, Waiting, OnlyCompleteFramesArrive
<1> QED BY <1>1, Inductive, PTL

(* Once EOS_MSG is posted for a stream, nothing of the stream but its EOS  *)
(* frame is anywhere in the pipeline.                                      *)
THEOREM EosLast == Spec => []EosMsgIsLast
<1>1. IInv => EosMsgIsLast
  <2> SUFFICES ASSUME IInv, NEW s \in Streams, eosMsg[s] > 0
               PROVE  /\ \A w \in Workers : \A f \in Queued(w) : StreamOf(f) # s
                      /\ \A t \in Threads : pc[t] \in Holding /\ StreamOf(cur[t]) = s => IsEos(cur[t])
    BY DEF EosMsgIsLast
  <2> USE DEF IInv, DataInv
  <2> DEFINE e == <<s, LastFrame[s]>>
  <2>1. e \in Frames /\ mask[e] = Modules
    BY LastIsFrame DEF EosInv
  <2>2. ASSUME NEW f \in Frames, StreamOf(f) = s PROVE (IsEos(f) /\ f = e) \/ Before(f, e)
    <3>1. f[2] \in 1..LastFrame[s] /\ LastFrame[s] \in Nat /\ f = <<f[1], f[2]>> /\ f[1] = s
      BY <2>2, FrameFacts, PipelineAssumption DEF StreamOf
    <3> QED BY <2>2, <3>1 DEF IsEos, Before, StreamOf
  <2>3. ASSUME NEW t \in Threads, NEW f \in Waiting(t) PROVE StreamOf(f) # s
    <3>1. f \in Frames /\ ModuleOf(t) \in Modules
      BY WaitingFrame, ModuleFacts
    <3> QED BY <2>1, <2>2, <3>1 DEF WaitingInv
  <2>4. ASSUME NEW t \in Threads, pc[t] \in AfterMark, StreamOf(cur[t]) = s PROVE IsEos(cur[t])
    <3>1. cur[t] \in Frames /\ ModuleOf(t) \in Modules
      BY <2>4, HeldFrame, ModuleFacts DEF Holding
    <3> QED BY <2>1, <2>2, <2>4, <3>1 DEF PassingInv
  <2> QED BY <2>3, <2>4, WorkerFacts DEF Waiting, Holding
<1> QED BY <1>1, Inductive, PTL

(***************************************************************************)
(* The refinement                                                          *)
(***************************************************************************)

LEMMA FlowFrames ==
  /\ Flow!Frames = Frames
  /\ \A f, g : Flow!Before(f, g) = Before(f, g)
  /\ \A f : Flow!StreamOf(f) = StreamOf(f)
  /\ \A m : Flow!Parents(m) = Parents(m) /\ Flow!RouteMask(m) = RouteMask(m)
  /\ \A s : Flow!EosFrame(s) = <<s, LastFrame[s]>>
BY DEF Flow!Frames, Frames, Flow!Before, Before, Flow!StreamOf, StreamOf, Flow!Parents, Parents,
       Flow!RouteMask, RouteMask, Flow!Reachable, Reachable, Flow!EosFrame

LEMMA MarkRefines ==
  ASSUME IInv, NEW t \in Threads, MarkPassed(t)
  PROVE  Flow!FlowNext
<1> DEFINE f == cur[t]
           m == ModuleOf(t)
<1> USE DEF IInv, DataInv
<1>1. pc[t] = "mark" /\ f \in Frames /\ f \in Waiting(t) /\ m \in Modules
  BY MarkChanges, ModuleFacts
<1>2. UNCHANGED eosMsg
  BY DEF MarkPassed
<1>3. CASE t \in Workers
  <2>1. Parents(m) # {} /\ mask' = [mask EXCEPT ![f] = @ \cup {m}]
    BY <1>3, WorkerFacts DEF MarkPassed, Inner, Roots, IsRootNode
  <2>2. Parents(m) \subseteq mask[f] /\ m \notin mask[f]
        /\ \A g \in Frames : Before(f, g) => m \notin mask[g]
    BY <1>1 DEF WaitingInv
  <2>3. Flow!Pass(f, m)
    BY <1>2, <2>1, <2>2, FlowFrames DEF Flow!Pass
  <2> QED BY <1>1, <2>3, FlowFrames DEF Flow!FlowNext
<1>4. CASE t \notin Workers
  <2>1. PICK s \in Streams : t = Handler(s)
    BY <1>4, WorkerFacts
  <2>2. f = <<s, sent[s]>> /\ mask[f] = {} /\ StreamOf(f) = s /\ f[2] = sent[s]
    BY <1>1, <2>1 DEF HandlerInv, BeforeMark, StreamOf
  <2>3. m = Origin[s] /\ m \in Roots
    BY <2>1, WorkerFacts
  <2>4. mask' = [mask EXCEPT ![f] = RouteMask(m) \cup {m}]
    BY <2>3 DEF MarkPassed, Roots, route_masks
  <2>5. ASSUME NEW g \in Frames, Before(f, g) PROVE mask[g] = {}
    <3>1. g[2] > sent[StreamOf(g)]
      BY <2>2, <2>5 DEF Before
    <3> QED BY <3>1 DEF MaskInv
  <2>6. Flow!Enter(f)
    BY <1>2, <2>2, <2>3, <2>4, <2>5, FlowFrames DEF Flow!Enter
  <2> QED BY <1>1, <2>6, FlowFrames DEF Flow!FlowNext
<1> QED BY <1>3, <1>4

LEMMA CheckRefines ==
  ASSUME IInv, NEW t \in Threads, TransmitCheck(t)
  PROVE  Flow!FlowNext \/ UNCHANGED <<mask, eosMsg>>
<1> DEFINE f == cur[t]
<1> USE DEF IInv, DataInv
<1>1. pc[t] = "check" /\ pc[t] \in AfterMark /\ UNCHANGED mask
  BY DEF TransmitCheck, AfterMark, dataVars
<1>2. f \in Frames /\ StreamOf(f) \in Streams
  BY <1>1, HeldFrame, FrameFacts DEF Holding
<1>3. CASE UNCHANGED eosMsg
  BY <1>1, <1>3
<1>4. CASE /\ IsEos(f) /\ changed[t] = Modules
           /\ eosMsg' = [eosMsg EXCEPT ![StreamOf(f)] = @ + 1]
  <2>1. f = <<StreamOf(f), LastFrame[StreamOf(f)]>>
    BY <1>2, <1>4, FrameFacts DEF IsEos, StreamOf
  <2>2. eosMsg[StreamOf(f)] = 0
    <3>1. eosMsg[StreamOf(f)] \in Nat
      BY <1>2 DEF TypeOK
    <3>2. ~(eosMsg[StreamOf(f)] > 0)
      BY <1>1, <1>2, <1>4, <2>1 DEF EosInv
    <3> QED BY <3>1, <3>2
  <2>3. mask[f] = Modules
    <3>1. changed[t] \subseteq mask[f] /\ mask[f] \subseteq Modules
      BY <1>1, <1>2 DEF PassingInv, TypeOK
    <3> QED BY <1>4, <3>1
  <2>4. eosMsg' = [eosMsg EXCEPT ![StreamOf(f)] = 1]
    BY <1>2, <1>4, <2>2 DEF TypeOK
  <2>5. Flow!AnnounceEos(StreamOf(f))
    BY <1>1, <2>1, <2>2, <2>3, <2>4, FlowFrames DEF Flow!AnnounceEos
  <2> QED BY <1>2, <2>5 DEF Flow!FlowNext
<1> QED BY <1>3, <1>4 DEF TransmitCheck, TransmitMask

LEMMA StepRefines == IInv /\ [Next]_vars => [Flow!FlowNext]_(Flow!flowVars)
<1> SUFFICES ASSUME IInv, [Next]_vars
             PROVE  Flow!FlowNext \/ UNCHANGED <<mask, eosMsg>>
  BY DEF Flow!flowVars
<1>1. ASSUME NEW t \in Threads, MarkPassed(t) \/ TransmitCheck(t)
      PROVE  Flow!FlowNext \/ UNCHANGED <<mask, eosMsg>>
  BY <1>1, MarkRefines, CheckRefines
<1>2. ASSUME NEW t \in Threads, PushGate(t) \/ PushDataBuffer(t) \/ TaskLoop(t)
      PROVE  UNCHANGED <<mask, eosMsg>>
  BY <1>2 DEF PushGate, PushDataBuffer, TaskLoop, TaskLoopExit, PopDataBuffer, DoProcess, dataVars
<1>3. ASSUME NEW s \in Streams, Send(s) \/ SetStreamRemoved(s)
      PROVE  UNCHANGED <<mask, eosMsg>>
  BY <1>3 DEF Send, SetStreamRemoved, dataVars
<1>4. ASSUME StartOpen \/ StopBegin \/ ControlStep PROVE UNCHANGED <<mask, eosMsg>>
  BY <1>4 DEF StartOpen, StopBegin, ControlStep, StartConnector, SpawnThreads, StopConnector,
              EmptyDataQueue, ConnectorsStarted, Started, ConnectorsStopped, JoinThreads,
              CloseModules, dataVars
<1>5. CASE UNCHANGED vars
  BY <1>5 DEF vars, dataVars
<1> QED BY <1>1, <1>2, <1>3, <1>4, <1>5 DEF Next, ThreadStep, TransmitData

(* Pipeline keeps its promise to users, across stops and restarts: a frame *)
(* passes a module at most once, after all the modules upstream of it and  *)
(* in stream order, and the end of a stream is announced once, at last.    *)
THEOREM FlowRefinement == Spec => ImplementsFlow
<1>1. Init => Flow!FlowInit
  BY FlowFrames DEF Init, Flow!FlowInit
<1> QED BY <1>1, Inductive, StepRefines, PTL DEF ImplementsFlow, Spec, Flow!FlowSpec
=============================================================================
