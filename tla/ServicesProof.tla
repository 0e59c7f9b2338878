--------------------------- MODULE ServicesProof ----------------------------
(***************************************************************************)
(* Proofs about what a pipeline has besides its data path.                 *)
(*                                                                         *)
(* Its life, with the bus and the message thread: for every graph, every   *)
(* number of watchers, starts and callers, what PipelineControl leaves     *)
(* behind when Start fails, when Stop returns and when the pipeline is     *)
(* destroyed.                                                              *)
(*                                                                         *)
(* Its profiler: the profile of a stream accounts for every frame, however *)
(* long the streams are, however far the decoder reorders within its       *)
(* buffer, and whatever fits into the conveyor.  First what the operations *)
(* of a profiler do to its records, then what a step does to the frames in *)
(* flight, then that every step keeps ProfilingInv.                        *)
(*                                                                         *)
(* Its tracer: a trace consists of whole events in their places, whoever   *)
(* writes meanwhile.                                                       *)
(***************************************************************************)
EXTENDS ControlInvariant, ProfilingInvariant, TraceInvariant, WellFoundedInduction,
        FiniteSetTheorems, SequenceTheorems, TLAPS

-----------------------------------------------------------------------------
(* The life of a pipeline.                                                 *)

(***************************************************************************)
(* ThreadSafeQueue                                                         *)
(***************************************************************************)

LEMMA EmptyQueueOK ==
  ASSUME NEW elements
  PROVE  EmptyQueue \in QueueType(elements)
<1>1. <<>> \in Seq(elements) /\ 0 \in 0..1
  OBVIOUS
<1> QED BY <1>1 DEF QueueType, QueueOK, EmptyQueue

(* A push stores the element or pays the debt.                             *)
LEMMA PushedOK ==
  ASSUME NEW elements, NEW q \in QueueType(elements), NEW e \in elements
  PROVE  Pushed(q, e) \in QueueType(elements)
BY DEF QueueType, QueueOK, Pushed

(* What WaitAndTryPop lets through is a pop from an empty queue.           *)
LEMMA PoppedOK ==
  ASSUME NEW elements, NEW q \in QueueType(elements), WaitAndTryPop(q)
  PROVE  /\ Popped(q) \in QueueType(elements)
         /\ \A garbage : FrontOf(q, garbage) = garbage
BY DEF QueueType, QueueOK, WaitAndTryPop, IsEmpty, Popped, FrontOf

(***************************************************************************)
(* Types.  The event thread, the message thread and the application        *)
(* thread have variables of their own: each part of the type invariant is  *)
(* kept by the steps of one of them.                                       *)
(***************************************************************************)

LEMMA NoThreads == DOMAIN <<>> = {}
OBVIOUS

LEMMA NoEventIsGarbage == NoEvent \in GarbageEvents
BY DEF NoEvent, GarbageEvents, EventTypes

LEMMA TypeInit == Init => ControlTypes
<1> SUFFICES ASSUME Init PROVE ControlTypes
  OBVIOUS
<1>1. BusTypes
  <2>1. bus_queue \in QueueType(PostedEvents)
    BY EmptyQueueOK DEF Init, BusInit
  <2>2. /\ bus_watchers \in Seq({"pipeline", "user"}) /\ Len(bus_watchers) = 1
        /\ bus_watchers # <<>>
    BY DEF Init, BusInit
  <2>3. event \in GarbageEvents
    BY NoEventIsGarbage DEF Init, BusInit
  <2>4. bus_running = FALSE /\ bus_thread = "none" /\ watcher = 0 /\ posts = 0
    BY DEF Init, BusInit
  <2>5. watcher \in 0..Len(bus_watchers) /\ posts \in Nat
    BY <2>2, <2>4
  <2>6. bus_running \in BOOLEAN
    BY <2>4
  <2> QED BY <2>1, <2>2, <2>3, <2>4, <2>5, <2>6 DEF BusTypes
<1>2. MsgTypes
  BY EmptyQueueOK DEF Init, MsgTypes
<1>3. StartTypes
  <2>1. threads = <<>> /\ DOMAIN threads = {}
    BY DEF Init
  <2> QED BY <2>1 DEF Init, StartTypes, Places
<1> QED BY <1>1, <1>2, <1>3 DEF ControlTypes

LEMMA LeaveTypes ==
  ASSUME BusTypes, LeaveLoop, UNCHANGED <<bus_queue, bus_watchers, posts>>
  PROVE  BusTypes'
BY NoEventIsGarbage DEF BusTypes, LeaveLoop

LEMMA InformedTypes ==
  ASSUME BusTypes, NEW flag, Informed(flag)
  PROVE  BusTypes'
<1>1. CASE flag = "STOP"
  BY <1>1, LeaveTypes DEF Informed
<1>2. CASE flag # "STOP"
  <2>1. CASE watcher' = watcher + 1 /\ watcher < Len(bus_watchers)
             /\ UNCHANGED <<bus_running, bus_thread, event>>
    BY <2>1 DEF BusTypes, Informed
  <2>2. CASE bus_thread' = "polling" /\ event' = NoEvent /\ watcher' = 0 /\ UNCHANGED bus_running
    BY <2>2, NoEventIsGarbage DEF BusTypes, Informed
  <2> QED BY <1>2, <2>1, <2>2 DEF Informed
<1> QED BY <1>1, <1>2

LEMMA PollTypes ==
  ASSUME BusTypes, PollPop \/ PollStopped \/ EventPolled
  PROVE  BusTypes'
<1>1. CASE PollPop
  <2>1. bus_queue' \in QueueType(PostedEvents) /\ event' \in GarbageEvents
    BY <1>1, PoppedOK DEF PollPop, BusTypes
  <2> QED BY <1>1, <2>1 DEF PollPop, BusTypes
<1>2. CASE PollStopped
  BY <1>2, LeaveTypes DEF PollStopped
<1>3. CASE EventPolled
  <2>1. CASE LeaveLoop
    BY <1>3, <2>1, LeaveTypes DEF EventPolled
  <2>2. CASE bus_thread' = "informing" /\ watcher' = 1 /\ UNCHANGED <<bus_running, event>>
    BY <1>3, <2>2 DEF EventPolled, BusTypes
  <2> QED BY <1>3, <2>1, <2>2 DEF EventPolled
<1> QED BY <1>1, <1>2, <1>3

LEMMA PostTypes ==
  ASSUME BusTypes, NEW e \in PostedEvents, PostEvent(e)
  PROVE  BusTypes'
<1>1. bus_queue' \in QueueType(PostedEvents)
  BY PushedOK DEF PostEvent, BusTypes
<1> QED BY <1>1 DEF PostEvent, BusTypes

LEMMA MessageTypesKept ==
  ASSUME MsgTypes, NEW m \in MessageTypes, UpdateByStreamMsg(m), updates' \in Nat
  PROVE  MsgTypes'
BY PushedOK DEF UpdateByStreamMsg, MsgTypes

(* The event thread, and what others do to the bus.                        *)
LEMMA BusStep == ControlTypes /\ [Next]_vars => BusTypes'
<1> SUFFICES ASSUME ControlTypes, [Next]_vars PROVE BusTypes'
  OBVIOUS
<1> USE DEF ControlTypes
<1>1. CASE UNCHANGED busVars
  BY <1>1 DEF busVars, BusTypes
<1>2. CASE BusThread
  <2>1. CASE PollPop \/ PollStopped \/ EventPolled
    BY <2>1, PollTypes
  <2>2. CASE DefaultBusWatch
    BY <2>2, InformedTypes DEF DefaultBusWatch
  <2>3. CASE UserWatch
    BY <2>3, InformedTypes DEF UserWatch
  <2> QED BY <1>2, <2>1, <2>2, <2>3 DEF BusThread
<1>3. CASE AddUserWatch
  <2>1. bus_watchers' = <<"user">> \o bus_watchers
    BY <1>3 DEF AddUserWatch, AddBusWatch
  <2>2. /\ bus_watchers' \in Seq({"pipeline", "user"}) /\ bus_watchers' # <<>>
        /\ Len(bus_watchers') = 1 + Len(bus_watchers)
    BY <2>1 DEF BusTypes
  <2> QED BY <1>3, <2>2 DEF AddUserWatch, AddBusWatch, BusTypes
<1>4. ASSUME NEW m \in graph.modules, ModulePosts(m) PROVE BusTypes'
  BY <1>4, PostTypes DEF ModulePosts
<1>5. CASE StartRunning
  BY <1>5 DEF StartRunning, BusStart, BusTypes
<1>6. CASE JoinThreads
  BY <1>1, <1>6 DEF JoinThreads, BusStop, BusTypes
<1>7. CASE BusJoined
  BY <1>7 DEF BusJoined, BusJoin, BusTypes
<1>8. CASE StartBegin \/ Started \/ StopBegin \/ DestroyBegin
  BY <1>1, <1>8 DEF StartBegin, Started, StopBegin, DestroyBegin
<1>9. ASSUME NEW m \in graph.modules, OpenModule(m) \/ SpawnThreads(m) PROVE BusTypes'
  BY <1>1, <1>9 DEF OpenModule, SpawnThreads
<1>10. ASSUME NEW m \in graph.modules, EnterContainer(m) \/ ModuleMessage(m) \/ LeaveContainer(m)
       PROVE  BusTypes'
  BY <1>1, <1>10 DEF EnterContainer, ModuleMessage, LeaveContainer
<1>11. CASE StopConnectors \/ CloseModules \/ \E t \in DOMAIN threads : TaskLoopEnds(t)
  BY <1>1, <1>11 DEF StopConnectors, CloseModules, TaskLoopEnds
<1>12. CASE DestroyStep
  BY <1>1, <1>12 DEF DestroyStep, Detach, EndMessageThread, Destroyed
<1>13. CASE MsgThread
  BY <1>1, <1>13 DEF MsgThread, MsgPop, MsgLeave, MsgHandle, MsgUpdated, MsgUnchanged
<1>14. CASE UNCHANGED vars
  BY <1>1, <1>14 DEF vars
<1> QED BY <1>2, <1>3, <1>4, <1>5, <1>6, <1>7, <1>8, <1>9, <1>10, <1>11, <1>12, <1>13, <1>14
        DEF Next, StopStep, ModuleCall

(* The message thread, and what others push to its queue.                  *)
LEMMA MsgStep == ControlTypes /\ [Next]_vars => MsgTypes'
<1> SUFFICES ASSUME ControlTypes, [Next]_vars PROVE MsgTypes'
  OBVIOUS
<1> USE DEF ControlTypes
<1>1. CASE UNCHANGED msgVars
  BY <1>1 DEF msgVars, MsgTypes
<1>2. CASE MsgPop
  BY <1>2, PoppedOK DEF MsgPop, MsgTypes
<1>3. CASE MsgLeave \/ MsgHandle \/ MsgUpdated
  BY <1>3 DEF MsgLeave, MsgHandle, MsgUpdated, MsgUnchanged, MsgTypes
<1>4. CASE DefaultBusWatch
  <2>1. CASE DefaultMessage(event.type) = NoMessage
    BY <1>4, <2>1 DEF DefaultBusWatch, MsgTypes
  <2>2. CASE DefaultMessage(event.type) # NoMessage
    <3>1. DefaultMessage(event.type) \in MessageTypes
      BY <2>2 DEF DefaultMessage, MessageTypes
    <3>2. UpdateByStreamMsg(DefaultMessage(event.type)) /\ updates' = updates
      BY <1>4, <2>2 DEF DefaultBusWatch
    <3> QED BY <3>1, <3>2, MessageTypesKept DEF MsgTypes
  <2> QED BY <2>1, <2>2
<1>5. ASSUME NEW m \in graph.modules, ModuleMessage(m) PROVE MsgTypes'
  <2>1. "EOS_MSG" \in MessageTypes
    BY DEF MessageTypes
  <2> QED BY <1>5, <2>1, MessageTypesKept DEF ModuleMessage, MsgTypes
<1>6. CASE EndMessageThread
  BY <1>6 DEF EndMessageThread, MsgTypes
<1>7. CASE StartBegin \/ StartRunning \/ Started \/ StopBegin \/ DestroyBegin \/ StopStep
  BY <1>1, <1>7 DEF StartBegin, StartRunning, Started, StopBegin, DestroyBegin, StopStep,
       StopConnectors, JoinThreads, BusJoined, CloseModules, TaskLoopEnds, RestUnchanged
<1>8. ASSUME NEW m \in graph.modules, OpenModule(m) \/ SpawnThreads(m) PROVE MsgTypes'
  BY <1>1, <1>8 DEF OpenModule, SpawnThreads, RestUnchanged
<1>9. ASSUME NEW m \in graph.modules, EnterContainer(m) \/ ModulePosts(m) \/ LeaveContainer(m)
      PROVE  MsgTypes'
  BY <1>1, <1>9 DEF EnterContainer, ModulePosts, LeaveContainer
<1>10. CASE Destroyed \/ \E m \in graph.modules : Detach(m)
  BY <1>1, <1>10 DEF Detach, Destroyed, RestUnchanged
<1>11. CASE AddUserWatch \/ UserWatch \/ (BusThread /\ ~DefaultBusWatch)
  BY <1>1, <1>11 DEF AddUserWatch, UserWatch, BusThread
<1>12. CASE UNCHANGED vars
  BY <1>1, <1>12 DEF vars
<1> QED BY <1>2, <1>3, <1>4, <1>5, <1>6, <1>7, <1>8, <1>9, <1>10, <1>11, <1>12
        DEF Next, BusThread, MsgThread, ModuleCall, DestroyStep

(* Start, Stop and the destructor, and the calls of modules.               *)
LEMMA StartStep == ControlTypes /\ [Next]_vars => StartTypes'
<1> SUFFICES ASSUME ControlTypes, [Next]_vars PROVE StartTypes'
  OBVIOUS
<1> USE DEF ControlTypes, StartTypes, Places, Stopping, Destroying
<1>1. CASE UNCHANGED <<startVars, callVars>>
  BY <1>1 DEF startVars, callVars, Connected
<1>2. CASE StartBegin \/ StartRunning \/ Started \/ StopBegin \/ DestroyBegin
  BY <1>2 DEF StartBegin, StartRunning, Started, StopBegin, DestroyBegin, RestUnchanged, callVars,
       Connected
<1>3. ASSUME NEW m \in graph.modules, OpenModule(m) PROVE StartTypes'
  BY <1>3 DEF OpenModule, RestUnchanged, callVars, Connected
<1>4. ASSUME NEW m \in graph.modules, SpawnThreads(m) PROVE StartTypes'
  BY <1>4 DEF SpawnThreads, RefuseModule, RestUnchanged, callVars, Connected
<1>5. ASSUME NEW m \in graph.modules, ModuleCall(m) \/ LeaveContainer(m) PROVE StartTypes'
  <2>1. CASE EnterContainer(m) \/ LeaveContainer(m)
    BY <2>1 DEF EnterContainer, LeaveContainer, startVars, Connected
  <2>2. CASE ModulePosts(m) \/ ModuleMessage(m)
    BY <1>1, <2>2 DEF ModulePosts, ModuleMessage
  <2> QED BY <1>5, <2>1, <2>2 DEF ModuleCall
<1>6. CASE StopStep
  <2>1. ASSUME NEW t \in DOMAIN threads, TaskLoopEnds(t) PROVE StartTypes'
    BY <2>1 DEF TaskLoopEnds, RestUnchanged, callVars, Connected
  <2>2. CASE JoinThreads
    <3>1. threads' = <<>> /\ DOMAIN threads' = {}
      BY <2>2, NoThreads, Zenon DEF JoinThreads
    <3> QED BY <2>2, <3>1 DEF JoinThreads, RestUnchanged, callVars, Connected
  <2>3. CASE StopConnectors \/ BusJoined \/ CloseModules
    BY <2>3 DEF StopConnectors, BusJoined, CloseModules, RestUnchanged, callVars, Connected
  <2> QED BY <1>6, <2>1, <2>2, <2>3 DEF StopStep
<1>7. CASE DestroyStep
  BY <1>7 DEF DestroyStep, Detach, EndMessageThread, Destroyed, RestUnchanged, callVars, Connected
<1>8. CASE BusThread
  BY <1>1, <1>8 DEF BusThread, DefaultBusWatch, UserWatch
<1>9. CASE MsgThread
  BY <1>1, <1>9 DEF MsgThread, MsgPop, MsgLeave, MsgHandle, MsgUpdated, MsgUnchanged
<1>10. CASE AddUserWatch
  BY <1>1, <1>10 DEF AddUserWatch
<1>11. CASE UNCHANGED vars
  BY <1>1, <1>11 DEF vars
<1> QED BY <1>2, <1>3, <1>4, <1>5, <1>6, <1>7, <1>8, <1>9, <1>10, <1>11 DEF Next

LEMMA TypesAlways == Spec => []ControlTypes
<1>1. ControlTypes /\ [Next]_vars => ControlTypes'
  BY BusStep, MsgStep, StartStep DEF ControlTypes
<1> QED BY <1>1, TypeInit, PTL DEF Spec

(* Types; a queue of the bus or of messages never owes more than one       *)
(* element, however often its predicate lets a pop through.                *)
THEOREM ControlTypesKept == Spec => []ControlTypeOK
<1>1. ControlTypes => ControlTypeOK
  BY DEF ControlTypes, BusTypes, MsgTypes, StartTypes, QueueType, ControlTypeOK
<1> QED BY <1>1, TypesAlways, PTL

(***************************************************************************)
(* The life cycle.  The properties speak of the places where nobody is in  *)
(* the middle of a call; what makes them inductive is what ControlInv says *)
(* of the places in between.                                               *)
(***************************************************************************)

LEMMA ControlInit == Init => ControlInv
<1> SUFFICES ASSUME Init PROVE ControlInv
  OBVIOUS
<1>1. threads = <<>> /\ DOMAIN threads = {}
  BY NoThreads DEF Init
<1> QED
  BY <1>1 DEF Init, BusInit, ControlInv, DownInv, UpInv, StartInv, StopInv, DestroyInv, BusDown,
       Destroying

(* The steps of other threads: they leave the application thread, the      *)
(* threads it created and the modules as they are, and a bus as it is      *)
(* joined or not.                                                          *)
LEMMA ControlStutter ==
  ASSUME ControlInv,
         UNCHANGED <<graph, running, ctl, todo, opened, bus_running, contained>>,
         DOMAIN threads' = DOMAIN threads,
         bus_thread' = "none" <=> bus_thread = "none",
         calling' \subseteq contained,
         msg_thread = "ended" => msg_thread' = "ended"
  PROVE  ControlInv'
<1>1. DownInv' /\ StopInv' /\ DestroyInv'
  BY DEF ControlInv, DownInv, StopInv, DestroyInv, BusDown, BusUp
<1>2. \A modules : AllThreadsOf(modules)' = AllThreadsOf(modules)
  BY DEF AllThreadsOf, ThreadsOf
<1>3. \A m : StartAccepts(graph, m)' = StartAccepts(graph, m)
  OBVIOUS
<1>4. UpInv'
  BY <1>2, <1>3 DEF ControlInv, UpInv, BusUp
<1>5. StartInv'
  BY <1>2, <1>3 DEF ControlInv, StartInv, BusUp, BusDown
<1> QED BY <1>1, <1>4, <1>5 DEF ControlInv

LEMMA StartKeeps ==
  ASSUME ControlTypes, ControlInv, StartBegin \/ StartRunning \/ Started \/ StopBegin \/ DestroyBegin
  PROVE  ControlInv'
<1> USE DEF ControlInv, DownInv, UpInv, StartInv, StopInv, DestroyInv, BusDown, BusUp, Destroying
<1>1. CASE StartBegin
  BY <1>1 DEF StartBegin, RestUnchanged, busVars, callVars
<1>2. CASE StartRunning
  <2>1. AllThreadsOf(graph.modules \ todo)' = {}
    BY <1>2 DEF StartRunning, RestUnchanged, AllThreadsOf
  <2> QED BY <1>2, <2>1 DEF StartRunning, RestUnchanged, callVars, BusStart
<1>3. CASE Started
  <2>1. graph' = graph /\ graph.modules \ todo = graph.modules
    BY <1>3 DEF Started, RestUnchanged
  <2> QED BY <1>3, <2>1 DEF Started, RestUnchanged, busVars, callVars, AllThreadsOf, ThreadsOf,
            StartAccepts, RootsOf, ParentsOf
<1>4. CASE StopBegin
  BY <1>4 DEF StopBegin, RestUnchanged, busVars, callVars
<1>5. CASE DestroyBegin
  BY <1>5 DEF DestroyBegin, RestUnchanged, busVars, callVars
<1> QED BY <1>1, <1>2, <1>3, <1>4, <1>5

(* Start visits the modules one after the other. *)
LEMMA VisitKeeps ==
  ASSUME ControlTypes, ControlInv, NEW m \in graph.modules, OpenModule(m) \/ SpawnThreads(m)
  PROVE  ControlInv'
<1> USE DEF ControlInv, DownInv, UpInv, StartInv, StopInv, DestroyInv, BusDown, BusUp, Destroying
<1>1. CASE OpenModule(m)
  BY <1>1 DEF OpenModule, RestUnchanged, busVars, callVars
<1>2. CASE SpawnThreads(m) /\ StartAccepts(graph, m)
  <2>1. /\ DOMAIN threads' = DOMAIN threads \cup ThreadsOf(graph, m)
        /\ todo' = todo \ {m} /\ m \in todo /\ ctl = "spawning" /\ UNCHANGED ctl
        /\ UNCHANGED <<running, opened, graph, busVars, callVars, msgVars>>
    BY <1>2 DEF SpawnThreads, RestUnchanged
  <2>2. graph.modules \ todo' = (graph.modules \ todo) \cup {m}
    BY <2>1
  <2>3. DOMAIN threads' = AllThreadsOf(graph.modules \ todo)'
    BY <2>1, <2>2 DEF AllThreadsOf, ThreadsOf
  <2>4. \A n \in graph.modules \ todo' : StartAccepts(graph, n)'
    BY <1>2, <2>1, <2>2
  <2> QED BY <2>1, <2>3, <2>4 DEF busVars, callVars
<1>3. CASE SpawnThreads(m) /\ ~StartAccepts(graph, m)
  BY <1>3 DEF SpawnThreads, RefuseModule, RestUnchanged, busVars, callVars
<1> QED BY <1>1, <1>2, <1>3

LEMMA StopKeeps ==
  ASSUME ControlTypes, ControlInv,
         StopConnectors \/ JoinThreads \/ BusJoined \/ CloseModules
  PROVE  ControlInv'
<1> USE DEF ControlInv, DownInv, UpInv, StartInv, StopInv, DestroyInv, BusDown, BusUp, Destroying
<1>1. CASE StopConnectors
  BY <1>1 DEF StopConnectors, RestUnchanged, busVars, callVars
<1>2. CASE JoinThreads
  <2>1. DOMAIN threads' = {}
    BY <1>2, NoThreads, Zenon DEF JoinThreads
  <2> QED BY <1>2, <2>1 DEF JoinThreads, RestUnchanged, BusStop, busVars, callVars
<1>3. CASE BusJoined
  BY <1>3 DEF BusJoined, BusJoin, RestUnchanged, callVars
<1>4. CASE CloseModules
  BY <1>4 DEF CloseModules, RestUnchanged, busVars, callVars
<1> QED BY <1>1, <1>2, <1>3, <1>4

LEMMA DestroyKeeps ==
  ASSUME ControlTypes, ControlInv, DestroyStep
  PROVE  ControlInv'
<1> USE DEF ControlInv, DownInv, UpInv, StartInv, StopInv, DestroyInv, BusDown, Destroying
<1>1. ASSUME NEW m \in graph.modules, Detach(m) PROVE ControlInv'
  BY <1>1 DEF Detach, busVars
<1>2. CASE EndMessageThread
  BY <1>2 DEF EndMessageThread, busVars, callVars
<1>3. CASE Destroyed
  BY <1>3 DEF Destroyed, RestUnchanged, busVars, callVars, msgVars
<1> QED BY <1>1, <1>2, <1>3 DEF DestroyStep

LEMMA ControlStep == ControlTypes /\ ControlInv /\ [Next]_vars => ControlInv'
<1> SUFFICES ASSUME ControlTypes, ControlInv, [Next]_vars PROVE ControlInv'
  OBVIOUS
<1>0. calling \subseteq contained
  BY DEF ControlInv, DestroyInv
<1>1. CASE StartBegin \/ StartRunning \/ Started \/ StopBegin \/ DestroyBegin
  BY <1>1, StartKeeps
<1>2. ASSUME NEW m \in graph.modules, OpenModule(m) \/ SpawnThreads(m) PROVE ControlInv'
  BY <1>2, VisitKeeps
<1>3. ASSUME NEW m \in graph.modules, ModuleCall(m) \/ LeaveContainer(m) PROVE ControlInv'
  <2>1. UNCHANGED startVars /\ contained' = contained
    BY <1>3 DEF ModuleCall, EnterContainer, ModulePosts, ModuleMessage, LeaveContainer, callVars
  <2>2. calling' \subseteq contained
    BY <1>0, <1>3 DEF ModuleCall, EnterContainer, ModulePosts, ModuleMessage, LeaveContainer, callVars
  <2>3. UNCHANGED <<bus_running, bus_thread, msg_thread>>
    BY <1>3 DEF ModuleCall, EnterContainer, ModulePosts, PostEvent, ModuleMessage,
         UpdateByStreamMsg, LeaveContainer, busVars, msgVars
  <2> QED BY <2>1, <2>2, <2>3, ControlStutter DEF startVars
<1>4. CASE StopStep
  <2>1. ASSUME NEW t \in DOMAIN threads, TaskLoopEnds(t) PROVE ControlInv'
    <3>1. DOMAIN threads' = DOMAIN threads
      BY <2>1 DEF TaskLoopEnds
    <3> QED BY <1>0, <2>1, <3>1, ControlStutter DEF TaskLoopEnds, RestUnchanged, busVars, callVars, msgVars
  <2> QED BY <1>4, <2>1, StopKeeps DEF StopStep
<1>5. CASE DestroyStep
  BY <1>5, DestroyKeeps
<1>6. CASE BusThread
  <2>1. UNCHANGED <<startVars, callVars, msg_thread, bus_running>>
    BY <1>6 DEF BusThread, PollPop, PollStopped, EventPolled, DefaultBusWatch, UserWatch, Informed,
         LeaveLoop, UpdateByStreamMsg, msgVars
  <2>2. bus_thread # "none" /\ bus_thread' # "none"
    BY <1>6 DEF BusThread, PollPop, PollStopped, EventPolled, DefaultBusWatch, UserWatch, Informed,
         LeaveLoop
  <2> QED BY <1>0, <2>1, <2>2, ControlStutter DEF startVars, callVars
<1>7. CASE MsgThread
  BY <1>0, <1>7, ControlStutter
     DEF MsgThread, MsgPop, MsgLeave, MsgHandle, MsgUpdated, MsgUnchanged, busVars, startVars, callVars
<1>8. CASE AddUserWatch
  BY <1>0, <1>8, ControlStutter DEF AddUserWatch, AddBusWatch, startVars, callVars, msgVars
<1>9. CASE UNCHANGED vars
  BY <1>0, <1>9, ControlStutter DEF vars, busVars, startVars, callVars, msgVars
<1> QED BY <1>1, <1>2, <1>3, <1>4, <1>5, <1>6, <1>7, <1>8, <1>9 DEF Next

LEMMA ControlAlways == Spec => [](ControlTypes /\ ControlInv)
BY TypesAlways, ControlInit, ControlStep, PTL DEF Spec

(* A start that was refused, one whose module did not open, and a stop     *)
(* leave neither an open module, nor a thread, nor a bus behind; so that   *)
(* event_thread_ is never assigned to while it is joinable.                *)
THEOREM StoppedIsQuiet == Spec => []QuietWhenStopped
<1>1. ControlInv => QuietWhenStopped
  BY DEF ControlInv, DownInv, BusDown, QuietWhenStopped, Destroying
<1> QED BY <1>1, ControlAlways, PTL

(* The threads of a module are as many as its parallelism says.            *)
LEMMA ThreadsOfCount ==
  ASSUME NEW g \in Graphs, NEW m \in g.modules
  PROVE  Cardinality(ThreadsOf(g, m)) = g.parallelism[m]
<1> DEFINE n == g.parallelism[m]
           f == [i \in 0..n - 1 |-> <<m, i>>]
<1>1. n \in Nat
  BY ControlAssumption
<1>2. f \in Bijection(0..n - 1, ThreadsOf(g, m))
  <2>1. f \in [0..n - 1 -> ThreadsOf(g, m)]
    BY DEF ThreadsOf
  <2>2. \A i, j \in 0..n - 1 : f[i] = f[j] => i = j
    OBVIOUS
  <2>3. \A t \in ThreadsOf(g, m) : \E i \in 0..n - 1 : f[i] = t
    BY DEF ThreadsOf
  <2> QED BY <2>1, <2>2, <2>3 DEF Bijection, Injection, Surjection, IsInjective
<1>3. IsFiniteSet(0..n - 1) /\ Cardinality(0..n - 1) = n
  <2> HIDE DEF n
  <2>1. 0 \in Int /\ n - 1 \in Int
    BY <1>1
  <2>2. /\ IsFiniteSet(0..n - 1)
        /\ Cardinality(0..n - 1) = IF 0 > n - 1 THEN 0 ELSE n - 1 - 0 + 1
    BY <2>1, FS_Interval
  <2> QED BY <1>1, <2>2
<1> QED BY <1>2, <1>3, FS_Bijection DEF ExistsBijection

(* While nobody starts or stops it, a pipeline that runs has every module  *)
(* open, the threads its graph asks for, and a bus that Stop can join.     *)
THEOREM RunningPipelineIsWhole == Spec => []RunningIsWhole
<1>1. ASSUME ControlTypes, ControlInv PROVE RunningIsWhole
  <2> SUFFICES ASSUME ctl = "idle", running
               PROVE  /\ opened = graph.modules
                      /\ DOMAIN threads = UNION {ThreadsOf(graph, m) : m \in graph.modules \ RootsOf(graph)}
                      /\ \A m \in graph.modules : Cardinality(ThreadsOf(graph, m)) = graph.conveyors[m]
                      /\ bus_running /\ bus_thread # "none"
    BY DEF RunningIsWhole
  <2>1. /\ opened = graph.modules
        /\ DOMAIN threads = AllThreadsOf(graph.modules)
        /\ \A m \in graph.modules : StartAccepts(graph, m)
        /\ bus_running /\ bus_thread # "none"
    BY <1>1 DEF ControlInv, UpInv, BusUp
  <2>2. graph \in Graphs
    BY <1>1 DEF ControlTypes, StartTypes
  <2>3. \A m \in RootsOf(graph) : ThreadsOf(graph, m) = {}
    BY <2>1 DEF RootsOf, StartAccepts, ThreadsOf
  <2>4. AllThreadsOf(graph.modules) = UNION {ThreadsOf(graph, m) : m \in graph.modules \ RootsOf(graph)}
    BY <2>3 DEF AllThreadsOf
  <2>5. \A m \in graph.modules : Cardinality(ThreadsOf(graph, m)) = graph.conveyors[m]
    BY <2>1, <2>2, ThreadsOfCount DEF StartAccepts
  <2> QED BY <2>1, <2>4, <2>5
<1> QED BY <1>1, ControlAlways, PTL

(* When the event bus and the index manager are deleted, no module is      *)
(* inside the pipeline and none of its threads is left.                    *)
THEOREM NobodyInDestroyed == Spec => []NoCallIntoDestroyed
<1>1. ControlInv => NoCallIntoDestroyed
  BY DEF ControlInv, DownInv, DestroyInv, BusDown, Destroying, NoCallIntoDestroyed
<1> QED BY <1>1, ControlAlways, PTL

-----------------------------------------------------------------------------
(* The profiler.                                                           *)

\* A set of numbers that is not empty has a smallest one.
LEMMA SmallestNat ==
  ASSUME NEW S, S \subseteq Nat, S # {}
  PROVE  \E x \in S : \A y \in S : x <= y
<1> DEFINE Less == {s \in Nat \X Nat : s[1] < s[2]}
<1>1. IsWellFoundedOn(Less, Nat)
  BY NatLessThanWellFounded DEF OpToRel
<1>2. \A x, y \in Nat : <<y, x>> \in Less <=> y < x
  OBVIOUS
<1> HIDE DEF Less
<1>3. PICK x \in S : \A y \in S : ~(<<y, x>> \in Less)
  BY <1>1, WFMin
<1>4. ASSUME NEW y \in S PROVE x <= y
  <2>1. x \in Nat /\ y \in Nat
    OBVIOUS
  <2>2. ~(y < x)
    BY <1>2, <1>3, <2>1
  <2> QED
    BY <2>1, <2>2
<1> QED
  BY <1>3, <1>4

\* One record skipped, and what the recursion over the first n records yields.
SkippedOnce(records, i) == [records[i] EXCEPT !.skip = @ + 1]
IsKept(records, kept, n) ==
  kept = [i \in 0..n |->
    IF i = 0 THEN <<>>
    ELSE IF Useless(SkippedOnce(records, i)) THEN kept[i - 1]
         ELSE Append(kept[i - 1], SkippedOnce(records, i))]

\* The recursion of RemoveThisAndOtherUselessRecords has a result, by the smallest
\* number of records for which it would have none.
LEMMA KeptExists ==
  ASSUME NEW records, NEW n \in Nat
  PROVE  \E kept : IsKept(records, kept, n)
<1> DEFINE Missing == {m \in Nat : \A kept : ~IsKept(records, kept, m)}
<1> SUFFICES ASSUME Missing # {} PROVE FALSE
  OBVIOUS
<1>1. PICK m \in Missing : \A k \in Missing : m <= k
  BY SmallestNat
<1>2. CASE m = 0
  <2>1. IsKept(records, [i \in 0..0 |-> <<>>], 0)
    BY DEF IsKept
  <2> QED
    BY <1>1, <1>2, <2>1
<1>3. CASE m # 0
  <2>1. m - 1 \in Nat /\ m - 1 \notin Missing
    BY <1>1, <1>3
  <2>2. PICK before : IsKept(records, before, m - 1)
    BY <2>1
  <2>3. PICK last : last = IF Useless(SkippedOnce(records, m)) THEN before[m - 1]
                           ELSE Append(before[m - 1], SkippedOnce(records, m))
    OBVIOUS
  <2>4. PICK kept : kept = [i \in 0..m |-> IF i = m THEN last ELSE before[i]]
    OBVIOUS
  <2>5. \A i \in 0..m - 1 : kept[i] = before[i]
    BY <2>1, <2>4
  <2>6. \A i \in 0..m - 1 : before[i] =
          IF i = 0 THEN <<>>
          ELSE IF Useless(SkippedOnce(records, i)) THEN before[i - 1]
               ELSE Append(before[i - 1], SkippedOnce(records, i))
    BY <2>2, Zenon DEF IsKept
  <2>7. \A i \in 0..m : kept[i] =
          IF i = 0 THEN <<>>
          ELSE IF Useless(SkippedOnce(records, i)) THEN kept[i - 1]
               ELSE Append(kept[i - 1], SkippedOnce(records, i))
    <3> SUFFICES ASSUME NEW i \in 0..m
                 PROVE  kept[i] = IF i = 0 THEN <<>>
                                  ELSE IF Useless(SkippedOnce(records, i)) THEN kept[i - 1]
                                       ELSE Append(kept[i - 1], SkippedOnce(records, i))
      OBVIOUS
    <3>1. CASE i = m
      <4>1. kept[i] = last /\ kept[i - 1] = before[m - 1]
        BY <1>1, <1>3, <2>4, <2>5, <3>1
      <4> QED
        BY <1>3, <2>3, <3>1, <4>1
    <3>2. CASE i # m
      <4>1. i \in 0..m - 1 /\ (i # 0 => i - 1 \in 0..m - 1)
        BY <3>2
      <4> QED
        BY <2>5, <2>6, <4>1
    <3> QED
      BY <3>1, <3>2
  <2>8. IsKept(records, kept, m)
    BY <2>4, <2>7 DEF IsKept
  <2> QED
    BY <1>1, <2>8
<1> QED
  BY <1>2, <1>3

\* RemoveThisAndOtherUselessRecords is that result, and the records behind.
LEMMA RemoveIs ==
  ASSUME NEW records, NEW at \in Nat \ {0}
  PROVE  \E kept : /\ IsKept(records, kept, at - 1)
                   /\ RemoveThisAndOtherUselessRecords(records, at)
                        = kept[at - 1] \o SubSeq(records, at + 1, Len(records))
<1>1. PICK kept : kept = CHOOSE k : IsKept(records, k, at - 1)
  OBVIOUS
<1>2. IsKept(records, kept, at - 1)
  BY <1>1, KeptExists
<1>3. RemoveThisAndOtherUselessRecords(records, at)
        = kept[at - 1] \o SubSeq(records, at + 1, Len(records))
  BY <1>1 DEF RemoveThisAndOtherUselessRecords, IsKept, SkippedOnce
<1> QED
  BY <1>2, <1>3

\* What is kept of the first n records: in order, skipped once more, and all but useless ones.
KeptOf(records, kept, n) ==
  /\ kept \in Seq(Entry) /\ Len(kept) <= n /\ (Sorted(records) => Sorted(kept))
  /\ \A j \in DOMAIN kept : \E m \in 1..n : kept[j] = SkippedOnce(records, m)
  /\ \A m \in 1..n : records[m].skip < MaxDpb =>
       \E j \in DOMAIN kept : kept[j] = SkippedOnce(records, m)

\* A record that is skipped stays a record of the same frame.
LEMMA SkippedIs ==
  ASSUME NEW records \in Seq(Entry), NEW m \in DOMAIN records
  PROVE  /\ SkippedOnce(records, m) \in Entry
         /\ SkippedOnce(records, m).key = records[m].key
         /\ SkippedOnce(records, m).skip = records[m].skip + 1
         /\ Useless(SkippedOnce(records, m)) <=> ~(records[m].skip < MaxDpb)
<1>1. records[m] \in Entry
  BY ElementOfSeq
<1>2. SkippedOnce(records, m) = [key |-> records[m].key, skip |-> records[m].skip + 1]
  BY <1>1 DEF SkippedOnce, Entry
<1> QED
  BY <1>1, <1>2, ProfilingAssumption DEF Entry, Useless

\* One more record is looked at: it is kept once more skipped, or is useless.
LEMMA KeptStep ==
  ASSUME NEW records \in Seq(Entry), NEW n \in 1..Len(records),
         NEW kept, KeptOf(records, kept, n - 1),
         NEW next, next = IF Useless(SkippedOnce(records, n)) THEN kept
                          ELSE Append(kept, SkippedOnce(records, n))
  PROVE  KeptOf(records, next, n)
<1>1. PICK new \in Entry : new = SkippedOnce(records, n) /\ new.key = records[n].key
  BY SkippedIs
<1>2. CASE Useless(SkippedOnce(records, n))
  <2>1. next = kept /\ ~(records[n].skip < MaxDpb)
    BY <1>2, SkippedIs
  <2>2. kept \in Seq(Entry) /\ Len(kept) <= n /\ (Sorted(records) => Sorted(kept))
    BY DEF KeptOf
  <2>3. \A j \in DOMAIN kept : \E m \in 1..n : kept[j] = SkippedOnce(records, m)
    BY DEF KeptOf
  <2>4. \A m \in 1..n : records[m].skip < MaxDpb => m \in 1..n - 1
    BY <2>1
  <2>5. \A m \in 1..n : records[m].skip < MaxDpb =>
          \E j \in DOMAIN kept : kept[j] = SkippedOnce(records, m)
    BY <2>4 DEF KeptOf
  <2> QED
    BY <2>1, <2>2, <2>3, <2>5 DEF KeptOf
<1>3. CASE ~Useless(SkippedOnce(records, n))
  <2>1. kept \in Seq(Entry) /\ Len(kept) \in Nat /\ Len(kept) <= n - 1
    BY DEF KeptOf
  <2>2. next = Append(kept, new)
    BY <1>1, <1>3
  <2>3. /\ next \in Seq(Entry) /\ Len(next) = Len(kept) + 1 /\ next[Len(next)] = new
        /\ \A j \in 1..Len(kept) : next[j] = kept[j]
    BY <2>1, <2>2
  <2>4. DOMAIN next = 1..Len(kept) + 1 /\ DOMAIN kept = 1..Len(kept)
    BY <2>1, <2>3
  <2>5. \A j \in DOMAIN next : \E m \in 1..n : next[j] = SkippedOnce(records, m)
    <3> SUFFICES ASSUME NEW j \in DOMAIN next
                 PROVE  \E m \in 1..n : next[j] = SkippedOnce(records, m)
      OBVIOUS
    <3>1. CASE j = Len(kept) + 1
      BY <1>1, <2>3, <3>1
    <3>2. CASE j \in 1..Len(kept)
      <4>1. PICK m \in 1..n - 1 : kept[j] = SkippedOnce(records, m)
        BY <2>4, <3>2 DEF KeptOf
      <4> QED
        BY <2>3, <3>2, <4>1
    <3> QED
      BY <2>1, <2>4, <3>1, <3>2
  <2>6. \A m \in 1..n : records[m].skip < MaxDpb =>
          \E j \in DOMAIN next : next[j] = SkippedOnce(records, m)
    <3> SUFFICES ASSUME NEW m \in 1..n, records[m].skip < MaxDpb
                 PROVE  \E j \in DOMAIN next : next[j] = SkippedOnce(records, m)
      OBVIOUS
    <3>1. CASE m = n
      <4>1. Len(kept) + 1 \in DOMAIN next
        BY <2>1, <2>4
      <4> QED
        BY <1>1, <2>3, <3>1, <4>1
    <3>2. CASE m # n
      <4>1. PICK j \in DOMAIN kept : kept[j] = SkippedOnce(records, m)
        BY <3>2 DEF KeptOf
      <4> QED
        BY <2>1, <2>3, <2>4, <4>1
    <3> QED
      BY <3>1, <3>2
  <2>7. ASSUME Sorted(records) PROVE Sorted(next)
    <3> SUFFICES ASSUME NEW i \in DOMAIN next, NEW j \in DOMAIN next, i < j
                 PROVE  next[i].key < next[j].key
      BY DEF Sorted
    <3>1. i \in 1..Len(kept)
      BY <2>1, <2>4
    <3>2. CASE j \in 1..Len(kept)
      BY <2>3, <2>4, <2>7, <3>1, <3>2 DEF KeptOf, Sorted
    <3>3. CASE j = Len(kept) + 1
      <4>1. PICK m \in 1..n - 1 : kept[i] = SkippedOnce(records, m)
        BY <2>4, <3>1 DEF KeptOf
      <4>2. m \in DOMAIN records /\ n \in DOMAIN records /\ m < n
        OBVIOUS
      <4>3. kept[i].key = records[m].key
        BY <4>1, <4>2, SkippedIs
      <4>4. records[m].key < records[n].key
        BY <2>7, <4>2 DEF Sorted
      <4> QED
        BY <1>1, <2>3, <3>1, <3>3, <4>3, <4>4
    <3> QED
      BY <2>1, <2>4, <3>2, <3>3
  <2>8. next \in Seq(Entry) /\ Len(next) <= n
    BY <2>1, <2>3
  <2> QED
    BY <2>5, <2>6, <2>7, <2>8 DEF KeptOf
<1> QED
  BY <1>2, <1>3

\* What is kept of the first n records, for every n.
LEMMA KeptFacts ==
  ASSUME NEW records \in Seq(Entry), NEW n \in 0..Len(records),
         NEW kept, IsKept(records, kept, n)
  PROVE  KeptOf(records, kept[n], n)
<1> DEFINE Wrong == {i \in 0..n : ~KeptOf(records, kept[i], i)}
<1>1. \A i \in 0..n : kept[i] =
        IF i = 0 THEN <<>>
        ELSE IF Useless(SkippedOnce(records, i)) THEN kept[i - 1]
             ELSE Append(kept[i - 1], SkippedOnce(records, i))
  BY Zenon DEF IsKept
<1> SUFFICES ASSUME Wrong # {} PROVE FALSE
  OBVIOUS
<1>2. PICK m \in Wrong : \A i \in Wrong : m <= i
  <2>1. Wrong \subseteq Nat
    OBVIOUS
  <2> HIDE DEF Wrong
  <2> QED
    BY <2>1, SmallestNat
<1>3. CASE m = 0
  <2>1. KeptOf(records, <<>>, 0)
    BY DEF KeptOf, Sorted
  <2> QED
    BY <1>1, <1>2, <1>3, <2>1
<1>4. CASE m # 0
  <2>1. m \in 1..Len(records) /\ m - 1 \in 0..n /\ m - 1 \notin Wrong
    BY <1>2, <1>4
  <2>2. KeptOf(records, kept[m - 1], m - 1)
    BY <2>1
  <2>3. KeptOf(records, kept[m], m)
    BY <1>1, <1>4, <2>1, <2>2, KeptStep
  <2> QED
    BY <1>2, <2>3
<1> QED
  BY <1>3, <1>4

\* What is left of records in order when the one of key ends.
Remaining(records, kept, key) ==
  /\ Sorted(kept)
  /\ \A j \in DOMAIN kept : \E m \in DOMAIN records :
       /\ kept[j].key = records[m].key /\ records[m].key # key
       /\ kept[j].skip = IF records[m].key < key THEN records[m].skip + 1 ELSE records[m].skip
  /\ \A m \in DOMAIN records :
       records[m].key # key /\ (records[m].key < key => records[m].skip < MaxDpb) =>
         Has(kept, records[m].key)

\* The record that ends is the first of its key.
LEMMA FirstFound ==
  ASSUME NEW records \in Seq(Entry), NEW key, Has(records, key)
  PROVE  LET at == First(FindStartRecord(records, key))
         IN at \in DOMAIN records /\ records[at].key = key
<1> DEFINE found == FindStartRecord(records, key)
<1>1. found \subseteq DOMAIN records /\ found # {} /\ \A i \in found : records[i].key = key
  BY DEF FindStartRecord, Has
<1>2. DOMAIN records \subseteq Nat
  OBVIOUS
<1> HIDE DEF found
<1>3. \E i \in found : \A j \in found : i <= j
  BY <1>1, <1>2, SmallestNat
<1>4. First(found) \in found
  BY <1>3 DEF First
<1> QED
  BY <1>1, <1>4 DEF found

\* The other records stay in order; an earlier one is lost only when useless.
LEMMA RemainingIs ==
  ASSUME NEW records \in Seq(Entry), NEW key, Has(records, key),
         NEW left, left = RemoveThisAndOtherUselessRecords(
                            records, First(FindStartRecord(records, key)))
  PROVE  /\ left \in Seq(Entry) /\ Len(left) < Len(records)
         /\ Sorted(records) => Remaining(records, left, key)
<1>1. PICK at \in DOMAIN records : /\ at = First(FindStartRecord(records, key))
                                   /\ records[at].key = key
  BY FirstFound
<1>2. DOMAIN records = 1..Len(records) /\ Len(records) \in Nat /\ at \in Nat \ {0}
  OBVIOUS
<1>3. PICK all : /\ IsKept(records, all, at - 1)
                 /\ RemoveThisAndOtherUselessRecords(records, at)
                      = all[at - 1] \o SubSeq(records, at + 1, Len(records))
  BY <1>2, RemoveIs
<1>4. PICK before, after, kept : /\ before = all[at - 1]
                                 /\ after = SubSeq(records, at + 1, Len(records))
                                 /\ kept = before \o after
  OBVIOUS
<1>5. KeptOf(records, before, at - 1)
  BY <1>2, <1>3, <1>4, KeptFacts, SMTT(20)
<1>6. before \in Seq(Entry) /\ Len(before) \in Nat /\ Len(before) <= at - 1
  BY <1>5 DEF KeptOf
<1>7. /\ after \in Seq(Entry) /\ Len(after) = Len(records) - at
      /\ \A i \in 1..Len(after) : after[i] = records[at + i]
  BY <1>2, <1>4, SMTT(20)
<1>8. /\ kept \in Seq(Entry) /\ Len(kept) = Len(before) + Len(after)
      /\ \A i \in 1..Len(before) + Len(after) :
           kept[i] = IF i <= Len(before) THEN before[i] ELSE after[i - Len(before)]
  <2>1. before \in Seq(Entry) /\ after \in Seq(Entry)
    BY <1>6, <1>7
  <2> QED
    BY <1>4, <2>1, ConcatProperties, Zenon
<1>9. Len(kept) < Len(records) /\ DOMAIN kept = 1..Len(before) + Len(after)
  BY <1>2, <1>6, <1>7, <1>8
<1>10. \A i \in DOMAIN records : records[i].key \in Nat
  <2>1. \A i \in 1..Len(records) : records[i] \in Entry
    BY ElementOfSeq
  <2> QED
    BY <1>2, <2>1 DEF Entry
<1> SUFFICES ASSUME Sorted(records) PROVE Remaining(records, kept, key)
  BY <1>1, <1>3, <1>4, <1>8, <1>9
\* Where an entry of kept comes from.
<1>11. \A j \in 1..Len(before) : \E m \in 1..at - 1 :
         kept[j].key = records[m].key /\ kept[j].skip = records[m].skip + 1
  <2> SUFFICES ASSUME NEW j \in 1..Len(before)
               PROVE  \E m \in 1..at - 1 : /\ kept[j].key = records[m].key
                                           /\ kept[j].skip = records[m].skip + 1
    OBVIOUS
  <2>1. PICK m \in 1..at - 1 : before[j] = SkippedOnce(records, m)
    BY <1>5, <1>6 DEF KeptOf
  <2>2. kept[j] = before[j] /\ m \in DOMAIN records
    BY <1>2, <1>6, <1>7, <1>8
  <2> QED
    BY <2>1, <2>2, SkippedIs
<1>12. \A j \in Len(before) + 1..Len(kept) :
         \E n \in at + 1..Len(records) : n = at + (j - Len(before)) /\ kept[j] = records[n]
  <2> SUFFICES ASSUME NEW j \in Len(before) + 1..Len(kept)
               PROVE  \E n \in at + 1..Len(records) : /\ n = at + (j - Len(before))
                                                      /\ kept[j] = records[n]
    OBVIOUS
  <2>1. PICK i : i = j - Len(before)
    OBVIOUS
  <2>2. i \in 1..Len(after) /\ ~(j <= Len(before)) /\ j \in 1..Len(before) + Len(after)
    BY <1>6, <1>7, <1>8, <2>1
  <2>3. kept[j] = after[i]
    BY <1>8, <2>1, <2>2
  <2>4. at + i \in at + 1..Len(records)
    BY <1>2, <1>7, <2>2
  <2> QED
    BY <1>7, <2>1, <2>2, <2>3, <2>4
<1>13. \A m \in 1..at - 1 : m \in DOMAIN records /\ records[m].key < key
  BY <1>1, <1>2 DEF Sorted
<1>14. \A m \in at + 1..Len(records) : m \in DOMAIN records /\ key < records[m].key
  BY <1>1, <1>2 DEF Sorted
<1>15. key \in Nat
  BY <1>1, <1>10
<1>16. \A j \in DOMAIN kept : \E m \in DOMAIN records :
         /\ kept[j].key = records[m].key /\ records[m].key # key
         /\ kept[j].skip = IF records[m].key < key THEN records[m].skip + 1 ELSE records[m].skip
  <2> SUFFICES ASSUME NEW j \in DOMAIN kept
               PROVE  \E m \in DOMAIN records :
                        /\ kept[j].key = records[m].key /\ records[m].key # key
                        /\ kept[j].skip = IF records[m].key < key THEN records[m].skip + 1
                                          ELSE records[m].skip
    OBVIOUS
  <2>1. CASE j \in 1..Len(before)
    <3>1. PICK m \in 1..at - 1 : kept[j].key = records[m].key /\ kept[j].skip = records[m].skip + 1
      BY <1>11, <2>1
    <3>2. m \in DOMAIN records /\ records[m].key < key /\ records[m].key \in Nat
      BY <1>10, <1>13
    <3> QED
      BY <1>15, <3>1, <3>2
  <2>2. CASE j \in Len(before) + 1..Len(kept)
    <3>1. PICK m \in at + 1..Len(records) : kept[j] = records[m]
      BY <1>12, <2>2
    <3>2. m \in DOMAIN records /\ key < records[m].key /\ records[m].key \in Nat
      BY <1>10, <1>14
    <3> QED
      BY <1>15, <3>1, <3>2
  <2> QED
    BY <1>6, <1>8, <1>9, <2>1, <2>2
<1>17. Sorted(kept)
  <2> SUFFICES ASSUME NEW i \in DOMAIN kept, NEW j \in DOMAIN kept, i < j
               PROVE  kept[i].key < kept[j].key
    BY DEF Sorted
  <2>1. CASE j <= Len(before)
    <3>1. kept[i] = before[i] /\ kept[j] = before[j] /\ i \in DOMAIN before /\ j \in DOMAIN before
      BY <1>6, <1>8, <1>9, <2>1
    <3> QED
      BY <1>5, <3>1 DEF KeptOf, Sorted
  <2>2. CASE i <= Len(before) /\ j > Len(before)
    <3>1. PICK m \in 1..at - 1 : kept[i].key = records[m].key
      BY <1>9, <1>11, <2>2
    <3>2. PICK n \in at + 1..Len(records) : kept[j] = records[n]
      <4>1. j \in Len(before) + 1..Len(kept)
        BY <1>6, <1>8, <1>9, <2>2
      <4> QED
        BY <1>12, <4>1
    <3>3. records[m].key < key /\ key < records[n].key
      BY <1>13, <1>14
    <3>4. records[m].key \in Nat /\ records[n].key \in Nat
      BY <1>10, <1>13, <1>14
    <3> QED
      BY <1>15, <3>1, <3>2, <3>3, <3>4
  <2>3. CASE i > Len(before)
    <3>1. i \in Len(before) + 1..Len(kept) /\ j \in Len(before) + 1..Len(kept)
      BY <1>6, <1>8, <1>9, <2>3
    <3>2. PICK n, m \in at + 1..Len(records) : kept[i] = records[n] /\ kept[j] = records[m] /\ n < m
      <4>1. PICK n \in at + 1..Len(records) : n = at + (i - Len(before)) /\ kept[i] = records[n]
        BY <1>12, <3>1, Zenon
      <4>2. PICK m \in at + 1..Len(records) : m = at + (j - Len(before)) /\ kept[j] = records[m]
        BY <1>12, <3>1, Zenon
      <4>3. i \in Int /\ j \in Int /\ at \in Int /\ Len(before) \in Int
        BY <1>2, <1>6, <1>9
      <4>4. n < m
        BY <4>1, <4>2, <4>3
      <4> QED
        BY <4>1, <4>2, <4>4, Zenon
    <3> QED
      BY <1>14, <3>2 DEF Sorted
  <2> QED
    BY <1>6, <1>9, <2>1, <2>2, <2>3
<1>18. \A m \in DOMAIN records :
         records[m].key # key /\ (records[m].key < key => records[m].skip < MaxDpb) =>
           Has(kept, records[m].key)
  <2> SUFFICES ASSUME NEW m \in DOMAIN records, records[m].key # key,
                      records[m].key < key => records[m].skip < MaxDpb
               PROVE  \E j \in DOMAIN kept : kept[j].key = records[m].key
    BY DEF Has
  <2>1. m # at
    BY <1>1
  <2>2. CASE m < at
    <3>1. m \in 1..at - 1 /\ records[m].skip < MaxDpb
      BY <1>2, <1>13, <2>2
    <3>2. PICK j \in DOMAIN before : before[j] = SkippedOnce(records, m)
      BY <1>5, <3>1 DEF KeptOf
    <3>3. j \in DOMAIN kept /\ kept[j] = before[j]
      BY <1>6, <1>7, <1>8, <1>9, SMTT(20)
    <3> QED
      BY <3>2, <3>3, SkippedIs
  <2>3. CASE m > at
    <3>1. PICK i \in 1..Len(after) : m = at + i /\ after[i] = records[m]
      <4>1. m - at \in 1..Len(after) /\ m = at + (m - at)
        BY <1>2, <1>7, <2>3
      <4> QED
        BY <1>7, <4>1
    <3>2. PICK j \in DOMAIN kept : j = Len(before) + i
      BY <1>6, <1>7, <1>9
    <3>3. kept[j] = after[i]
      BY <1>6, <1>7, <1>8, <1>9, <3>2
    <3> QED
      BY <3>1, <3>3
  <2> QED
    BY <1>2, <2>1, <2>2, <2>3
<1> QED
  BY <1>16, <1>17, <1>18 DEF Remaining

-----------------------------------------------------------------------------
(* What a call does to the counters and records of a profiler.             *)

\* A profiler given by its fields, and what Counts says of them.
Made(e, r, o, d, c, l, s, u, f) ==
  [exists |-> e, records |-> r, ongoing |-> o, dropped |-> d, completed |-> c, latencies |-> l,
   starts |-> s, unmatched |-> u, left |-> f]

Consistent(e, r, o, d, c, l, s, u, f) ==
  /\ ~e => r = <<>>
  /\ s = l + d + Len(r) /\ o = Len(r) + f /\ c = l + u

\* A profiler whose counts are right, as a record of its fields.
LEMMA CountsIs ==
  ASSUME NEW p, Counts(p)
  PROVE  \E e \in BOOLEAN, r \in Seq(Entry), o, d, c, l, s, u, f \in Nat :
           p = Made(e, r, o, d, c, l, s, u, f) /\ Consistent(e, r, o, d, c, l, s, u, f)
<1>1. PICK e \in BOOLEAN, r \in Seq(Entry), o, d, c, l, s, u, f \in Nat :
        p = [exists |-> e, records |-> r, ongoing |-> o, dropped |-> d, completed |-> c,
             latencies |-> l, starts |-> s, unmatched |-> u, left |-> f]
  BY DEF Counts, Profiler
<1>2. Consistent(e, r, o, d, c, l, s, u, f)
  BY <1>1 DEF Counts, Consistent
<1> QED
  BY <1>1, <1>2 DEF Made

\* A profiler of a stream that is there.
There(r, o, d, c, l, s, u, f) ==
  [exists |-> TRUE, records |-> r, ongoing |-> o, dropped |-> d, completed |-> c, latencies |-> l,
   starts |-> s, unmatched |-> u, left |-> f]

\* The records of a profiler are entries.
LEMMA RecordsAre ==
  ASSUME NEW p, Counts(p)
  PROVE  p.records \in Seq(Entry)
BY DEF Counts, Profiler

\* OnStreamStart changes none of the counts.
LEMMA StreamIsThere ==
  ASSUME NEW p, Counts(p)
  PROVE  \E r \in Seq(Entry), o, d, c, l, s, u, f \in Nat :
           /\ OnStreamStart(p) = There(r, o, d, c, l, s, u, f)
           /\ s = l + d + Len(r) /\ o = Len(r) + f /\ c = l + u
           /\ p.records = r /\ p.starts = s /\ p.unmatched = u
<1>1. PICK e \in BOOLEAN, r \in Seq(Entry), o, d, c, l, s, u, f \in Nat :
        p = Made(e, r, o, d, c, l, s, u, f) /\ Consistent(e, r, o, d, c, l, s, u, f)
  BY CountsIs
<1>2. p.records = r /\ p.starts = s /\ p.unmatched = u
  BY <1>1 DEF Made
<1>3. s = l + d + Len(r) /\ o = Len(r) + f /\ c = l + u
  BY <1>1 DEF Consistent
<1>4. OnStreamStart(p) = There(r, o, d, c, l, s, u, f)
  <2>1. CASE e
    BY <1>1, <2>1 DEF OnStreamStart, Made, There
  <2>2. CASE ~e
    BY <1>1, <2>2 DEF OnStreamStart, Made, There, Consistent
  <2> QED
    BY <2>1, <2>2
<1> QED
  BY <1>2, <1>3, <1>4, Zenon

\* RecordStart keeps the counts and adds a record at the end.
LEMMA StartIs ==
  ASSUME NEW p, Counts(p), NEW key \in Nat, NEW q, q = RecordStart(p, key)
  PROVE  /\ Counts(q) /\ q.records = Append(p.records, [key |-> key, skip |-> 0])
         /\ q.starts = p.starts + 1 /\ q.unmatched = p.unmatched
<1>1. PICK r \in Seq(Entry), o, d, c, l, s, u, f \in Nat :
        /\ OnStreamStart(p) = There(r, o, d, c, l, s, u, f)
        /\ s = l + d + Len(r) /\ o = Len(r) + f /\ c = l + u
        /\ p.records = r /\ p.starts = s /\ p.unmatched = u
  BY StreamIsThere
<1>2. PICK new : new = Append(r, [key |-> key, skip |-> 0])
  OBVIOUS
<1>3. new \in Seq(Entry) /\ Len(new) = Len(r) + 1 /\ Len(r) \in Nat
  <2>1. [key |-> key, skip |-> 0] \in Entry
    BY DEF Entry
  <2> QED
    BY <1>2, <2>1, AppendProperties
<1>6. q = There(new, o + 1, d, c, l, s + 1, u, f)
  <2>1. PICK there : there = There(r, o, d, c, l, s, u, f)
    OBVIOUS
  <2>2. there.records = r /\ there.ongoing = o /\ there.starts = s
    BY <2>1 DEF There
  <2>3. q = [there EXCEPT !.records = Append(@, [key |-> key, skip |-> 0]),
                          !.ongoing = @ + 1, !.starts = @ + 1]
    BY <1>1, <2>1, Zenon DEF RecordStart
  <2>4. q = [there EXCEPT !.records = new, !.ongoing = o + 1, !.starts = s + 1]
    BY <1>2, <2>2, <2>3, Zenon
  <2>5. PICK started, ongoing : started = s + 1 /\ ongoing = o + 1
    OBVIOUS
  <2>6. q = [there EXCEPT !.records = new, !.ongoing = ongoing, !.starts = started]
    BY <2>4, <2>5, Zenon
  <2>7. q = There(new, ongoing, d, c, l, started, u, f)
    BY <2>1, <2>6 DEF There
  <2> QED
    BY <2>5, <2>7, Zenon
<1>7. s + 1 = l + d + Len(new) /\ o + 1 = Len(new) + f /\ c = l + u
  BY <1>1, <1>3
<1>8. o + 1 \in Nat /\ s + 1 \in Nat
  OBVIOUS
<1>9. /\ q.exists = TRUE /\ q.records = new /\ q.ongoing = o + 1 /\ q.dropped = d
      /\ q.completed = c /\ q.latencies = l /\ q.starts = s + 1 /\ q.unmatched = u /\ q.left = f
  BY <1>6 DEF There
<1>10. q \in Profiler
  BY <1>1, <1>3, <1>6, <1>8 DEF There, Profiler
<1>11. Counts(q)
  BY <1>7, <1>9, <1>10 DEF Counts
<1> QED
  BY <1>1, <1>2, <1>9, <1>11, Zenon

\* RecordEnd keeps the counts; it is unmatched when there is no record of the key.
LEMMA EndIs ==
  ASSUME NEW p, Counts(p), NEW key, NEW q, q = RecordEnd(p, key)
  PROVE  /\ Counts(q) /\ q.starts = p.starts
         /\ IF Has(p.records, key)
            THEN /\ q.unmatched = p.unmatched
                 /\ Sorted(p.records) => Remaining(p.records, q.records, key)
                 /\ q.records = RemoveThisAndOtherUselessRecords(
                                  p.records, First(FindStartRecord(p.records, key)))
            ELSE q.unmatched = p.unmatched + 1 /\ q.records = p.records
<1>1. PICK r \in Seq(Entry), o, d, c, l, s, u, f \in Nat :
        /\ OnStreamStart(p) = There(r, o, d, c, l, s, u, f)
        /\ s = l + d + Len(r) /\ o = Len(r) + f /\ c = l + u
        /\ p.records = r /\ p.starts = s /\ p.unmatched = u
  BY StreamIsThere
<1>4. FindStartRecord(r, key) = {} <=> ~Has(r, key)
  BY DEF FindStartRecord, Has
<1>5. PICK kept : kept = RemoveThisAndOtherUselessRecords(r, First(FindStartRecord(r, key)))
  OBVIOUS
<1>6. PICK there : there = There(r, o, d, c, l, s, u, f)
  OBVIOUS
<1>7. /\ there.records = r /\ there.ongoing = o /\ there.dropped = d /\ there.completed = c
      /\ there.latencies = l /\ there.unmatched = u
  BY <1>6 DEF There
<1>8. q = IF FindStartRecord(r, key) = {}
          THEN [there EXCEPT !.completed = c + 1, !.unmatched = u + 1]
          ELSE [there EXCEPT !.records = kept, !.ongoing = o - (Len(r) - Len(kept)),
                             !.dropped = d + (Len(r) - Len(kept)) - 1,
                             !.latencies = l + 1, !.completed = c + 1]
  <2>1. q = IF FindStartRecord(there.records, key) = {}
            THEN [there EXCEPT !.completed = @ + 1, !.unmatched = @ + 1]
            ELSE [there EXCEPT !.records = kept,
                               !.ongoing = @ - (Len(there.records) - Len(kept)),
                               !.dropped = @ + (Len(there.records) - Len(kept)) - 1,
                               !.latencies = @ + 1, !.completed = @ + 1]
    <3>1. OnStreamStart(p) = there
      BY <1>1, <1>6, Zenon
    <3>2. kept = RemoveThisAndOtherUselessRecords(
                   there.records, First(FindStartRecord(there.records, key)))
      BY <1>5, <1>7, Zenon
    <3> QED
      BY <3>1, <3>2, Zenon DEF RecordEnd
  <2> QED
    BY <1>7, <2>1, Zenon
<1>9. CASE ~Has(r, key)
  <2>2. PICK completed \in Nat, unmatched \in Nat : completed = c + 1 /\ unmatched = u + 1
    OBVIOUS
  <2>3. q = [there EXCEPT !.completed = completed, !.unmatched = unmatched]
    BY <1>4, <1>8, <1>9, <2>2, Zenon
  <2>4. q = There(r, o, d, completed, l, s, unmatched, f)
    BY <1>6, <2>3 DEF There
  <2>5. s = l + d + Len(r) /\ o = Len(r) + f /\ completed = l + unmatched
    BY <1>1, <2>2
  <2>6. /\ q.exists = TRUE /\ q.records = r /\ q.ongoing = o /\ q.dropped = d
        /\ q.completed = completed /\ q.latencies = l /\ q.starts = s
        /\ q.unmatched = unmatched /\ q.left = f
    BY <2>4 DEF There
  <2>7. q \in Profiler
    BY <1>1, <2>2, <2>4 DEF There, Profiler
  <2>8. Counts(q)
    BY <2>5, <2>6, <2>7 DEF Counts
  <2> QED
    BY <1>1, <1>9, <2>2, <2>6, <2>8
<1>10. CASE Has(r, key)
  <2>1. /\ kept \in Seq(Entry) /\ Len(kept) < Len(r)
        /\ Sorted(r) => Remaining(r, kept, key)
    BY <1>5, <1>10, RemainingIs
  <2>2. Len(kept) \in Nat /\ Len(r) \in Nat
    BY <2>1
  <2>3. PICK ongoing, dropped, completed, latencies :
               /\ ongoing = o - (Len(r) - Len(kept))
               /\ dropped = d + (Len(r) - Len(kept)) - 1
               /\ completed = c + 1 /\ latencies = l + 1
    OBVIOUS
  <2>4. /\ s = latencies + dropped + Len(kept) /\ ongoing = Len(kept) + f
        /\ completed = latencies + u
        /\ ongoing \in Nat /\ dropped \in Nat /\ completed \in Nat /\ latencies \in Nat
    BY <1>1, <2>1, <2>2, <2>3
  <2>6. q = [there EXCEPT !.records = kept, !.ongoing = ongoing, !.dropped = dropped,
                          !.latencies = latencies, !.completed = completed]
    BY <1>4, <1>8, <1>10, <2>3, Zenon
  <2>7. q = There(kept, ongoing, dropped, completed, latencies, s, u, f)
    BY <1>6, <2>6 DEF There
  <2>8. /\ q.exists = TRUE /\ q.records = kept /\ q.ongoing = ongoing /\ q.dropped = dropped
        /\ q.completed = completed /\ q.latencies = latencies /\ q.starts = s
        /\ q.unmatched = u /\ q.left = f
    BY <2>7 DEF There
  <2>9. q \in Profiler
    BY <1>1, <2>1, <2>4, <2>7 DEF There, Profiler
  <2>10. Counts(q)
    BY <2>4, <2>8, <2>9 DEF Counts
  <2> QED
    BY <1>1, <1>5, <1>10, <2>1, <2>8, <2>10
<1> QED
  BY <1>9, <1>10

\* OnStreamEos keeps the counts and turns the records that are left into drops.
LEMMA EosIs ==
  ASSUME NEW p, Counts(p), NEW q, q = OnStreamEos(p)
  PROVE  /\ Counts(q) /\ q.records = <<>> /\ q.starts = p.starts /\ q.unmatched = p.unmatched
         /\ q.completed = p.completed /\ q.ongoing = p.ongoing
         /\ q.dropped = p.dropped + Len(p.records)
<1>1. PICK e \in BOOLEAN, r \in Seq(Entry), o, d, c, l, s, u, f \in Nat :
        p = Made(e, r, o, d, c, l, s, u, f) /\ Consistent(e, r, o, d, c, l, s, u, f)
  BY CountsIs
<1>2. /\ p.records = r /\ p.starts = s /\ p.unmatched = u /\ p.completed = c /\ p.ongoing = o
      /\ p.dropped = d /\ p.exists = e
  BY <1>1 DEF Made
<1>3. CASE ~e
  <2>1. q = p /\ r = <<>>
    BY <1>1, <1>2, <1>3 DEF OnStreamEos, Consistent
  <2>2. Len(r) = 0
    BY <2>1
  <2> QED
    BY <1>2, <2>1, <2>2
<1>4. CASE e
  <2>1. PICK n \in Nat : n = Len(r)
    OBVIOUS
  <2>2. PICK dropped \in Nat, left \in Nat : dropped = d + n /\ left = f + n
    OBVIOUS
  <2>3. q = Made(FALSE, <<>>, o, dropped, c, l, s, u, left)
    <3>1. q = [p EXCEPT !.exists = FALSE, !.records = <<>>, !.dropped = @ + Len(p.records),
                        !.left = @ + Len(p.records)]
      BY <1>2, <1>4, Zenon DEF OnStreamEos
    <3>2. p.left = f
      BY <1>1 DEF Made
    <3>3. q = [p EXCEPT !.exists = FALSE, !.records = <<>>, !.dropped = dropped, !.left = left]
      BY <1>2, <2>1, <2>2, <3>1, <3>2, Zenon
    <3> QED
      BY <1>1, <3>3 DEF Made
  <2>4. /\ q.exists = FALSE /\ q.records = <<>> /\ q.ongoing = o /\ q.dropped = dropped
        /\ q.completed = c /\ q.latencies = l /\ q.starts = s /\ q.unmatched = u /\ q.left = left
    BY <2>3 DEF Made
  <2>5. <<>> \in Seq(Entry) /\ Len(<<>>) = 0
    OBVIOUS
  <2>6. q \in Profiler
    BY <2>3, <2>5 DEF Made, Profiler
  <2>7. s = l + dropped + 0 /\ o = 0 + left /\ c = l + u
    BY <1>1, <2>1, <2>2 DEF Consistent
  <2>8. Counts(q)
    BY <2>4, <2>5, <2>6, <2>7 DEF Counts
  <2> QED
    BY <1>2, <2>1, <2>2, <2>4, <2>8, Zenon
<1> QED
  BY <1>3, <1>4

-----------------------------------------------------------------------------
(* The EOS frame, and the frames in flight.                                *)

\* m is no less than the first n streams are long.
Above(n, m) == \A i \in 1..n : Frames[i] <= m

\* There is a longest stream.
LEMMA FramesAreBounded ==
  \E m \in Nat : Above(Len(Frames), m)
<1> DEFINE Unbounded == {n \in 0..Len(Frames) : \A m \in Nat : ~Above(n, m)}
<1>1. Frames \in Seq(Nat) /\ Len(Frames) \in Nat \ {0}
  BY ProfilingAssumption
<1>2. \A i \in 1..Len(Frames) : Frames[i] \in Nat
  BY <1>1
<1> SUFFICES ASSUME \A m \in Nat : ~Above(Len(Frames), m) PROVE FALSE
  OBVIOUS
<1>3. Unbounded \subseteq Nat /\ Len(Frames) \in Unbounded
  BY <1>1
<1>4. PICK n \in Unbounded : \A k \in Unbounded : n <= k
  <2> HIDE DEF Unbounded
  <2> QED
    BY <1>3, SmallestNat
<1>5. n \in 0..Len(Frames) /\ \A m \in Nat : ~Above(n, m)
  BY <1>4
<1>6. n # 0
  <2>1. Above(0, 0)
    BY DEF Above
  <2> QED
    BY <1>5, <2>1
<1>7. n \in 1..Len(Frames) /\ n - 1 \in 0..Len(Frames) /\ n - 1 < n
  BY <1>1, <1>5, <1>6
<1>8. n - 1 \notin Unbounded
  <2> HIDE DEF Unbounded
  <2>1. n - 1 \in Unbounded => n <= n - 1
    BY <1>4
  <2> QED
    BY <1>7, <2>1
<1>9. PICK m \in Nat : Above(n - 1, m)
  BY <1>7, <1>8
<1>10. PICK last \in Nat : last = Frames[n]
  BY <1>2, <1>7
<1>11. PICK top \in Nat : top >= m /\ top >= last
  <2>1. m + last \in Nat /\ m + last >= m /\ m + last >= last
    BY <1>9, <1>10
  <2> QED
    BY <2>1
<1>12. ASSUME NEW i \in 1..n PROVE Frames[i] <= top
  <2>1. PICK x \in Nat : x = Frames[i]
    BY <1>2, <1>7
  <2>2. CASE i = n
    BY <1>10, <1>11, <2>2
  <2>3. CASE i # n
    <3>1. i \in 1..n - 1
      BY <1>7, <2>3
    <3>2. x <= m
      BY <1>9, <2>1, <3>1 DEF Above
    <3> QED
      BY <1>9, <1>11, <2>1, <3>2
  <2> QED
    BY <2>2, <2>3
<1>13. Above(n, top)
  BY <1>12 DEF Above
<1> QED
  BY <1>5, <1>11, <1>13

\* The EOS frame is a frame of its own.
LEMMA EosIsLast ==
  Eos \in Nat \ {0} /\ \A i \in 1..Len(Frames) : Frames[i] \in Nat /\ Frames[i] < Eos
<1>1. Frames \in Seq(Nat) /\ Len(Frames) \in Nat \ {0} /\ DOMAIN Frames = 1..Len(Frames)
  BY ProfilingAssumption
<1>2. \A i \in 1..Len(Frames) : Frames[i] \in Nat
  BY <1>1
<1>4. PICK m \in Nat : Above(Len(Frames), m) /\ \A k \in Nat : Above(Len(Frames), k) => m <= k
  <2> DEFINE Bounds == {k \in Nat : Above(Len(Frames), k)}
  <2>1. Bounds \subseteq Nat /\ Bounds # {}
    BY FramesAreBounded
  <2>2. \E k \in Bounds : \A other \in Bounds : k <= other
    <3> HIDE DEF Bounds
    <3> QED
      BY <2>1, SmallestNat
  <2> QED
    BY <2>2
<1>5. Range(Frames) = {Frames[i] : i \in 1..Len(Frames)}
  BY <1>1 DEF Range
<1>6. \E top \in Range(Frames) : \A x \in Range(Frames) : top >= x
  <2>1. \E i \in 1..Len(Frames) : Frames[i] = m
    <3> SUFFICES ASSUME \A i \in 1..Len(Frames) : Frames[i] # m PROVE FALSE
      OBVIOUS
    <3>1. \A i \in 1..Len(Frames) : Frames[i] < m
      BY <1>2, <1>4 DEF Above
    <3>2. m - 1 \in Nat
      BY <1>1, <1>2, <3>1
    <3>3. Above(Len(Frames), m - 1)
      BY <1>2, <1>4, <3>1 DEF Above
    <3> QED
      BY <1>4, <3>2, <3>3
  <2>2. \A x \in Range(Frames) : m >= x
    BY <1>2, <1>4, <1>5 DEF Above
  <2> QED
    BY <1>5, <2>1, <2>2
<1>7. PICK top \in Range(Frames) : Max(Range(Frames)) = top /\ \A x \in Range(Frames) : top >= x
  BY <1>6 DEF Max
<1>8. top \in Nat /\ \A i \in 1..Len(Frames) : top >= Frames[i]
  BY <1>2, <1>5, <1>7
<1>9. Eos = top + 1
  BY <1>7 DEF Eos
<1> QED
  BY <1>2, <1>8, <1>9

-----------------------------------------------------------------------------
(* The records of a process whose frames leave in another order.           *)

\* A frame that is through counts as a later one for those before it.
LEMMA LaterIs ==
  ASSUME NEW gone, gone \subseteq Nat, IsFiniteSet(gone), NEW key \in Nat
  PROVE  /\ IsFiniteSet(Later(gone, key)) /\ Cardinality(Later(gone, key)) \in Nat
         /\ \A new \in Nat : new \notin gone =>
              Cardinality(Later(gone \cup {new}, key))
                = IF new > key THEN Cardinality(Later(gone, key)) + 1
                  ELSE Cardinality(Later(gone, key))
<1>1. Later(gone, key) \in SUBSET gone
  BY DEF Later
<1>2. IsFiniteSet(Later(gone, key)) /\ Cardinality(Later(gone, key)) \in Nat
  BY <1>1, FS_Subset, FS_CardinalityType
<1>3. ASSUME NEW new \in Nat, new \notin gone
      PROVE  Cardinality(Later(gone \cup {new}, key))
               = IF new > key THEN Cardinality(Later(gone, key)) + 1
                 ELSE Cardinality(Later(gone, key))
  <2>1. CASE new > key
    <3>1. Later(gone \cup {new}, key) = Later(gone, key) \cup {new} /\ new \notin Later(gone, key)
      BY <1>3, <2>1 DEF Later
    <3> QED
      BY <1>2, <2>1, <3>1, FS_AddElement
  <2>2. CASE ~(new > key)
    <3>1. Later(gone \cup {new}, key) = Later(gone, key)
      BY <2>2 DEF Later
    <3> QED
      BY <2>2, <3>1
  <2> QED
    BY <2>1, <2>2
<1> QED
  BY <1>2, <1>3

\* Of more frames, no fewer are later.
LEMMA LaterGrows ==
  ASSUME NEW gone, NEW more, gone \subseteq more, more \subseteq Nat, IsFiniteSet(more), NEW key
  PROVE  /\ IsFiniteSet(Later(gone, key)) /\ IsFiniteSet(Later(more, key))
         /\ Cardinality(Later(gone, key)) \in Nat /\ Cardinality(Later(more, key)) \in Nat
         /\ Cardinality(Later(gone, key)) <= Cardinality(Later(more, key))
<1>1. Later(more, key) \in SUBSET more /\ Later(gone, key) \in SUBSET Later(more, key)
  BY DEF Later
<1>2. IsFiniteSet(Later(more, key))
  BY <1>1, FS_Subset
<1> QED
  BY <1>1, <1>2, FS_Subset, FS_CardinalityType

\* The fields of an entry.
LEMMA EntryIs ==
  ASSUME NEW records \in Seq(Entry)
  PROVE  /\ DOMAIN records = 1..Len(records) /\ Len(records) \in Nat
         /\ \A i \in DOMAIN records : records[i].key \in Nat /\ records[i].skip \in Nat
<1>1. DOMAIN records = 1..Len(records) /\ Len(records) \in Nat
  OBVIOUS
<1>2. \A i \in 1..Len(records) : records[i] \in Entry
  BY ElementOfSeq
<1> QED
  BY <1>1, <1>2 DEF Entry

\* A frame that is new is recorded last.
LEMMA HoldsStart ==
  ASSUME NEW records \in Seq(Entry), NEW last \in Nat, NEW pending, NEW gone,
         gone \subseteq Nat, IsFiniteSet(gone),
         Sorted(records), UpTo(records, last), SkipsOf(records, pending, gone),
         HasAll(records, pending), NEW more, more = Append(records, [key |-> last + 1, skip |-> 0])
  PROVE  /\ Sorted(more) /\ UpTo(more, last + 1)
         /\ SkipsOf(more, pending \cup {last + 1}, gone) /\ HasAll(more, pending \cup {last + 1})
<1>1. PICK new \in Entry : new = [key |-> last + 1, skip |-> 0]
  BY DEF Entry
<1>2. new.key = last + 1 /\ new.skip = 0
  BY <1>1
<1>3. more = Append(records, new)
  BY <1>1
<1>4. /\ more \in Seq(Entry) /\ Len(more) = Len(records) + 1 /\ more[Len(records) + 1] = new
      /\ \A i \in 1..Len(records) : more[i] = records[i]
  BY <1>3, AppendProperties
<1>5. DOMAIN more = 1..Len(records) + 1 /\ DOMAIN records = 1..Len(records) /\ Len(records) \in Nat
  BY <1>4, EntryIs
<1>6. \A i \in DOMAIN records : records[i].key \in Nat /\ records[i].key < last + 1
  BY EntryIs DEF UpTo
<1>7. \A i \in DOMAIN more : i \in DOMAIN records \/ i = Len(records) + 1
  BY <1>5
<1>8. Sorted(more)
  BY <1>2, <1>4, <1>5, <1>6, <1>7 DEF Sorted
<1>9. UpTo(more, last + 1)
  BY <1>2, <1>4, <1>5, <1>6, <1>7 DEF UpTo
<1>10. SkipsOf(more, pending \cup {last + 1}, gone)
  <2> SUFFICES ASSUME NEW i \in DOMAIN more, more[i].key \in pending \cup {last + 1}
               PROVE  more[i].skip <= Cardinality(Later(gone, more[i].key))
    BY DEF SkipsOf
  <2>1. CASE i \in DOMAIN records
    BY <1>4, <1>5, <1>6, <2>1 DEF SkipsOf
  <2>2. CASE i = Len(records) + 1
    <3>1. more[i].skip = 0 /\ more[i].key \in Nat
      BY <1>2, <1>4, <2>2
    <3>2. Cardinality(Later(gone, more[i].key)) \in Nat
      BY <3>1, LaterIs
    <3> QED
      BY <3>1, <3>2
  <2> QED
    BY <1>7, <2>1, <2>2
<1>11. HasAll(more, pending \cup {last + 1})
  BY <1>2, <1>4, <1>5 DEF HasAll, Has
<1> QED
  BY <1>8, <1>9, <1>10, <1>11

\* A frame that leaves is one skip for those before it: none of them is lost.
LEMMA HoldsEnd ==
  ASSUME NEW records \in Seq(Entry), NEW last, NEW pending, NEW gone,
         gone \subseteq Nat, IsFiniteSet(gone), pending \subseteq Nat,
         Sorted(records), UpTo(records, last), SkipsOf(records, pending, gone),
         HasAll(records, pending), NEW key \in Nat, key \notin gone,
         \A other \in pending \ {key} :
           Cardinality(Later(gone \cup {key}, other)) <= MaxDpb,
         NEW left \in Seq(Entry), Remaining(records, left, key)
  PROVE  /\ Sorted(left) /\ UpTo(left, last)
         /\ SkipsOf(left, pending \ {key}, gone \cup {key}) /\ HasAll(left, pending \ {key})
<1>1. Sorted(left)
  BY DEF Remaining
<1>2. \A j \in DOMAIN left : \E m \in DOMAIN records :
        /\ left[j].key = records[m].key /\ records[m].key # key
        /\ left[j].skip = IF records[m].key < key THEN records[m].skip + 1 ELSE records[m].skip
  BY DEF Remaining
<1>3. \A i \in DOMAIN records : records[i].key \in Nat /\ records[i].skip \in Nat
  BY EntryIs
<1>4. UpTo(left, last)
  BY <1>2 DEF UpTo
<1>5. SkipsOf(left, pending \ {key}, gone \cup {key})
  <2> SUFFICES ASSUME NEW j \in DOMAIN left, left[j].key \in pending \ {key}
               PROVE  left[j].skip <= Cardinality(Later(gone \cup {key}, left[j].key))
    BY DEF SkipsOf
  <2>1. PICK m \in DOMAIN records :
          /\ left[j].key = records[m].key /\ records[m].key # key
          /\ left[j].skip = IF records[m].key < key THEN records[m].skip + 1 ELSE records[m].skip
    BY <1>2
  <2>2. PICK k \in Nat : k = records[m].key
    BY <1>3
  <2>3. records[m].skip <= Cardinality(Later(gone, k)) /\ records[m].skip \in Nat
    BY <1>3, <2>1, <2>2 DEF SkipsOf
  <2>4. /\ Cardinality(Later(gone, k)) \in Nat
        /\ Cardinality(Later(gone \cup {key}, k))
             = IF key > k THEN Cardinality(Later(gone, k)) + 1 ELSE Cardinality(Later(gone, k))
    BY LaterIs
  <2> QED
    BY <2>1, <2>2, <2>3, <2>4
<1>6. HasAll(left, pending \ {key})
  <2> SUFFICES ASSUME NEW other \in pending \ {key}
               PROVE  Has(left, other)
    BY DEF HasAll
  <2>1. PICK m \in DOMAIN records : records[m].key = other
    BY DEF HasAll, Has
  <2>2. records[m].key # key /\ records[m].skip \in Nat /\ other \in Nat
    BY <1>3, <2>1
  <2>3. records[m].key < key => records[m].skip < MaxDpb
    <3>1. records[m].skip <= Cardinality(Later(gone, other))
      BY <2>1 DEF SkipsOf
    <3>2. /\ Cardinality(Later(gone, other)) \in Nat
          /\ key > other => Cardinality(Later(gone \cup {key}, other))
                              = Cardinality(Later(gone, other)) + 1
      BY <2>2, LaterIs
    <3>3. Cardinality(Later(gone \cup {key}, other)) <= MaxDpb
      OBVIOUS
    <3> QED
      BY <2>1, <2>2, <3>1, <3>2, <3>3, ProfilingAssumption
  <2> QED
    BY <2>1, <2>2, <2>3 DEF Remaining
<1> QED
  BY <1>1, <1>4, <1>5, <1>6

-----------------------------------------------------------------------------
(* What a step does to the frames in flight.                               *)

\* The frames in flight are a sequence of frames.
LEMMA FlightIs ==
  ASSUME FlowTypeOK
  PROVE  /\ InLeaf \in Seq(1..Eos) /\ conveyor \in Seq(1..Eos) /\ InSource \in Seq(1..Eos)
         /\ conveyor \o InSource \in Seq(1..Eos) /\ Flight \in Seq(1..Eos)
<1>1. Eos \in 1..Eos /\ Keys \subseteq 1..Eos
  BY EosIsLast DEF Keys
<1>2. conveyor \in Seq(1..Eos)
  BY DEF FlowTypeOK
<1>3. <<>> \in Seq(1..Eos) /\ \A x \in 1..Eos : <<x>> \in Seq(1..Eos)
  OBVIOUS
<1>4. InLeaf \in Seq(1..Eos) /\ InSource \in Seq(1..Eos)
  <2>1. leaf # NoFrame => leaf \in 1..Eos
    BY EosIsLast DEF FlowTypeOK, NoFrame
  <2>2. InLeaf \in Seq(1..Eos)
    BY <1>3, <2>1, Zenon DEF InLeaf
  <2>3. SourceEnded \/ thread = <<>> \/ \E x \in 1..Eos : thread = <<x>>
    BY <1>1 DEF FlowTypeOK, SourceEnded, Between
  <2>4. InSource \in Seq(1..Eos)
    BY <1>3, <2>3, Zenon DEF InSource
  <2> QED
    BY <2>2, <2>4
<1>5. conveyor \o InSource \in Seq(1..Eos)
  BY <1>2, <1>4, ConcatProperties
<1>6. Flight \in Seq(1..Eos)
  BY <1>4, <1>5, ConcatProperties DEF Flight
<1> QED
  BY <1>2, <1>3, <1>4, <1>5, <1>6

\* A frame enters the source's SendData.
LEMMA FlightSend ==
  ASSUME FlowTypeOK, NEW x \in 1..Eos, thread = Between, thread' = <<x>>,
         leaf' = leaf, conveyor' = conveyor
  PROVE  Flight' = Append(Flight, x)
<1>1. /\ InLeaf \in Seq(1..Eos) /\ conveyor \in Seq(1..Eos)
      /\ conveyor \o InSource \in Seq(1..Eos) /\ Flight \in Seq(1..Eos)
  BY FlightIs
<1>2. <<x>> # <<Eos, Eos>> /\ <<>> # <<Eos, Eos>>
  OBVIOUS
<1>3. InSource = <<>> /\ InSource' = <<x>> /\ InLeaf' = InLeaf
  BY <1>2 DEF InSource, InLeaf, SourceEnded, Between
<1>4. conveyor \o InSource = conveyor
  BY <1>1, <1>3, ConcatEmptySeq
<1>5. Flight' = InLeaf \o (conveyor \o <<x>>) /\ Flight = InLeaf \o conveyor
  BY <1>3, <1>4 DEF Flight
<1>6. <<x>> \in Seq(1..Eos)
  OBVIOUS
<1>7. InLeaf \o (conveyor \o <<x>>) = (InLeaf \o conveyor) \o <<x>>
  BY <1>1, <1>6, ConcatAssociative
<1> QED
  BY <1>1, <1>5, <1>7, AppendIsConcat

\* It is pushed into the conveyor.
LEMMA FlightPush ==
  ASSUME FlowTypeOK, NEW x \in 1..Eos, thread = <<x>>, thread' \in {Between, <<Eos, Eos>>},
         leaf' = leaf, conveyor' = Append(conveyor, x)
  PROVE  Flight' = Flight
<1>1. conveyor \in Seq(1..Eos)
  BY FlightIs
<1>2. <<x>> # <<Eos, Eos>>
  OBVIOUS
<1>3. InSource = <<x>> /\ InSource' = <<>> /\ InLeaf' = InLeaf
  BY <1>2 DEF InSource, InLeaf, SourceEnded, Between
<1>4. Append(conveyor, x) \in Seq(1..Eos) /\ Append(conveyor, x) = conveyor \o <<x>>
  BY <1>1, AppendIsConcat, AppendProperties
<1>5. Append(conveyor, x) \o <<>> = conveyor \o <<x>>
  BY <1>4, ConcatEmptySeq
<1> QED
  BY <1>3, <1>5 DEF Flight

\* It is dropped there, as its stream has been removed.
LEMMA FlightDrop ==
  ASSUME FlowTypeOK, NEW x \in 1..Eos, thread = <<x>>, thread' = Between,
         leaf' = leaf, conveyor' = conveyor
  PROVE  Flight' \in Seq(1..Eos) /\ Flight = Append(Flight', x)
<1>1. InLeaf \in Seq(1..Eos) /\ conveyor \in Seq(1..Eos)
  BY FlightIs
<1>2. <<x>> # <<Eos, Eos>>
  OBVIOUS
<1>3. InSource = <<x>> /\ InSource' = <<>> /\ InLeaf' = InLeaf
  BY <1>2 DEF InSource, InLeaf, SourceEnded, Between
<1>4. conveyor \o <<>> = conveyor
  BY <1>1, ConcatEmptySeq
<1>5. Flight = InLeaf \o (conveyor \o <<x>>) /\ Flight' = InLeaf \o conveyor
  BY <1>3, <1>4 DEF Flight
<1>6. <<x>> \in Seq(1..Eos)
  OBVIOUS
<1>7. InLeaf \o (conveyor \o <<x>>) = (InLeaf \o conveyor) \o <<x>>
  BY <1>1, <1>6, ConcatAssociative
<1>8. InLeaf \o conveyor \in Seq(1..Eos)
  BY <1>1, ConcatProperties
<1> QED
  BY <1>5, <1>7, <1>8, AppendIsConcat

\* The leaf takes it.
LEMMA FlightPop ==
  ASSUME FlowTypeOK, leaf = NoFrame, conveyor # <<>>,
         leaf' = Head(conveyor), conveyor' = Tail(conveyor), thread' = thread
  PROVE  Flight' = Flight /\ Flight # <<>> /\ Flight[1] = Head(conveyor)
<1>1. conveyor \in Seq(1..Eos) /\ InSource \in Seq(1..Eos) /\ conveyor \o InSource \in Seq(1..Eos)
  BY FlightIs
<1>2. PICK x \in 1..Eos, rest \in Seq(1..Eos) : x = Head(conveyor) /\ rest = Tail(conveyor)
  BY <1>1, HeadTailProperties
<1>3. conveyor = <<x>> \o rest /\ <<x>> \in Seq(1..Eos)
  BY <1>1, <1>2
<1>4. InLeaf = <<>> /\ InLeaf' = <<x>> /\ InSource' = InSource
  BY <1>2 DEF InLeaf, InSource, SourceEnded, NoFrame
<1>5. Flight = conveyor \o InSource
  BY <1>1, <1>4, ConcatEmptySeq DEF Flight
<1>6. (<<x>> \o rest) \o InSource = <<x>> \o (rest \o InSource)
  BY <1>1, <1>3, ConcatAssociative
<1>7. Flight' = <<x>> \o (rest \o InSource)
  BY <1>2, <1>4 DEF Flight
<1>8. Len(conveyor) \in Nat \ {0} /\ Len(InSource) \in Nat
  BY <1>1
<1>9. Flight[1] = conveyor[1] /\ Flight # <<>>
  <2>1. 1 \in 1..Len(conveyor) + Len(InSource) /\ 1 <= Len(conveyor)
    BY <1>8
  <2>2. Len(Flight) = Len(conveyor) + Len(InSource) /\ Flight[1] = conveyor[1]
    BY <1>1, <1>5, <2>1, ConcatProperties
  <2>3. Len(Flight) # 0
    BY <1>8, <2>2
  <2> QED
    BY <2>2, <2>3, EmptySeq
<1> QED
  BY <1>1, <1>3, <1>5, <1>6, <1>7, <1>9

\* It leaves.
LEMMA FlightOut ==
  ASSUME FlowTypeOK, leaf # NoFrame, leaf' = NoFrame, conveyor' = conveyor, thread' = thread
  PROVE  /\ Flight' \in Seq(1..Eos) /\ Flight[1] = leaf /\ Len(Flight) = Len(Flight') + 1
         /\ \A i \in 1..Len(Flight') : Flight'[i] = Flight[i + 1]
<1>1. InLeaf \in Seq(1..Eos) /\ conveyor \o InSource \in Seq(1..Eos)
  BY FlightIs
<1>2. PICK rest \in Seq(1..Eos) : rest = conveyor \o InSource
  BY <1>1
<1>3. InLeaf = <<leaf>> /\ InLeaf' = <<>> /\ InSource' = InSource
  BY DEF InLeaf, InSource, SourceEnded, NoFrame
<1>4. Flight' = rest
  BY <1>2, <1>3, ConcatEmptySeq DEF Flight
<1>5. Flight = <<leaf>> \o rest /\ <<leaf>> \in Seq(1..Eos)
  BY <1>1, <1>2, <1>3 DEF Flight
<1>6. Len(<<leaf>>) = 1 /\ <<leaf>>[1] = leaf /\ Len(rest) \in Nat
  BY <1>2
<1>7. /\ Len(Flight) = 1 + Len(rest)
      /\ \A i \in 1..1 + Len(rest) : Flight[i] = IF i <= 1 THEN <<leaf>>[i] ELSE rest[i - 1]
  BY <1>2, <1>5, <1>6, ConcatProperties
<1>8. Flight[1] = leaf
  BY <1>6, <1>7
<1>9. ASSUME NEW i \in 1..Len(rest) PROVE rest[i] = Flight[i + 1]
  <2>1. i + 1 \in 1..1 + Len(rest) /\ ~(i + 1 <= 1) /\ (i + 1) - 1 = i
    BY <1>6
  <2> QED
    BY <1>7, <2>1
<1> QED
  BY <1>2, <1>4, <1>6, <1>7, <1>8, <1>9

-----------------------------------------------------------------------------
(* What a step records for a process.                                      *)

Opened(process, key) ==
  /\ profilers'[process] = RecordStart(profilers[process], key)
  /\ traced'[process] = IF life = 1 THEN RecordStart(traced[process], key) ELSE traced[process]
Finished(process, key) ==
  /\ profilers'[process] = RecordEnd(profilers[process], key)
  /\ traced'[process] = IF life = 1 THEN RecordEnd(traced[process], key) ELSE traced[process]
Closed(process) ==
  profilers'[process] = OnStreamEos(profilers[process]) /\ traced'[process] = traced[process]
Stayed(process) ==
  profilers'[process] = profilers[process] /\ traced'[process] = traced[process]
Tables == /\ profilers' = [process \in Processes |-> profilers'[process]]
          /\ traced' = [process \in Processes |-> traced'[process]]

\* What Record does to the profilers named in its events, and to the others.
LEMMA RecordIs ==
  ASSUME NEW events, Record(events), CountsInv
  PROVE  /\ Tables
         /\ \A p \in Processes : (\A ev \in events : ev.process # p) => Stayed(p)
         /\ \A p \in Processes, e \in events :
              e.process = p /\ (\A ev \in events : ev.process = p => ev = e) =>
                /\ profilers'[p] = Recorded(profilers[p], e)
                /\ traced'[p] = IF life = 1 THEN Recorded(traced[p], e) ELSE traced[p]
<1> DEFINE Of(p) == {ev \in events : ev.process = p}
           After(all) == [p \in Processes |-> IF Of(p) = {} THEN all[p]
                                              ELSE Recorded(all[p], CHOOSE e \in Of(p) : TRUE)]
<1>1. profilers' = After(profilers) /\ traced' = IF life = 1 THEN After(traced) ELSE traced
  BY DEF Record
<1>2. profilers \in [Processes -> Profiler] /\ traced \in [Processes -> Profiler]
  BY DEF CountsInv
<1>3. ASSUME NEW all
      PROVE  /\ After(all) = [p \in Processes |-> After(all)[p]]
             /\ \A p \in Processes : Of(p) = {} => After(all)[p] = all[p]
             /\ \A p \in Processes, e \in events :
                  Of(p) = {e} => After(all)[p] = Recorded(all[p], e)
  OBVIOUS
<1>4. ASSUME NEW p \in Processes
      PROVE  /\ (\A ev \in events : ev.process # p) => Of(p) = {}
             /\ \A e \in events :
                  e.process = p /\ (\A ev \in events : ev.process = p => ev = e) =>
                    Of(p) = {e}
  OBVIOUS
<1> HIDE DEF Of, After
<1>5. Tables
  <2>1. traced = [p \in Processes |-> traced[p]]
    BY <1>2
  <2>2. profilers' = [p \in Processes |-> profilers'[p]]
    BY <1>1, <1>3, Zenon
  <2>3. traced' = [p \in Processes |-> traced'[p]]
    <3>1. CASE life = 1
      BY <1>1, <1>3, <3>1, Zenon
    <3>2. CASE life # 1
      BY <1>1, <2>1, <3>2, Zenon
    <3> QED
      BY <3>1, <3>2
  <2> QED
    BY <2>2, <2>3 DEF Tables
<1>6. ASSUME NEW p \in Processes, \A ev \in events : ev.process # p PROVE Stayed(p)
  BY <1>1, <1>3, <1>4, <1>6 DEF Stayed
<1>7. ASSUME NEW p \in Processes, NEW e \in events, e.process = p,
             \A ev \in events : ev.process = p => ev = e
      PROVE  /\ profilers'[p] = Recorded(profilers[p], e)
             /\ traced'[p] = IF life = 1 THEN Recorded(traced[p], e) ELSE traced[p]
  <2>1. Of(p) = {e}
    BY <1>4, <1>7
  <2> QED
    BY <1>1, <1>3, <2>1
<1> QED
  BY <1>5, <1>6, <1>7

\* A step without events leaves the profilers alone.
LEMMA NothingRecorded ==
  ASSUME Record({}), CountsInv
  PROVE  Tables /\ \A p \in Processes : Stayed(p)
BY RecordIs

\* A step with an event for each of two processes.
LEMMA Twice ==
  ASSUME NEW p \in Processes, NEW q \in Processes, NEW e, NEW f, e.process = p, f.process = q,
         p # q \/ e = f, Record({e, f}), CountsInv
  PROVE  /\ Tables /\ \A other \in Processes : other # p /\ other # q => Stayed(other)
         /\ profilers'[p] = Recorded(profilers[p], e)
         /\ traced'[p] = IF life = 1 THEN Recorded(traced[p], e) ELSE traced[p]
         /\ profilers'[q] = Recorded(profilers[q], f)
         /\ traced'[q] = IF life = 1 THEN Recorded(traced[q], f) ELSE traced[q]
BY RecordIs

\* What a start and an end are to a profiler.
LEMMA EventIs ==
  ASSUME NEW p, NEW key
  PROVE  /\ Start(p, key).process = p /\ End(p, key).process = p
         /\ \A profiler : /\ Recorded(profiler, Start(p, key)) = RecordStart(profiler, key)
                          /\ Recorded(profiler, End(p, key)) = RecordEnd(profiler, key)
<1>1. /\ Start(p, key).process = p /\ Start(p, key).type = "START" /\ Start(p, key).key = key
      /\ End(p, key).process = p /\ End(p, key).type = "END" /\ End(p, key).key = key
  BY DEF Start, End
<1>2. "END" # "START"
  OBVIOUS
<1> QED
  BY <1>1, <1>2, Zenon DEF Recorded

\* A step with a start only.
LEMMA OneStarted ==
  ASSUME NEW p \in Processes, NEW key, Record({Start(p, key)}), CountsInv
  PROVE  Tables /\ Opened(p, key) /\ \A other \in Processes : other # p => Stayed(other)
<1>1. PICK e : e = Start(p, key)
  OBVIOUS
<1>2. Record({e, e})
  BY <1>1
<1>3. e.process = p
  BY <1>1, EventIs
<1>4. /\ Tables /\ \A other \in Processes : other # p => Stayed(other)
      /\ profilers'[p] = Recorded(profilers[p], e)
      /\ traced'[p] = IF life = 1 THEN Recorded(traced[p], e) ELSE traced[p]
  BY <1>2, <1>3, Twice
<1>5. \A profiler : Recorded(profiler, e) = RecordStart(profiler, key)
  BY <1>1, EventIs
<1> QED
  BY <1>4, <1>5, Zenon DEF Opened

\* A step with an end only.
LEMMA OneFinished ==
  ASSUME NEW p \in Processes, NEW key, Record({End(p, key)}), CountsInv
  PROVE  Tables /\ Finished(p, key) /\ \A other \in Processes : other # p => Stayed(other)
<1>1. PICK e : e = End(p, key)
  OBVIOUS
<1>2. Record({e, e})
  BY <1>1
<1>3. e.process = p
  BY <1>1, EventIs
<1>4. /\ Tables /\ \A other \in Processes : other # p => Stayed(other)
      /\ profilers'[p] = Recorded(profilers[p], e)
      /\ traced'[p] = IF life = 1 THEN Recorded(traced[p], e) ELSE traced[p]
  BY <1>2, <1>3, Twice
<1>5. \A profiler : Recorded(profiler, e) = RecordEnd(profiler, key)
  BY <1>1, EventIs
<1> QED
  BY <1>4, <1>5, Zenon DEF Finished

\* The end of a stream closes the processes it passes.
LEMMA EndStreamIs ==
  ASSUME NEW ended, EndStream(ended), CountsInv
  PROVE  Tables /\ \A p \in Processes : IF p \in ended THEN Closed(p) ELSE Stayed(p)
<1>1. /\ profilers' = [p \in Processes |-> IF p \in ended THEN OnStreamEos(profilers[p])
                                           ELSE profilers[p]]
      /\ traced' = traced
  BY DEF EndStream
<1>2. traced = [p \in Processes |-> traced[p]]
  BY DEF CountsInv
<1>3. profilers' = [p \in Processes |-> profilers'[p]]
  BY <1>1
<1>4. \A p \in Processes :
        profilers'[p] = IF p \in ended THEN OnStreamEos(profilers[p]) ELSE profilers[p]
  BY <1>1
<1> QED
  BY <1>1, <1>2, <1>3, <1>4, Zenon DEF Tables, Closed, Stayed

\* Whatever a step records, the counts stay right.
LEMMA CountsKept ==
  ASSUME CountsInv, Tables,
         \A p \in Processes : \/ Stayed(p) \/ Closed(p) \/ \E key \in Nat : Opened(p, key)
                              \/ \E key : Finished(p, key)
  PROVE  CountsInv'
<1>1. \A p \in Processes : Counts(profilers[p]) /\ Counts(traced[p])
  BY DEF CountsInv
<1>2. ASSUME NEW p \in Processes PROVE Counts(profilers'[p]) /\ Counts(traced'[p])
  <2>1. CASE Stayed(p)
    BY <1>1, <2>1 DEF Stayed
  <2>2. CASE Closed(p)
    BY <1>1, <2>2, EosIs DEF Closed
  <2>3. CASE \E key \in Nat : Opened(p, key)
    BY <1>1, <2>3, StartIs DEF Opened
  <2>4. CASE \E key : Finished(p, key)
    BY <1>1, <2>4, EndIs DEF Finished
  <2> QED
    BY <2>1, <2>2, <2>3, <2>4
<1>3. \A p \in Processes : profilers'[p] \in Profiler /\ traced'[p] \in Profiler
  BY <1>2 DEF Counts
<1>4. profilers' \in [Processes -> Profiler] /\ traced' \in [Processes -> Profiler]
  <2>1. /\ [p \in Processes |-> profilers'[p]] \in [Processes -> Profiler]
        /\ [p \in Processes |-> traced'[p]] \in [Processes -> Profiler]
    BY <1>3
  <2> QED
    BY <2>1, Zenon DEF Tables
<1> QED
  BY <1>2, <1>4 DEF CountsInv

\* The replay of the first life follows the profile, as long as no stream ends.
LEMMA ReplayKept ==
  ASSUME NEW p \in Processes, life = 1, profilers[p] = traced[p],
         \/ Stayed(p) \/ \E key : Opened(p, key) \/ Finished(p, key)
  PROVE  profilers'[p] = traced'[p]
BY DEF Stayed, Opened, Finished

\* Ends of frames that were started are matched.
LEMMA MatchedKept ==
  ASSUME CountsInv, NEW p \in Processes,
         \/ Stayed(p) \/ Closed(p) \/ \E key \in Nat : Opened(p, key)
         \/ \E key : Finished(p, key) /\ Has(profilers[p].records, key)
  PROVE  profilers'[p].unmatched = profilers[p].unmatched
<1>1. Counts(profilers[p])
  BY DEF CountsInv
<1>2. CASE Stayed(p)
  BY <1>2 DEF Stayed
<1>3. CASE Closed(p)
  BY <1>1, <1>3, EosIs DEF Closed
<1>4. CASE \E key \in Nat : Opened(p, key)
  BY <1>1, <1>4, StartIs DEF Opened
<1>5. CASE \E key : Finished(p, key) /\ Has(profilers[p].records, key)
  BY <1>1, <1>5, EndIs DEF Finished
<1> QED
  BY <1>2, <1>3, <1>4, <1>5

\* Where nothing starts, nothing is counted as started.
LEMMA UnstartedKept ==
  ASSUME CountsInv, NEW p \in Processes,
         Stayed(p) \/ Closed(p) \/ \E key : Finished(p, key)
  PROVE  profilers'[p].starts = profilers[p].starts
<1>1. Counts(profilers[p])
  BY DEF CountsInv
<1> QED
  BY <1>1, EosIs, EndIs DEF Stayed, Closed, Finished

-----------------------------------------------------------------------------
(* Every step keeps the invariant.                                         *)

\* The keys of frames, without that of the EOS frame.
LEMMA KeysAre ==
  /\ Keys \subseteq Nat \ {0} /\ Keys \subseteq 1..Eos /\ Eos \notin Keys /\ IsFiniteSet(Keys)
  /\ Eos \in 1..Eos /\ \A key \in Keys : key < Eos /\ key <= Eos
BY EosIsLast, FS_Interval DEF Keys

\* The range of a sequence.
LEMMA RangeIs ==
  ASSUME NEW S, NEW s \in Seq(S)
  PROVE  /\ DOMAIN s = 1..Len(s) /\ Len(s) \in Nat
         /\ Range(s) = {s[i] : i \in 1..Len(s)} /\ Range(s) \subseteq S
         /\ \A x \in S : Range(Append(s, x)) = Range(s) \cup {x}
<1>1. DOMAIN s = 1..Len(s) /\ Len(s) \in Nat
  OBVIOUS
<1>2. Range(s) = {s[i] : i \in 1..Len(s)} /\ Range(s) \subseteq S
  BY <1>1, ElementOfSeq DEF Range
<1>3. ASSUME NEW x \in S PROVE Range(Append(s, x)) = Range(s) \cup {x}
  <2>1. PICK t : t = Append(s, x)
    OBVIOUS
  <2>2. /\ t \in Seq(S) /\ DOMAIN t = 1..Len(s) + 1 /\ t[Len(s) + 1] = x
        /\ \A i \in 1..Len(s) : t[i] = s[i]
    BY <2>1
  <2>3. \A i \in 1..Len(s) + 1 : i \in 1..Len(s) \/ i = Len(s) + 1
    BY <1>1
  <2>4. Range(t) \subseteq Range(s) \cup {x}
    BY <1>2, <2>2, <2>3 DEF Range
  <2>5. Range(s) \cup {x} \subseteq Range(t)
    <3>1. Len(s) + 1 \in DOMAIN t /\ \A i \in 1..Len(s) : i \in DOMAIN t
      BY <1>1, <2>2
    <3> QED
      BY <1>2, <2>2, <3>1 DEF Range
  <2> QED
    BY <2>1, <2>4, <2>5
<1> QED
  BY <1>1, <1>2, <1>3

\* A frame appended is in the range.
LEMMA RangeAppended ==
  ASSUME NEW s \in Seq(1..Eos), NEW x \in 1..Eos, NEW t, t = Append(s, x)
  PROVE  Range(t) = Range(s) \cup {x}
<1>1. PICK S : S = 1..Eos
  OBVIOUS
<1>2. s \in Seq(S) /\ x \in S
  BY <1>1
<1> QED
  BY <1>2, RangeIs

\* The frames in flight do not change when their places do not.
LEMMA FlightStays ==
  ASSUME leaf' = leaf, conveyor' = conveyor, thread' = thread
  PROVE  Flight' = Flight
BY DEF Flight, InLeaf, InSource, SourceEnded, NoFrame

\* Where the frames are, as sets.
LEMMA PlacesAre ==
  ASSUME FlowTypeOK
  PROVE  /\ Flight \in Seq(1..Eos) /\ DOMAIN Flight = 1..Len(Flight) /\ Len(Flight) \in Nat
         /\ inDecoder \subseteq Nat /\ sent \subseteq Nat /\ IsFiniteSet(sent)
         /\ Through \subseteq sent /\ Through \subseteq Nat /\ IsFiniteSet(Through)
         /\ parsed \in Nat
<1>1. Flight \in Seq(1..Eos) /\ DOMAIN Flight = 1..Len(Flight) /\ Len(Flight) \in Nat
  BY FlightIs, RangeIs
<1>2. inDecoder \subseteq Keys /\ sent \subseteq Keys /\ parsed \in 0..Eos
  BY DEF FlowTypeOK
<1>3. IsFiniteSet(sent) /\ Through \in SUBSET sent
  BY <1>2, KeysAre, FS_Subset DEF Through
<1>4. Through \subseteq sent /\ IsFiniteSet(Through)
  BY <1>3, FS_Subset
<1>5. inDecoder \subseteq Nat /\ sent \subseteq Nat /\ Through \subseteq Nat
  BY <1>2, <1>4, KeysAre
<1>6. parsed \in Nat
  BY <1>2, EosIsLast
<1> QED
  BY <1>1, <1>3, <1>4, <1>5, <1>6

\* A packet that is read starts two processes, or none.
LEMMA ReadPacketIs ==
  ASSUME ProfilingInv, ReadPacket
  PROVE  /\ parsed + 1 \in Keys /\ parsed < Eos /\ parsed \in Nat /\ Tables
         /\ IF recorded
            THEN /\ Opened(SourceProcess, parsed + 1) /\ Opened(Overall, parsed + 1)
                 /\ Stayed(LeafInput) /\ Stayed(LeafProcess)
            ELSE \A p \in Processes : Stayed(p)
<1>1. life \in 1..Len(Frames) /\ parsed \in 0..Eos /\ parsed < Frames[life]
  BY DEF ProfilingInv, FlowTypeOK, ReadPacket
<1>2. parsed + 1 \in Keys /\ parsed < Eos /\ parsed \in Nat
  BY <1>1, EosIsLast DEF Keys
<1>3. CountsInv
  BY DEF ProfilingInv
<1>4. CASE ~recorded
  BY <1>2, <1>3, <1>4, NothingRecorded DEF ReadPacket
<1>5. CASE recorded
  <2>1. PICK e, f : e = Start(SourceProcess, parsed + 1) /\ f = Start(Overall, parsed + 1)
    OBVIOUS
  <2>2. Record({e, f})
    BY <1>5, <2>1 DEF ReadPacket
  <2>3. e.process = SourceProcess /\ f.process = Overall
    BY <2>1, EventIs
  <2>4. /\ SourceProcess \in Processes /\ Overall \in Processes /\ LeafInput \in Processes
        /\ LeafProcess \in Processes /\ SourceProcess # Overall
        /\ LeafInput # SourceProcess /\ LeafInput # Overall
        /\ LeafProcess # SourceProcess /\ LeafProcess # Overall
    BY DEF Processes, SourceProcess, Overall, LeafInput, LeafProcess
  <2>5. /\ Tables /\ Stayed(LeafInput) /\ Stayed(LeafProcess)
        /\ profilers'[SourceProcess] = Recorded(profilers[SourceProcess], e)
        /\ traced'[SourceProcess]
             = IF life = 1 THEN Recorded(traced[SourceProcess], e) ELSE traced[SourceProcess]
        /\ profilers'[Overall] = Recorded(profilers[Overall], f)
        /\ traced'[Overall] = IF life = 1 THEN Recorded(traced[Overall], f) ELSE traced[Overall]
    BY <1>3, <2>2, <2>3, <2>4, Twice
  <2>6. \A profiler : /\ Recorded(profiler, e) = RecordStart(profiler, parsed + 1)
                      /\ Recorded(profiler, f) = RecordStart(profiler, parsed + 1)
    BY <2>1, EventIs
  <2>7. Opened(SourceProcess, parsed + 1) /\ Opened(Overall, parsed + 1)
    BY <2>5, <2>6, Zenon DEF Opened
  <2> QED
    BY <1>2, <1>5, <2>5, <2>7
<1> QED
  BY <1>4, <1>5

\* The processes are four.
LEMMA ProcessesAre ==
  /\ Processes = {Overall, SourceProcess, LeafInput, LeafProcess}
  /\ SourceProcess # Overall /\ LeafInput # SourceProcess /\ LeafInput # Overall
  /\ LeafProcess # SourceProcess /\ LeafProcess # Overall /\ LeafProcess # LeafInput
BY DEF Processes, SourceProcess, Overall, LeafInput, LeafProcess

\* A packet is read.
LEMMA ReadPacketKeeps ==
  ASSUME ProfilingInv, ReadPacket, recorded' = recorded
  PROVE  ProfilingInv'
<1>1. /\ parsed + 1 \in Keys /\ parsed < Eos /\ parsed \in Nat /\ Tables
      /\ IF recorded
         THEN /\ Opened(SourceProcess, parsed + 1) /\ Opened(Overall, parsed + 1)
              /\ Stayed(LeafInput) /\ Stayed(LeafProcess)
         ELSE \A p \in Processes : Stayed(p)
  BY ReadPacketIs
<1>2. PICK new \in Keys : new = parsed + 1 /\ new \in Nat /\ new # Eos /\ parsed # Eos
  BY <1>1, KeysAre
<1>3. /\ thread = Between /\ parsed' = new /\ inDecoder' = inDecoder \cup {new}
      /\ life' = life /\ sent' = sent /\ thread' = thread /\ removed' = removed
      /\ conveyor' = conveyor /\ leaf' = leaf /\ early' = early
  BY <1>2 DEF ReadPacket
<1>4. FlowTypeOK /\ CountsInv /\ EndInv /\ MatchedInv /\ ReplayInv
  BY DEF ProfilingInv
<1>5. Flight' = Flight
  BY <1>3, FlightStays
<1>6. FlowTypeOK'
  BY <1>2, <1>3, <1>4, KeysAre, EosIsLast DEF FlowTypeOK
<1>7. \A p \in Processes : Stayed(p) \/ \E key \in Nat : Opened(p, key)
  BY <1>1, <1>2, ProcessesAre
<1>8. CountsInv'
  BY <1>1, <1>4, <1>7, CountsKept
<1>9. EndInv'
  BY <1>2, <1>3, <1>4 DEF EndInv, Between
<1>10. MatchedInv'
  <2> SUFFICES ASSUME NEW p \in Processes
               PROVE  IF Recording(p) THEN ~early => profilers'[p].unmatched = 0
                      ELSE profilers'[p].starts = 0
    BY <1>3 DEF MatchedInv, Recording
  <2>1. profilers'[p].unmatched = profilers[p].unmatched
    BY <1>4, <1>7, MatchedKept
  <2>2. ~Recording(p) => Stayed(p)
    BY <1>1 DEF Recording
  <2> QED
    BY <1>4, <2>1, <2>2 DEF MatchedInv, Stayed
<1>11. ReplayInv'
  <2> SUFFICES ASSUME life = 1, NEW p \in Processes PROVE profilers'[p] = traced'[p]
    BY <1>2, <1>3 DEF ReplayInv, Ended
  <2>1. profilers[p] = traced[p]
    BY <1>2, <1>4 DEF ReplayInv, Ended
  <2> QED
    BY <1>7, <2>1, ReplayKept
<1>12. ASSUME ~early PROVE OrderInv'
  <2>1. OrderInv
    BY <1>12 DEF ProfilingInv
  <2>2. new \notin sent /\ new \notin inDecoder
    BY <1>1, <1>2, <2>1 DEF OrderInv, OneByOne
  <2>3. OneByOne'
    <3>1. inDecoder' \cup sent' \subseteq 1..parsed' /\ inDecoder' \cap sent' = {}
      BY <1>1, <1>2, <1>3, <2>1, <2>2 DEF OrderInv, OneByOne
    <3>2. \A i \in DOMAIN Flight : Flight[i] # Eos /\ Flight[i] \in sent
      BY <1>2, <2>1 DEF OrderInv, OneByOne
    <3>3. \A i, j \in DOMAIN Flight : Flight[i] = Flight[j] => i = j
      BY <2>1 DEF OrderInv, OneByOne
    <3> QED
      BY <1>3, <1>5, <3>1, <3>2, <3>3 DEF OneByOne
  <2>4. Through' = Through /\ \A i : InFront(i)' = InFront(i)
    BY <1>3, <1>5 DEF Through, InFront
  <2>5. Overtaken(new) = 0
    <3>1. {other \in sent : other > new} = {}
      BY <1>1, <1>2, <2>1 DEF OrderInv, OneByOne
    <3> QED
      BY <3>1, FS_EmptySet DEF Overtaken
  <2>6. ~removed => NotOvertaken'
    <3> SUFFICES ASSUME ~removed PROVE NotOvertaken'
      OBVIOUS
    <3>1. NotOvertaken
      BY <2>1 DEF OrderInv
    <3>2. \A key \in inDecoder' : Overtaken(key) <= Reorder
      BY <1>3, <2>5, <3>1, ProfilingAssumption DEF NotOvertaken
    <3>3. \A key : Overtaken(key)' = Overtaken(key)
      BY <1>3 DEF Overtaken
    <3> QED
      BY <1>5, <2>4, <3>1, <3>2, <3>3 DEF NotOvertaken
  <2> QED
    BY <1>3, <2>3, <2>6 DEF OrderInv
<1>13. ASSUME ~early PROVE RecordsInv'
  <2>1. OrderInv /\ RecordsInv
    BY <1>13 DEF ProfilingInv
  <2>2. /\ Flight \in Seq(1..Eos) /\ sent \subseteq Nat /\ IsFiniteSet(sent)
        /\ Through \subseteq Nat /\ IsFiniteSet(Through)
    BY <1>4, PlacesAre
  <2>3. ASSUME NEW p \in {SourceProcess, Overall}, recorded, NEW pending,
               NEW gone, gone \subseteq Nat, IsFiniteSet(gone),
               Holds(profilers[p].records, pending, gone)
        PROVE  /\ Sorted(profilers'[p].records) /\ UpTo(profilers'[p].records, new)
               /\ SkipsOf(profilers'[p].records, pending \cup {new}, gone)
               /\ HasAll(profilers'[p].records, pending \cup {new})
    <3>1. Counts(profilers[p]) /\ Opened(p, new)
      BY <1>1, <1>2, <1>4, <2>3, ProcessesAre DEF CountsInv
    <3>2. profilers[p].records \in Seq(Entry)
      BY <3>1, RecordsAre
    <3>3. profilers'[p].records = Append(profilers[p].records, [key |-> parsed + 1, skip |-> 0])
      BY <1>2, <3>1, StartIs DEF Opened
    <3> QED
      BY <1>1, <1>2, <2>3, <3>2, <3>3, HoldsStart DEF Holds
  <2>4. ASSUME recorded, ~removed PROVE SourceHolds' /\ OverallHolds'
    <3>1. InPipeline' = InPipeline \cup {new} /\ Through' = Through
      BY <1>2, <1>3, <1>5 DEF InPipeline, Through
    <3>2. SourceHolds /\ OverallHolds
      BY <2>1, <2>4 DEF RecordsInv
    <3>3. SourceHolds'
      BY <1>3, <2>2, <2>3, <2>4, <3>2 DEF SourceHolds, Holds
    <3>4. OverallHolds'
      BY <1>3, <2>2, <2>3, <2>4, <3>1, <3>2 DEF OverallHolds, Holds
    <3> QED
      BY <3>3, <3>4
  <2>5. Stayed(LeafInput) /\ Stayed(LeafProcess)
    BY <1>1, ProcessesAre
  <2>6. InputHolds'
    BY <1>3, <2>1, <2>5 DEF RecordsInv, InputHolds, Stayed
  <2>7. ~removed => LeafHolds'
    BY <1>3, <2>1, <2>5 DEF RecordsInv, LeafHolds, Stayed
  <2> QED
    BY <1>3, <2>4, <2>6, <2>7 DEF RecordsInv
<1> QED
  BY <1>3, <1>6, <1>8, <1>9, <1>10, <1>11, <1>12, <1>13 DEF ProfilingInv

\* A step that records nothing keeps the counts and, unless it ends a process, the replay.
LEMMA QuietKeeps ==
  ASSUME ProfilingInv, profilers' = profilers, traced' = traced, recorded' = recorded,
         life' = life, early' = early,
         \A p \in Processes : life = 1 => (Ended(p)' <=> Ended(p))
  PROVE  CountsInv' /\ MatchedInv' /\ ReplayInv'
<1>1. CountsInv /\ MatchedInv /\ ReplayInv
  BY DEF ProfilingInv
<1>2. CountsInv'
  BY <1>1 DEF CountsInv
<1>3. MatchedInv'
  BY <1>1 DEF MatchedInv, Recording
<1>4. ReplayInv'
  BY <1>1 DEF ReplayInv
<1> QED
  BY <1>2, <1>3, <1>4

\* A picture is lost: nothing ends its records.
LEMMA LosePictureKeeps ==
  ASSUME ProfilingInv, LosePicture, recorded' = recorded
  PROVE  ProfilingInv'
<1>1. /\ inDecoder' \subseteq inDecoder /\ thread = Between
      /\ profilers' = profilers /\ traced' = traced /\ life' = life /\ parsed' = parsed
      /\ sent' = sent /\ thread' = thread /\ removed' = removed
      /\ conveyor' = conveyor /\ leaf' = leaf /\ early' = early
  BY DEF LosePicture
<1>2. FlowTypeOK /\ EndInv
  BY DEF ProfilingInv
<1>3. Flight' = Flight
  BY <1>1, FlightStays
<1>4. FlowTypeOK'
  BY <1>1, <1>2 DEF FlowTypeOK
<1>5. parsed # Eos
  BY <1>1, <1>2 DEF EndInv, Between
<1>6. CountsInv' /\ MatchedInv' /\ ReplayInv'
  <2>1. \A p \in Processes : Ended(p)' <=> Ended(p)
    BY <1>1, <1>3 DEF Ended
  <2> QED
    BY <1>1, <2>1, QuietKeeps
<1>7. EndInv'
  BY <1>1, <1>2, <1>5 DEF EndInv
<1>8. ASSUME ~early PROVE OrderInv' /\ RecordsInv'
  <2>1. OrderInv /\ RecordsInv
    BY <1>8 DEF ProfilingInv
  <2>2. Through' = Through /\ \A i : InFront(i)' = InFront(i)
    BY <1>1, <1>3 DEF Through, InFront
  <2>3. \A key : Overtaken(key)' = Overtaken(key)
    BY <1>1 DEF Overtaken
  <2>4. OneByOne'
    BY <1>1, <1>3, <2>1 DEF OrderInv, OneByOne
  <2>5. ~removed => NotOvertaken'
    BY <1>1, <1>3, <2>1, <2>2, <2>3 DEF OrderInv, NotOvertaken
  <2>6. ASSUME recorded, ~removed PROVE SourceHolds' /\ OverallHolds'
    <3>1. SourceHolds /\ OverallHolds
      BY <2>1, <2>6 DEF RecordsInv
    <3>2. InPipeline' \subseteq InPipeline
      BY <1>1, <1>3 DEF InPipeline
    <3> QED
      BY <1>1, <2>2, <3>1, <3>2 DEF SourceHolds, OverallHolds, Holds, SkipsOf, HasAll
  <2>7. InputHolds' /\ (~removed => LeafHolds')
    BY <1>1, <2>1 DEF RecordsInv, InputHolds, LeafHolds
  <2> QED
    BY <1>1, <2>1, <2>4, <2>5, <2>6, <2>7 DEF OrderInv, RecordsInv
<1> QED
  BY <1>1, <1>4, <1>6, <1>7, <1>8 DEF ProfilingInv

\* The stream is removed: from here on frames go unrecorded.
LEMMA ForceRemoveKeeps ==
  ASSUME ProfilingInv, ForceRemove, recorded' = recorded
  PROVE  ProfilingInv'
<1>1. /\ removed' = TRUE /\ inDecoder' = inDecoder
      /\ profilers' = profilers /\ traced' = traced /\ life' = life /\ parsed' = parsed
      /\ sent' = sent /\ thread' = thread
      /\ conveyor' = conveyor /\ leaf' = leaf /\ early' = early
  BY DEF ForceRemove
<1>2. FlowTypeOK /\ EndInv
  BY DEF ProfilingInv
<1>3. Flight' = Flight
  BY <1>1, FlightStays
<1>4. FlowTypeOK'
  BY <1>1, <1>2 DEF FlowTypeOK
<1>5. CountsInv' /\ MatchedInv' /\ ReplayInv'
  <2>1. \A p \in Processes : Ended(p)' <=> Ended(p)
    BY <1>1, <1>3 DEF Ended
  <2> QED
    BY <1>1, <2>1, QuietKeeps
<1>6. EndInv'
  BY <1>1, <1>2, <1>3 DEF EndInv
<1>7. ASSUME ~early PROVE OrderInv' /\ RecordsInv'
  <2>1. OrderInv /\ RecordsInv
    BY <1>7 DEF ProfilingInv
  <2>2. OneByOne'
    BY <1>1, <1>3, <2>1 DEF OrderInv, OneByOne
  <2>3. InputHolds'
    BY <1>1, <2>1 DEF RecordsInv, InputHolds
  <2> QED
    BY <1>1, <2>2, <2>3 DEF OrderInv, RecordsInv
<1> QED
  BY <1>1, <1>4, <1>5, <1>6, <1>7 DEF ProfilingInv

\* The EOS frame enters the conveyor.
LEMMA PushEosKeeps ==
  ASSUME ProfilingInv, PushEos, recorded' = recorded
  PROVE  ProfilingInv'
<1>1. /\ thread = <<Eos>> /\ thread' = <<Eos, Eos>> /\ conveyor' = Append(conveyor, Eos)
      /\ profilers' = profilers /\ traced' = traced /\ life' = life /\ parsed' = parsed
      /\ inDecoder' = inDecoder /\ sent' = sent /\ removed' = removed
      /\ leaf' = leaf /\ early' = early
  BY DEF PushEos
<1>2. FlowTypeOK /\ EndInv
  BY DEF ProfilingInv
<1>3. Flight' = Flight
  <2>1. Eos \in 1..Eos
    BY KeysAre
  <2> QED
    BY <1>1, <1>2, <2>1, FlightPush
<1>4. conveyor \in Seq(1..Eos) /\ conveyor' \in Seq(1..Eos)
  <2>1. conveyor \in Seq(1..Eos) /\ Eos \in 1..Eos
    BY <1>2, KeysAre DEF FlowTypeOK
  <2> QED
    BY <1>1, <2>1, AppendProperties
<1>5. FlowTypeOK'
  BY <1>1, <1>2, <1>4 DEF FlowTypeOK
<1>6. CountsInv' /\ MatchedInv' /\ ReplayInv'
  <2>1. \A p \in Processes : Ended(p)' <=> Ended(p)
    BY <1>1, <1>3 DEF Ended
  <2> QED
    BY <1>1, <2>1, QuietKeeps
<1>7. EndInv'
  BY <1>1, <1>2, <1>3 DEF EndInv
<1>8. ASSUME ~early PROVE OrderInv' /\ RecordsInv'
  <2>1. OrderInv /\ RecordsInv
    BY <1>8 DEF ProfilingInv
  <2>2. Through' = Through /\ \A i : InFront(i)' = InFront(i)
    BY <1>1, <1>3 DEF Through, InFront
  <2>3. \A key : Overtaken(key)' = Overtaken(key)
    BY <1>1 DEF Overtaken
  <2>4. OneByOne'
    BY <1>1, <1>3, <2>1 DEF OrderInv, OneByOne
  <2>5. ~removed => NotOvertaken'
    BY <1>1, <1>3, <2>1, <2>2, <2>3 DEF OrderInv, NotOvertaken
  <2>6. ASSUME recorded, ~removed PROVE SourceHolds' /\ OverallHolds'
    <3>1. SourceHolds /\ OverallHolds
      BY <2>1, <2>6 DEF RecordsInv
    <3>2. InPipeline' = InPipeline
      BY <1>1, <1>3 DEF InPipeline
    <3> QED
      BY <1>1, <2>2, <3>1, <3>2 DEF SourceHolds, OverallHolds, Holds
  <2>7. InputHolds'
    <3>1. PICK records : records = profilers[LeafInput].records
      OBVIOUS
    <3>2. /\ DOMAIN records = {i \in DOMAIN conveyor : conveyor[i] # Eos}
          /\ \A i \in DOMAIN records : records[i].key = conveyor[i]
      BY <2>1, <3>1 DEF RecordsInv, InputHolds
    <3>3. PICK n \in Nat : n = Len(conveyor)
      BY <1>4
    <3>4. /\ DOMAIN conveyor = 1..n /\ DOMAIN conveyor' = 1..n + 1
          /\ \A i \in 1..n : conveyor'[i] = conveyor[i]
          /\ conveyor'[n + 1] = Eos
      BY <1>1, <1>4, <3>3
    <3>5. DOMAIN records = {i \in DOMAIN conveyor' : conveyor'[i] # Eos}
      <4>1. \A i \in 1..n + 1 : i \in 1..n \/ i = n + 1
        OBVIOUS
      <4> QED
        BY <3>2, <3>4, <4>1
    <3>6. \A i \in DOMAIN records : records[i].key = conveyor'[i]
      BY <3>2, <3>4
    <3> QED
      BY <1>1, <3>1, <3>5, <3>6 DEF InputHolds
  <2>8. ~removed => LeafHolds'
    BY <1>1, <2>1 DEF RecordsInv, LeafHolds
  <2> QED
    BY <1>1, <2>1, <2>4, <2>5, <2>6, <2>7, <2>8 DEF OrderInv, RecordsInv
<1> QED
  BY <1>1, <1>5, <1>6, <1>7, <1>8 DEF ProfilingInv

\* The name is added again: early, unless nothing is left of its stream.
LEMMA AddAgainKeeps ==
  ASSUME ProfilingInv, AddAgain, recorded' = recorded
  PROVE  ProfilingInv'
<1>1. /\ SourceEnded /\ life < Len(Frames) /\ life' = life + 1 /\ parsed' = 0 /\ sent' = {}
      /\ thread' = Between /\ removed' = FALSE /\ early' = (early \/ ~EosIsThrough)
      /\ profilers' = profilers /\ traced' = traced /\ inDecoder' = inDecoder
      /\ conveyor' = conveyor /\ leaf' = leaf
  BY DEF AddAgain
<1>2. FlowTypeOK /\ EndInv /\ CountsInv /\ MatchedInv
  BY DEF ProfilingInv
<1>3. parsed = Eos /\ inDecoder = {}
  BY <1>1, <1>2 DEF EndInv, SourceEnded
<1>4. life' \in 1..Len(Frames) /\ life' # 1
  <2>1. life \in 1..Len(Frames) /\ Len(Frames) \in Nat
    BY <1>2, ProfilingAssumption DEF FlowTypeOK
  <2> QED
    BY <1>1, <2>1
<1>5. FlowTypeOK'
  <2>1. early' \in BOOLEAN
    BY <1>1, <1>2 DEF FlowTypeOK
  <2>2. 0 \in 0..Eos
    BY EosIsLast
  <2> QED
    BY <1>1, <1>2, <1>4, <2>1, <2>2 DEF FlowTypeOK
<1>6. CountsInv'
  BY <1>1, <1>2 DEF CountsInv
<1>7. MatchedInv'
  BY <1>1, <1>2 DEF MatchedInv, Recording
<1>8. ReplayInv'
  BY <1>4 DEF ReplayInv
<1>9. parsed' # Eos /\ thread' # <<Eos>> /\ thread' # <<Eos, Eos>>
  BY <1>1, EosIsLast DEF Between
<1>10. EndInv'
  BY <1>4, <1>9 DEF EndInv
<1>11. ASSUME ~early' PROVE OrderInv' /\ RecordsInv'
  <2>1. conveyor = <<>> /\ leaf = NoFrame
    BY <1>1, <1>11 DEF EosIsThrough
  <2>2. Flight = <<>> /\ Flight' = <<>>
    <3>1. InLeaf = <<>> /\ InLeaf' = <<>> /\ InSource = <<>> /\ InSource' = <<>>
      BY <1>1, <2>1 DEF InLeaf, InSource, SourceEnded, Between, NoFrame
    <3> QED
      BY <1>1, <2>1, <3>1 DEF Flight
  <2>3. \A p \in Processes : profilers[p].records = <<>>
    BY <1>2, <1>3, <2>2 DEF EndInv
  <2>4. OrderInv'
    BY <1>1, <1>3, <2>2 DEF OrderInv, OneByOne, NotOvertaken
  <2>5. InPipeline' = {} /\ inDecoder' = {}
    BY <1>1, <1>3, <2>2 DEF InPipeline, Range
  <2>6. SourceHolds' /\ OverallHolds'
    <3>1. \A p \in {SourceProcess, Overall} : profilers'[p].records = <<>>
      BY <1>1, <2>3, ProcessesAre
    <3> QED
      BY <2>5, <3>1 DEF SourceHolds, OverallHolds, Holds, Sorted, UpTo, SkipsOf, HasAll
  <2>7. InputHolds' /\ LeafHolds'
    <3>1. \A p \in {LeafInput, LeafProcess} : profilers'[p].records = <<>>
      BY <1>1, <2>3, ProcessesAre
    <3>2. NoFrame \notin Keys
      BY DEF NoFrame, Keys
    <3> QED
      BY <1>1, <2>1, <3>1, <3>2 DEF InputHolds, LeafHolds
  <2> QED
    BY <2>4, <2>6, <2>7 DEF RecordsInv
<1> QED
  BY <1>5, <1>6, <1>7, <1>8, <1>10, <1>11 DEF ProfilingInv

\* A frame that is sent is behind all that are in flight.
LEMMA SendDataKeeps ==
  ASSUME ProfilingInv, SendData, recorded' = recorded
  PROVE  ProfilingInv'
<1>1. PICK key \in inDecoder :
        /\ MayLeave(key) /\ inDecoder' = inDecoder \ {key} /\ sent' = sent \cup {key}
        /\ IF removed THEN thread' = Between /\ Record({})
           ELSE thread' = <<key>> /\ Record({End(SourceProcess, key)})
  BY DEF SendData
<1>2. /\ thread = Between /\ life' = life /\ parsed' = parsed /\ removed' = removed
      /\ conveyor' = conveyor /\ leaf' = leaf /\ early' = early
  BY DEF SendData
<1>3. FlowTypeOK /\ CountsInv /\ EndInv /\ MatchedInv /\ ReplayInv
  BY DEF ProfilingInv
<1>4. key \in Keys /\ key \in Nat /\ key \in 1..Eos /\ key # Eos
  BY <1>3, KeysAre DEF FlowTypeOK
<1>5. parsed # Eos
  BY <1>2, <1>3 DEF EndInv, Between
<1>6. /\ Flight \in Seq(1..Eos) /\ DOMAIN Flight = 1..Len(Flight) /\ Len(Flight) \in Nat
      /\ sent \subseteq Nat /\ IsFiniteSet(sent) /\ inDecoder \subseteq Nat
      /\ Through \subseteq Nat /\ IsFiniteSet(Through) /\ Through \subseteq sent
  BY <1>3, PlacesAre
<1>7. Flight' = IF removed THEN Flight ELSE Append(Flight, key)
  <2>1. CASE removed
    BY <1>1, <1>2, <2>1, FlightStays
  <2>2. CASE ~removed
    BY <1>1, <1>2, <1>3, <1>4, <2>2, FlightSend
  <2> QED
    BY <2>1, <2>2
<1>8. /\ Tables /\ \A p \in Processes : p # SourceProcess => Stayed(p)
      /\ IF removed THEN Stayed(SourceProcess) ELSE Finished(SourceProcess, key)
  <2>1. CASE removed
    BY <1>1, <1>3, <2>1, NothingRecorded, ProcessesAre
  <2>2. CASE ~removed
    BY <1>1, <1>3, <2>2, OneFinished, ProcessesAre
  <2> QED
    BY <2>1, <2>2
<1>9. FlowTypeOK'
  <2>1. thread' \in {Between} \cup {<<k>> : k \in Keys}
    BY <1>1, <1>4
  <2> QED
    BY <1>1, <1>2, <1>3, <1>4, <2>1 DEF FlowTypeOK
<1>10. CountsInv'
  BY <1>3, <1>8, CountsKept
<1>11. EndInv'
  <2>1. thread' # <<Eos>> /\ thread' # <<Eos, Eos>>
    <3>1. <<key>> # <<Eos>> /\ <<key>> # <<Eos, Eos>> /\ <<>> # <<Eos>> /\ <<>> # <<Eos, Eos>>
      BY <1>4
    <3> QED
      BY <1>1, <3>1 DEF Between
  <2> QED
    BY <1>2, <1>3, <1>5, <2>1 DEF EndInv
<1>12. MatchedInv'
  <2> SUFFICES ASSUME NEW p \in Processes
               PROVE  IF Recording(p) THEN ~early => profilers'[p].unmatched = 0
                      ELSE profilers'[p].starts = 0
    BY <1>2 DEF MatchedInv, Recording
  <2>1. CASE ~Recording(p)
    <3>1. profilers'[p].starts = profilers[p].starts
      BY <1>3, <1>8, UnstartedKept
    <3> QED
      BY <1>3, <2>1, <3>1 DEF MatchedInv
  <2>2. CASE Recording(p) /\ ~early
    <3>1. p = SourceProcess /\ ~removed => Has(profilers[p].records, key)
      BY <2>2, ProcessesAre DEF ProfilingInv, RecordsInv, SourceHolds, Holds, HasAll, Recording
    <3>2. profilers'[p].unmatched = profilers[p].unmatched
      BY <1>3, <1>8, <3>1, MatchedKept
    <3> QED
      BY <1>3, <2>2, <3>2 DEF MatchedInv
  <2> QED
    BY <2>1, <2>2
<1>13. ReplayInv'
  <2> SUFFICES ASSUME life = 1, NEW p \in Processes PROVE profilers'[p] = traced'[p]
    BY <1>2, <1>5 DEF ReplayInv, Ended
  <2>1. profilers[p] = traced[p]
    BY <1>5, <1>3 DEF ReplayInv, Ended
  <2> QED
    BY <1>8, <2>1, ReplayKept
<1>14. ASSUME ~early PROVE OrderInv'
  <2>1. OneByOne /\ (~removed => NotOvertaken)
    BY <1>14 DEF ProfilingInv, OrderInv
  <2>2. /\ \A i \in DOMAIN Flight : Flight[i] # Eos /\ Flight[i] \in sent
        /\ \A i, j \in DOMAIN Flight : Flight[i] = Flight[j] => i = j
        /\ inDecoder \cap sent = {} /\ inDecoder \cup sent \subseteq 1..parsed
    BY <1>5, <2>1 DEF OneByOne
  <2>3. key \notin sent /\ \A i \in DOMAIN Flight : Flight[i] # key
    BY <2>2
  <2>4. inDecoder' \cap sent' = {} /\ inDecoder' \cup sent' \subseteq 1..parsed
    BY <1>1, <2>2
  <2>5. CASE removed
    <3>1. OneByOne'
      BY <1>1, <1>2, <1>7, <2>2, <2>4, <2>5 DEF OneByOne
    <3> QED
      BY <1>2, <2>5, <3>1 DEF OrderInv
  <2>6. CASE ~removed
    <3>1. PICK n \in Nat : n = Len(Flight)
      BY <1>6
    <3>2. /\ DOMAIN Flight' = 1..n + 1 /\ Len(Flight') = n + 1 /\ Flight'[n + 1] = key
          /\ \A i \in 1..n : Flight'[i] = Flight[i]
      BY <1>4, <1>6, <1>7, <2>6, <3>1, AppendProperties
    <3>3. DOMAIN Flight = 1..n /\ \A i \in 1..n + 1 : i \in 1..n \/ i = n + 1
      BY <1>6, <3>1
    <3>4. \A i, j \in DOMAIN Flight' : Flight'[i] = Flight'[j] => i = j
      BY <2>2, <2>3, <3>2, <3>3
    <3>5. \A i \in DOMAIN Flight' : Flight'[i] # Eos /\ Flight'[i] \in sent'
      BY <1>1, <1>4, <2>2, <3>2, <3>3
    <3>6. OneByOne'
      BY <1>2, <2>4, <3>4, <3>5 DEF OneByOne
    <3>7. Range(Flight') = Range(Flight) \cup {key}
      <4>1. PICK before, after : before = Flight /\ after = Flight'
        OBVIOUS
      <4>2. before \in Seq(1..Eos) /\ after = Append(before, key)
        BY <1>6, <1>7, <2>6, <4>1
      <4>3. Range(after) = Range(before) \cup {key}
        BY <1>4, <4>2, RangeAppended
      <4> QED
        BY <4>1, <4>3
    <3>8. Through' = Through
      BY <1>1, <2>3, <3>7 DEF Through
    <3>9. \A i \in 1..n : InFront(i)' = InFront(i)
      <4> SUFFICES ASSUME NEW i \in 1..n PROVE InFront(i)' = InFront(i)
        OBVIOUS
      <4>1. \A j \in 1..i - 1 : Flight'[j] = Flight[j]
        BY <3>2
      <4>2. {Flight'[j] : j \in 1..i - 1} = {Flight[j] : j \in 1..i - 1}
        BY <4>1
      <4> QED
        BY <3>8, <4>2 DEF InFront
    <3>10. InFront(n + 1)' \subseteq sent
      <4>1. \A j \in 1..(n + 1) - 1 : Flight'[j] \in sent
        BY <2>2, <3>2, <3>3
      <4> QED
        BY <1>6, <3>8, <4>1 DEF InFront
    <3>11. NotOvertaken
      BY <2>1, <2>6
    <3>12. Cardinality(Later(InFront(n + 1)', key)) <= Reorder
      <4>1. /\ Cardinality(Later(InFront(n + 1)', key)) <= Cardinality(Later(sent, key))
            /\ Cardinality(Later(InFront(n + 1)', key)) \in Nat
            /\ Cardinality(Later(sent, key)) \in Nat
        BY <1>6, <3>10, LaterGrows
      <4>2. Cardinality(Later(sent, key)) <= Reorder
        BY <3>11 DEF NotOvertaken, Overtaken, Later
      <4> QED
        BY <4>1, <4>2, ProfilingAssumption
    <3>13. ASSUME NEW i \in DOMAIN Flight'
           PROVE  Cardinality(Later(InFront(i)', Flight'[i])) <= Reorder
      <4>1. CASE i = n + 1
        BY <3>2, <3>12, <4>1
      <4>2. CASE i \in 1..n
        BY <2>2, <3>2, <3>3, <3>9, <3>11, <4>2 DEF NotOvertaken
      <4> QED
        BY <3>2, <3>3, <4>1, <4>2
    <3>14. ASSUME NEW other \in inDecoder' PROVE Overtaken(other)' <= Reorder
      <4>1. other \in inDecoder /\ other # key /\ other \in Nat
        BY <1>1, <1>6, <3>14
      <4>2. Overtaken(other) \in Nat /\ Overtaken(other)' = IF key > other THEN Overtaken(other) + 1
                                                           ELSE Overtaken(other)
        BY <1>1, <1>4, <1>6, <2>3, <4>1, LaterIs DEF Overtaken, Later
      <4>3. Overtaken(other) <= Reorder
        BY <3>11, <4>1 DEF NotOvertaken
      <4>4. other < key => Overtaken(other) < Reorder
        BY <1>1, <4>1 DEF MayLeave
      <4> QED
        BY <1>4, <4>1, <4>2, <4>3, <4>4, ProfilingAssumption
    <3>15. NotOvertaken'
      BY <3>13, <3>14 DEF NotOvertaken
    <3> QED
      BY <3>6, <3>15 DEF OrderInv
  <2> QED
    BY <2>5, <2>6
<1>15. ASSUME ~early PROVE RecordsInv'
  <2>1. OrderInv /\ RecordsInv /\ OrderInv'
    BY <1>14, <1>15 DEF ProfilingInv
  <2>2. /\ key \notin sent /\ \A i \in DOMAIN Flight : Flight[i] \in sent
    BY <1>5, <2>1 DEF OrderInv, OneByOne
  <2>3. ASSUME recorded, ~removed PROVE SourceHolds'
    <3>1. SourceHolds /\ NotOvertaken'
      BY <1>2, <2>1, <2>3 DEF RecordsInv, OrderInv
    <3>2. PICK records : records = profilers[SourceProcess].records
      OBVIOUS
    <3>3. PICK rest : rest = profilers'[SourceProcess].records
      OBVIOUS
    <3>4. Counts(profilers[SourceProcess]) /\ Has(records, key) /\ Sorted(records)
      BY <1>3, <3>1, <3>2, ProcessesAre DEF CountsInv, SourceHolds, Holds, HasAll
    <3>5. Counts(profilers'[SourceProcess]) /\ Remaining(records, rest, key)
      BY <1>8, <2>3, <3>2, <3>3, <3>4, EndIs DEF Finished
    <3>6. records \in Seq(Entry) /\ rest \in Seq(Entry)
      BY <3>2, <3>3, <3>4, <3>5, RecordsAre
    <3>7. \A other \in inDecoder \ {key} : Cardinality(Later(sent \cup {key}, other)) <= MaxDpb
      <4> SUFFICES ASSUME NEW other \in inDecoder \ {key}
                   PROVE  Cardinality(Later(sent \cup {key}, other)) <= MaxDpb
        OBVIOUS
      <4>1. Overtaken(other)' <= Reorder
        BY <1>1, <3>1 DEF NotOvertaken
      <4>2. Overtaken(other)' = Cardinality(Later(sent \cup {key}, other))
        BY <1>1 DEF Overtaken, Later
      <4>3. Cardinality(Later(sent \cup {key}, other)) \in Nat
        <5>1. IsFiniteSet(sent \cup {key})
          BY <1>6, FS_AddElement
        <5>2. sent \cup {key} \subseteq Nat
          BY <1>4, <1>6
        <5> QED
          BY <5>1, <5>2, LaterGrows
      <4> QED
        BY <4>1, <4>2, <4>3, ProfilingAssumption
    <3>8. UpTo(records, parsed) /\ SkipsOf(records, inDecoder, sent) /\ HasAll(records, inDecoder)
      BY <3>1, <3>2 DEF SourceHolds, Holds
    <3>9. /\ Sorted(rest) /\ UpTo(rest, parsed)
          /\ SkipsOf(rest, inDecoder \ {key}, sent \cup {key}) /\ HasAll(rest, inDecoder \ {key})
      BY <1>4, <1>6, <2>2, <3>4, <3>5, <3>6, <3>7, <3>8, HoldsEnd
    <3> QED
      BY <1>1, <1>2, <3>3, <3>9 DEF SourceHolds, Holds
  <2>4. ASSUME recorded, ~removed PROVE OverallHolds'
    <3>1. Range(Flight') = Range(Flight) \cup {key}
      <4>1. PICK before, after : before = Flight /\ after = Flight'
        OBVIOUS
      <4>2. before \in Seq(1..Eos) /\ after = Append(before, key)
        BY <1>6, <1>7, <2>4, <4>1
      <4>3. Range(after) = Range(before) \cup {key}
        BY <1>4, <4>2, RangeAppended
      <4> QED
        BY <4>1, <4>3
    <3>2. key \notin Range(Flight)
      BY <2>2 DEF Range
    <3>3. Through' = Through /\ InPipeline' = InPipeline
      <4>1. PICK flying, more : flying = Range(Flight) /\ more = Range(Flight')
        OBVIOUS
      <4>2. /\ Through = sent \ flying /\ Through' = sent' \ more
            /\ InPipeline = inDecoder \cup (flying \ {Eos})
            /\ InPipeline' = inDecoder' \cup (more \ {Eos})
        BY <4>1 DEF Through, InPipeline, Eos
      <4>3. more = flying \cup {key} /\ key \notin flying
        BY <3>1, <3>2, <4>1
      <4> QED
        BY <1>1, <1>4, <2>2, <4>2, <4>3
    <3>4. OverallHolds /\ Stayed(Overall)
      BY <1>8, <2>1, <2>4, ProcessesAre DEF RecordsInv
    <3> QED
      BY <1>2, <3>3, <3>4 DEF OverallHolds, Holds, Stayed
  <2>5. Stayed(LeafInput) /\ Stayed(LeafProcess)
    BY <1>8, ProcessesAre
  <2>6. InputHolds' /\ (~removed => LeafHolds')
    BY <1>2, <2>1, <2>5 DEF RecordsInv, InputHolds, LeafHolds, Stayed
  <2> QED
    BY <1>2, <2>3, <2>4, <2>6 DEF RecordsInv
<1> QED
  BY <1>2, <1>9, <1>10, <1>11, <1>12, <1>13, <1>14, <1>15 DEF ProfilingInv

\* The frames of the conveyor are in flight.
LEMMA ConveyorInFlight ==
  ASSUME FlowTypeOK
  PROVE  /\ Len(conveyor) \in Nat /\ Len(conveyor) <= Len(Flight)
         /\ \A i \in DOMAIN conveyor : \E j \in DOMAIN Flight : Flight[j] = conveyor[i]
<1>1. /\ InLeaf \in Seq(1..Eos) /\ conveyor \in Seq(1..Eos) /\ InSource \in Seq(1..Eos)
      /\ conveyor \o InSource \in Seq(1..Eos) /\ Flight \in Seq(1..Eos)
  BY FlightIs
<1>2. PICK l, c, s, back \in Nat : /\ l = Len(InLeaf) /\ c = Len(conveyor) /\ s = Len(InSource)
                                   /\ back = Len(conveyor \o InSource)
  BY <1>1
<1>3. PICK behind : behind = conveyor \o InSource
  OBVIOUS
<1>4. back = c + s /\ \A i \in 1..c : behind[i] = conveyor[i]
  BY <1>1, <1>2, <1>3, ConcatProperties
<1>5. /\ Len(Flight) = l + back
      /\ \A i \in 1..l + back : Flight[i] = IF i <= l THEN InLeaf[i] ELSE behind[i - l]
  BY <1>1, <1>2, <1>3, ConcatProperties DEF Flight
<1>6. ASSUME NEW i \in 1..c PROVE \E j \in DOMAIN Flight : Flight[j] = conveyor[i]
  <2>1. l + i \in 1..l + back /\ ~(l + i <= l) /\ (l + i) - l = i
    BY <1>2, <1>4
  <2>2. Flight[l + i] = conveyor[i]
    BY <1>4, <1>5, <2>1
  <2>3. DOMAIN Flight = 1..l + back
    BY <1>1, <1>5
  <2> QED
    BY <2>1, <2>2, <2>3
<1>7. DOMAIN conveyor = 1..c
  BY <1>1, <1>2
<1> QED
  BY <1>2, <1>4, <1>5, <1>6, <1>7

\* A frame enters the conveyor, or is dropped as its stream is removed.
LEMMA TransmitToLeafKeeps ==
  ASSUME ProfilingInv, TransmitToLeaf, recorded' = recorded
  PROVE  ProfilingInv'
<1>1. PICK key \in Keys : thread = <<key>>
  BY DEF TransmitToLeaf, Keys
<1>2. /\ IF removed THEN Record({}) /\ conveyor' = conveyor
         ELSE Record({Start(LeafInput, key)}) /\ conveyor' = Append(conveyor, key)
      /\ thread' = Between /\ life' = life /\ parsed' = parsed /\ inDecoder' = inDecoder
      /\ sent' = sent /\ removed' = removed /\ leaf' = leaf /\ early' = early
  BY <1>1 DEF TransmitToLeaf
<1>3. FlowTypeOK /\ CountsInv /\ EndInv /\ MatchedInv /\ ReplayInv
  BY DEF ProfilingInv
<1>4. key \in Nat /\ key \in 1..Eos /\ key # Eos
  BY KeysAre
<1>5. parsed # Eos
  <2>1. <<key>> # <<Eos>> /\ <<key>> # <<Eos, Eos>>
    BY <1>4
  <2> QED
    BY <1>1, <1>3, <2>1 DEF EndInv
<1>6. conveyor \in Seq(1..Eos) /\ conveyor' \in Seq(1..Eos)
  <2>1. conveyor \in Seq(1..Eos)
    BY <1>3 DEF FlowTypeOK
  <2>2. Append(conveyor, key) \in Seq(1..Eos)
    BY <1>4, <2>1, AppendProperties
  <2> QED
    BY <1>2, <2>1, <2>2
<1>7. IF removed THEN Flight' \in Seq(1..Eos) /\ Flight = Append(Flight', key)
      ELSE Flight' = Flight
  <2>1. CASE removed
    BY <1>1, <1>2, <1>3, <1>4, <2>1, FlightDrop
  <2>2. CASE ~removed
    BY <1>1, <1>2, <1>3, <1>4, <2>2, FlightPush
  <2> QED
    BY <2>1, <2>2
<1>8. /\ Tables /\ \A p \in Processes : p # LeafInput => Stayed(p)
      /\ IF removed THEN Stayed(LeafInput) ELSE Opened(LeafInput, key)
  <2>1. CASE removed
    BY <1>2, <1>3, <2>1, NothingRecorded, ProcessesAre
  <2>2. CASE ~removed
    BY <1>2, <1>3, <2>2, OneStarted, ProcessesAre
  <2> QED
    BY <2>1, <2>2
<1>9. FlowTypeOK'
  BY <1>2, <1>3, <1>6 DEF FlowTypeOK
<1>10. \A p \in Processes : Stayed(p) \/ \E k \in Nat : Opened(p, k)
  BY <1>4, <1>8
<1>11. CountsInv'
  BY <1>3, <1>8, <1>10, CountsKept
<1>12. EndInv'
  <2>1. thread' # <<Eos>> /\ thread' # <<Eos, Eos>>
    BY <1>2 DEF Between
  <2> QED
    BY <1>2, <1>3, <1>5, <2>1 DEF EndInv
<1>13. MatchedInv'
  <2> SUFFICES ASSUME NEW p \in Processes
               PROVE  IF Recording(p) THEN ~early => profilers'[p].unmatched = 0
                      ELSE profilers'[p].starts = 0
    BY <1>2 DEF MatchedInv, Recording
  <2>1. profilers'[p].unmatched = profilers[p].unmatched
    BY <1>3, <1>10, MatchedKept
  <2>2. ~Recording(p) => Stayed(p)
    BY <1>8 DEF Recording
  <2> QED
    BY <1>3, <2>1, <2>2 DEF MatchedInv, Stayed
<1>14. ReplayInv'
  <2> SUFFICES ASSUME life = 1, NEW p \in Processes PROVE profilers'[p] = traced'[p]
    BY <1>2, <1>5 DEF ReplayInv, Ended
  <2>1. profilers[p] = traced[p]
    BY <1>5, <1>3 DEF ReplayInv, Ended
  <2> QED
    BY <1>10, <2>1, ReplayKept
<1>15. ASSUME ~early PROVE OrderInv' /\ RecordsInv'
  <2>1. OrderInv /\ RecordsInv
    BY <1>15 DEF ProfilingInv
  <2>2. /\ \A i \in DOMAIN Flight : Flight[i] # Eos /\ Flight[i] \in sent
        /\ \A i, j \in DOMAIN Flight : Flight[i] = Flight[j] => i = j
        /\ inDecoder \cap sent = {} /\ inDecoder \cup sent \subseteq 1..parsed
    BY <1>5, <2>1 DEF OrderInv, OneByOne
  <2>3. CASE removed
    <3>1. PICK n \in Nat : n = Len(Flight')
      BY <1>7, <2>3
    <3>2. /\ DOMAIN Flight' = 1..n /\ DOMAIN Flight = 1..n + 1
          /\ \A i \in 1..n : Flight'[i] = Flight[i]
      BY <1>4, <1>7, <2>3, <3>1, AppendProperties
    <3>3. OneByOne'
      BY <1>2, <2>2, <3>2 DEF OneByOne
    <3>4. InputHolds'
      BY <1>2, <1>8, <2>1, <2>3 DEF RecordsInv, InputHolds, Stayed
    <3> QED
      BY <1>2, <2>3, <3>3, <3>4 DEF OrderInv, RecordsInv
  <2>4. CASE ~removed
    <3>1. Flight' = Flight
      BY <1>7, <2>4
    <3>2. Through' = Through /\ \A i : InFront(i)' = InFront(i)
      BY <1>2, <3>1 DEF Through, InFront
    <3>3. \A k : Overtaken(k)' = Overtaken(k)
      BY <1>2 DEF Overtaken
    <3>4. OneByOne' /\ NotOvertaken'
      BY <1>2, <2>1, <2>4, <3>1, <3>2, <3>3 DEF OrderInv, OneByOne, NotOvertaken
    <3>5. InPipeline' = InPipeline
      BY <1>2, <3>1 DEF InPipeline
    <3>6. Stayed(SourceProcess) /\ Stayed(Overall) /\ Stayed(LeafProcess)
      BY <1>8, ProcessesAre
    <3>7. recorded => SourceHolds' /\ OverallHolds'
      BY <1>2, <2>1, <2>4, <3>2, <3>5, <3>6
      DEF RecordsInv, SourceHolds, OverallHolds, Holds, Stayed
    <3>8. LeafHolds'
      BY <1>2, <2>1, <2>4, <3>6 DEF RecordsInv, LeafHolds, Stayed
    <3>9. InputHolds'
      <4>1. PICK records, more : /\ records = profilers[LeafInput].records
                                 /\ more = profilers'[LeafInput].records
        OBVIOUS
      <4>2. Counts(profilers[LeafInput]) /\ Opened(LeafInput, key)
        BY <1>3, <1>8, <2>4, ProcessesAre DEF CountsInv
      <4>3. records \in Seq(Entry) /\ more = Append(records, [key |-> key, skip |-> 0])
        BY <1>4, <4>1, <4>2, StartIs, RecordsAre DEF Opened
      <4>4. \A i \in DOMAIN conveyor : conveyor[i] # Eos
        BY <1>3, <2>2, ConveyorInFlight
      <4>5. /\ DOMAIN records = {i \in DOMAIN conveyor : conveyor[i] # Eos}
            /\ \A i \in DOMAIN records : records[i].key = conveyor[i]
        BY <2>1, <4>1 DEF RecordsInv, InputHolds
      <4>6. PICK n \in Nat : n = Len(conveyor) /\ DOMAIN conveyor = 1..n
        BY <1>6
      <4>7. Len(records) = n
        <5>1. DOMAIN records = 1..n
          BY <4>4, <4>5, <4>6
        <5>2. DOMAIN records = 1..Len(records) /\ Len(records) \in Nat
          BY <4>3
        <5> QED
          BY <5>1, <5>2
      <4>8. PICK new \in Entry : new = [key |-> key, skip |-> 0] /\ new.key = key
        <5>1. [key |-> key, skip |-> 0] \in Entry
          BY <1>4 DEF Entry
        <5>2. [key |-> key, skip |-> 0].key = key
          OBVIOUS
        <5> QED
          BY <5>1, <5>2
      <4>9. /\ DOMAIN more = 1..n + 1 /\ more[n + 1] = new
            /\ \A i \in 1..n : more[i] = records[i]
        BY <4>3, <4>7, <4>8, AppendProperties
      <4>10. /\ DOMAIN conveyor' = 1..n + 1 /\ conveyor'[n + 1] = key
             /\ \A i \in 1..n : conveyor'[i] = conveyor[i]
        BY <1>2, <1>4, <1>6, <2>4, <4>6, AppendProperties
      <4>11. \A i \in 1..n + 1 : i \in 1..n \/ i = n + 1
        OBVIOUS
      <4>12. DOMAIN more = {i \in DOMAIN conveyor' : conveyor'[i] # Eos}
        BY <1>4, <4>4, <4>6, <4>9, <4>10, <4>11
      <4>13. \A i \in DOMAIN more : more[i].key = conveyor'[i]
        BY <4>4, <4>5, <4>6, <4>8, <4>9, <4>10, <4>11
      <4> QED
        BY <4>1, <4>12, <4>13 DEF InputHolds
    <3> QED
      BY <1>2, <3>4, <3>7, <3>8, <3>9 DEF OrderInv, RecordsInv
  <2> QED
    BY <2>3, <2>4
<1> QED
  BY <1>2, <1>9, <1>11, <1>12, <1>13, <1>14, <1>15 DEF ProfilingInv

\* The end of the stream closes the process of the source.
LEMMA SendEosKeeps ==
  ASSUME ProfilingInv, SendEos, recorded' = recorded
  PROVE  ProfilingInv'
<1>1. /\ thread = Between /\ inDecoder = {} /\ parsed # Eos /\ thread' = <<Eos>> /\ parsed' = Eos
      /\ EndStream({SourceProcess}) /\ life' = life /\ inDecoder' = inDecoder /\ sent' = sent
      /\ removed' = removed /\ conveyor' = conveyor /\ leaf' = leaf /\ early' = early
  BY DEF SendEos
<1>2. FlowTypeOK /\ CountsInv /\ EndInv /\ MatchedInv /\ ReplayInv
  BY DEF ProfilingInv
<1>3. Eos \in 1..Eos /\ Eos \in 0..Eos
  BY EosIsLast
<1>4. /\ Flight \in Seq(1..Eos) /\ DOMAIN Flight = 1..Len(Flight) /\ Len(Flight) \in Nat
      /\ parsed \in Nat /\ sent \subseteq Keys
  BY <1>2, PlacesAre DEF FlowTypeOK
<1>5. Flight' = Append(Flight, Eos)
  BY <1>1, <1>2, <1>3, FlightSend
<1>6. /\ Tables /\ Closed(SourceProcess)
      /\ \A p \in Processes : p # SourceProcess => Stayed(p)
  BY <1>1, <1>2, EndStreamIs, ProcessesAre
<1>7. Counts(profilers[SourceProcess]) /\ profilers'[SourceProcess].records = <<>>
  BY <1>2, <1>6, EosIs, ProcessesAre DEF CountsInv, Closed
<1>8. FlowTypeOK'
  BY <1>1, <1>2, <1>3 DEF FlowTypeOK
<1>9. CountsInv'
  BY <1>2, <1>6, CountsKept
<1>10. PICK n \in Nat : n = Len(Flight)
  BY <1>4
<1>11. /\ DOMAIN Flight = 1..n /\ DOMAIN Flight' = 1..n + 1 /\ Len(Flight') = n + 1
       /\ Flight'[n + 1] = Eos /\ Flight' # <<>> /\ \A i \in 1..n : Flight'[i] = Flight[i]
  BY <1>3, <1>4, <1>5, <1>10, AppendProperties
<1>12. EndInv'
  BY <1>1, <1>2, <1>7, <1>11 DEF EndInv
<1>13. MatchedInv'
  <2> SUFFICES ASSUME NEW p \in Processes
               PROVE  IF Recording(p) THEN ~early => profilers'[p].unmatched = 0
                      ELSE profilers'[p].starts = 0
    BY <1>1 DEF MatchedInv, Recording
  <2>1. /\ profilers'[p].unmatched = profilers[p].unmatched
        /\ profilers'[p].starts = profilers[p].starts
    BY <1>2, <1>6, MatchedKept, UnstartedKept
  <2> QED
    BY <1>2, <2>1 DEF MatchedInv
<1>14. ReplayInv'
  <2> SUFFICES ASSUME life = 1, NEW p \in Processes
               PROVE  profilers'[p] = IF p = SourceProcess THEN OnStreamEos(traced'[p]) ELSE traced'[p]
    BY <1>1, <1>11 DEF ReplayInv, Ended
  <2>1. profilers[p] = traced[p]
    BY <1>1, <1>2 DEF ReplayInv, Ended
  <2> QED
    BY <1>6, <2>1 DEF Closed, Stayed
<1>15. ASSUME ~early PROVE OrderInv' /\ RecordsInv'
  <2>1. OrderInv /\ RecordsInv
    BY <1>15 DEF ProfilingInv
  <2>2. /\ \A i \in DOMAIN Flight : Flight[i] # Eos /\ Flight[i] \in sent
        /\ \A i, j \in DOMAIN Flight : Flight[i] = Flight[j] => i = j
    BY <1>1, <2>1 DEF OrderInv, OneByOne
  <2>3. \A i \in 1..n + 1 : i \in 1..n \/ i = n + 1
    OBVIOUS
  <2>4. \A i, j \in DOMAIN Flight' : Flight'[i] = Flight'[j] => i = j
    BY <1>11, <2>2, <2>3
  <2>5. \A i \in DOMAIN Flight' : IF Flight'[i] = Eos THEN i = n + 1 ELSE Flight'[i] \in sent
    BY <1>11, <2>2, <2>3
  <2>6. OneByOne'
    BY <1>1, <1>11, <2>4, <2>5 DEF OneByOne
  <2>7. Range(Flight') = Range(Flight) \cup {Eos}
    BY <1>3, <1>4, <1>5, RangeAppended
  <2>8. Through' = Through /\ InPipeline' = InPipeline
    <3>1. PICK flying, more : flying = Range(Flight) /\ more = Range(Flight')
      OBVIOUS
    <3>2. /\ Through = sent \ flying /\ Through' = sent' \ more
          /\ InPipeline = inDecoder \cup (flying \ {Eos})
          /\ InPipeline' = inDecoder' \cup (more \ {Eos})
      BY <3>1 DEF Through, InPipeline, Eos
    <3>3. more = flying \cup {Eos} /\ Eos \notin sent
      BY <1>4, <2>7, <3>1, KeysAre
    <3> QED
      BY <1>1, <3>2, <3>3
  <2>9. \A i \in 1..n : InFront(i)' = InFront(i)
    <3> SUFFICES ASSUME NEW i \in 1..n PROVE InFront(i)' = InFront(i)
      OBVIOUS
    <3>1. \A j \in 1..i - 1 : Flight'[j] = Flight[j]
      BY <1>11
    <3>2. {Flight'[j] : j \in 1..i - 1} = {Flight[j] : j \in 1..i - 1}
      BY <3>1
    <3> QED
      BY <2>8, <3>2 DEF InFront
  <2>10. ~removed => NotOvertaken'
    <3> SUFFICES ASSUME ~removed PROVE NotOvertaken'
      OBVIOUS
    <3>1. NotOvertaken
      BY <2>1 DEF OrderInv
    <3>2. ASSUME NEW i \in DOMAIN Flight', Flight'[i] # Eos
          PROVE  Cardinality(Later(InFront(i)', Flight'[i])) <= Reorder
      <4>1. i \in 1..n
        BY <1>11, <2>3, <3>2
      <4> QED
        BY <1>11, <2>2, <2>9, <3>1, <4>1 DEF NotOvertaken
    <3>3. inDecoder' = {}
      BY <1>1
    <3> QED
      BY <3>2, <3>3 DEF NotOvertaken
  <2>11. ASSUME recorded, ~removed PROVE SourceHolds' /\ OverallHolds'
    <3>1. OverallHolds /\ Stayed(Overall)
      BY <1>6, <2>1, <2>11, ProcessesAre DEF RecordsInv
    <3>2. SourceHolds'
      BY <1>1, <1>7 DEF SourceHolds, Holds, Sorted, UpTo, SkipsOf, HasAll
    <3>3. UpTo(profilers[Overall].records, Eos)
      <4>1. Counts(profilers[Overall])
        BY <1>2, ProcessesAre DEF CountsInv
      <4>2. PICK records \in Seq(Entry) : records = profilers[Overall].records
        BY <4>1, RecordsAre
      <4>3. parsed <= Eos /\ Eos \in Nat
        BY <1>2, EosIsLast DEF FlowTypeOK
      <4>4. \A i \in DOMAIN records : records[i].key \in Nat /\ records[i].key <= parsed
        BY <3>1, <4>2, EntryIs DEF OverallHolds, Holds, UpTo
      <4> QED
        BY <1>4, <4>2, <4>3, <4>4 DEF UpTo
    <3>4. OverallHolds'
      BY <1>1, <2>8, <3>1, <3>3 DEF OverallHolds, Holds, Stayed
    <3> QED
      BY <3>2, <3>4
  <2>12. Stayed(LeafInput) /\ Stayed(LeafProcess)
    BY <1>6, ProcessesAre
  <2>13. InputHolds' /\ (~removed => LeafHolds')
    BY <1>1, <2>1, <2>12 DEF RecordsInv, InputHolds, LeafHolds, Stayed
  <2> QED
    BY <1>1, <2>6, <2>10, <2>11, <2>13 DEF OrderInv, RecordsInv
<1> QED
  BY <1>1, <1>8, <1>9, <1>12, <1>13, <1>14, <1>15 DEF ProfilingInv

\* The first of the records is the one that ends.
LEMMA FirstEnds ==
  ASSUME NEW records \in Seq(Entry), 1 \in DOMAIN records, NEW key, records[1].key = key,
         NEW rest, rest = RemoveThisAndOtherUselessRecords(
                            records, First(FindStartRecord(records, key)))
  PROVE  /\ rest \in Seq(Entry) /\ Len(records) \in Nat \ {0} /\ Len(rest) = Len(records) - 1
         /\ \A i \in 1..Len(rest) : rest[i] = records[i + 1]
<1>1. DOMAIN records = 1..Len(records) /\ Len(records) \in Nat \ {0}
  BY EntryIs
<1>2. First(FindStartRecord(records, key)) = 1
  <2>1. 1 \in FindStartRecord(records, key) /\ FindStartRecord(records, key) \subseteq Nat \ {0}
    BY <1>1 DEF FindStartRecord
  <2>2. PICK found : found = FindStartRecord(records, key)
    OBVIOUS
  <2>3. \A i \in found : (\A j \in found : i <= j) <=> i = 1
    BY <2>1, <2>2
  <2>4. First(found) = 1
    BY <2>1, <2>2, <2>3 DEF First
  <2> QED
    BY <2>2, <2>4
<1>3. PICK kept : /\ IsKept(records, kept, 0)
                  /\ rest = kept[0] \o SubSeq(records, 2, Len(records))
  <2>1. PICK at \in Nat \ {0} : at = 1
    OBVIOUS
  <2>2. PICK kept : /\ IsKept(records, kept, at - 1)
                    /\ RemoveThisAndOtherUselessRecords(records, at)
                         = kept[at - 1] \o SubSeq(records, at + 1, Len(records))
    BY RemoveIs
  <2>3. at - 1 = 0 /\ at + 1 = 2
    BY <2>1
  <2>4. IsKept(records, kept, 0)
    BY <2>2, <2>3, Zenon
  <2>5. rest = kept[0] \o SubSeq(records, 2, Len(records))
    BY <1>2, <2>1, <2>2, <2>3, Zenon
  <2> QED
    BY <2>4, <2>5
<1>4. kept[0] = <<>>
  BY <1>3 DEF IsKept
<1>5. PICK tail : tail = SubSeq(records, 2, Len(records))
  OBVIOUS
<1>6. /\ tail \in Seq(Entry) /\ Len(tail) = Len(records) - 1
      /\ \A i \in 1..Len(tail) : tail[i] = records[i + 1]
  BY <1>1, <1>5
<1>7. rest = tail
  BY <1>3, <1>4, <1>5, <1>6, ConcatEmptySeq
<1> QED
  BY <1>1, <1>6, <1>7

\* The leaf takes the first frame of the conveyor, whose record is the first.
LEMMA PopRecords ==
  ASSUME ProfilingInv, Pop
  PROVE  /\ Tables /\ Stayed(SourceProcess) /\ Stayed(Overall)
         /\ IF Head(conveyor) = Eos THEN Stayed(LeafInput) /\ Stayed(LeafProcess)
            ELSE /\ Finished(LeafInput, Head(conveyor)) /\ Opened(LeafProcess, Head(conveyor))
                 /\ ~early => Has(profilers[LeafInput].records, Head(conveyor))
<1>1. CountsInv /\ FlowTypeOK
  BY DEF ProfilingInv
<1>2. CASE Head(conveyor) = Eos
  BY <1>1, <1>2, NothingRecorded, ProcessesAre DEF Pop
<1>3. CASE Head(conveyor) # Eos
  <2>1. PICK e, f : e = End(LeafInput, Head(conveyor)) /\ f = Start(LeafProcess, Head(conveyor))
    OBVIOUS
  <2>2. Record({e, f})
    BY <1>3, <2>1 DEF Pop
  <2>3. e.process = LeafInput /\ f.process = LeafProcess
    BY <2>1, EventIs
  <2>4. /\ Tables /\ Stayed(SourceProcess) /\ Stayed(Overall)
        /\ profilers'[LeafInput] = Recorded(profilers[LeafInput], e)
        /\ traced'[LeafInput] = IF life = 1 THEN Recorded(traced[LeafInput], e)
                                ELSE traced[LeafInput]
        /\ profilers'[LeafProcess] = Recorded(profilers[LeafProcess], f)
        /\ traced'[LeafProcess] = IF life = 1 THEN Recorded(traced[LeafProcess], f)
                                  ELSE traced[LeafProcess]
    BY <1>1, <2>2, <2>3, ProcessesAre, Twice
  <2>5. \A profiler : /\ Recorded(profiler, e) = RecordEnd(profiler, Head(conveyor))
                      /\ Recorded(profiler, f) = RecordStart(profiler, Head(conveyor))
    BY <2>1, EventIs
  <2>6. Finished(LeafInput, Head(conveyor)) /\ Opened(LeafProcess, Head(conveyor))
    BY <2>4, <2>5, Zenon DEF Opened, Finished
  <2>7. ASSUME ~early PROVE Has(profilers[LeafInput].records, Head(conveyor))
    <3>1. InputHolds
      BY <2>7 DEF ProfilingInv, RecordsInv
    <3>2. 1 \in DOMAIN conveyor /\ conveyor[1] = Head(conveyor)
      <4>1. conveyor \in Seq(1..Eos) /\ conveyor # <<>>
        BY <1>1 DEF FlowTypeOK, Pop
      <4> QED
        BY <4>1
    <3> QED
      BY <1>3, <3>1, <3>2 DEF InputHolds, Has
  <2> QED
    BY <1>3, <2>4, <2>6, <2>7
<1> QED
  BY <1>2, <1>3

\* The leaf takes the first frame of the conveyor.
LEMMA PopKeeps ==
  ASSUME ProfilingInv, Pop, recorded' = recorded
  PROVE  ProfilingInv'
<1>1. /\ leaf = NoFrame /\ conveyor # <<>> /\ leaf' = Head(conveyor) /\ conveyor' = Tail(conveyor)
      /\ life' = life /\ parsed' = parsed /\ inDecoder' = inDecoder /\ sent' = sent
      /\ thread' = thread /\ removed' = removed /\ early' = early
  BY DEF Pop
<1>2. FlowTypeOK /\ CountsInv /\ EndInv /\ MatchedInv /\ ReplayInv
  BY DEF ProfilingInv
<1>3. PICK key \in 1..Eos : key = Head(conveyor)
  <2>1. conveyor \in Seq(1..Eos)
    BY <1>2 DEF FlowTypeOK
  <2> QED
    BY <1>1, <2>1, HeadTailProperties
<1>4. PICK n \in Nat : /\ n = Len(conveyor) /\ n >= 1 /\ DOMAIN conveyor = 1..n /\ conveyor[1] = key
                       /\ conveyor' \in Seq(1..Eos) /\ Len(conveyor') = n - 1
                       /\ DOMAIN conveyor' = 1..n - 1
                       /\ \A i \in 1..n - 1 : conveyor'[i] = conveyor[i + 1]
  <2>1. conveyor \in Seq(1..Eos) /\ conveyor # <<>>
    BY <1>1, <1>2 DEF FlowTypeOK
  <2> QED
    BY <1>1, <1>3, <2>1
<1>5. Flight' = Flight /\ Flight # <<>> /\ Flight[1] = key
  BY <1>1, <1>2, <1>3, FlightPop
<1>6. /\ Tables /\ Stayed(SourceProcess) /\ Stayed(Overall)
      /\ IF key = Eos THEN Stayed(LeafInput) /\ Stayed(LeafProcess)
         ELSE /\ Finished(LeafInput, key) /\ Opened(LeafProcess, key)
              /\ ~early => Has(profilers[LeafInput].records, key)
  BY <1>3, PopRecords
<1>7. key \in Nat
  BY <1>3, EosIsLast
<1>8. FlowTypeOK'
  <2>1. leaf' \in 0..Eos
    BY <1>1, <1>3
  <2> QED
    BY <1>1, <1>2, <1>4, <2>1 DEF FlowTypeOK
<1>9. CountsInv'
  BY <1>2, <1>6, <1>7, CountsKept, ProcessesAre
<1>10. EndInv'
  <2>1. profilers'[SourceProcess] = profilers[SourceProcess]
    BY <1>6 DEF Stayed
  <2> QED
    BY <1>1, <1>2, <1>5, <2>1 DEF EndInv
<1>11. MatchedInv'
  <2> SUFFICES ASSUME NEW p \in Processes
               PROVE  IF Recording(p) THEN ~early => profilers'[p].unmatched = 0
                      ELSE profilers'[p].starts = 0
    BY <1>1 DEF MatchedInv, Recording
  <2>1. CASE ~Recording(p)
    <3>1. Stayed(p)
      BY <1>6, <2>1, ProcessesAre DEF Recording
    <3> QED
      BY <1>2, <2>1, <3>1 DEF MatchedInv, Stayed
  <2>2. CASE Recording(p) /\ ~early
    <3>1. profilers'[p].unmatched = profilers[p].unmatched
      BY <1>2, <1>6, <1>7, <2>2, MatchedKept, ProcessesAre
    <3> QED
      BY <1>2, <2>2, <3>1 DEF MatchedInv
  <2> QED
    BY <2>1, <2>2
<1>12. ReplayInv'
  <2> SUFFICES ASSUME life = 1, NEW p \in Processes
               PROVE  profilers'[p] = IF Ended(p) THEN OnStreamEos(traced'[p]) ELSE traced'[p]
    BY <1>1, <1>5 DEF ReplayInv, Ended
  <2>1. profilers[p] = IF Ended(p) THEN OnStreamEos(traced[p]) ELSE traced[p]
    BY <1>2 DEF ReplayInv
  <2>2. CASE Ended(p)
    <3>1. p = SourceProcess
      BY <1>5, <2>2 DEF Ended
    <3> QED
      BY <1>6, <2>1, <3>1 DEF Stayed
  <2>3. CASE ~Ended(p)
    <3>1. profilers[p] = traced[p] /\ life = 1
      BY <2>1, <2>3
    <3>2. Stayed(p) \/ Opened(p, key) \/ Finished(p, key)
      BY <1>6, ProcessesAre
    <3>3. profilers'[p] = traced'[p]
      BY <3>1, <3>2, ReplayKept
    <3> QED
      BY <2>3, <3>3
  <2> QED
    BY <2>2, <2>3
<1>13. ASSUME ~early PROVE OrderInv' /\ RecordsInv'
  <2>1. OrderInv /\ RecordsInv
    BY <1>13 DEF ProfilingInv
  <2>2. Through' = Through /\ InPipeline' = InPipeline /\ \A i : InFront(i)' = InFront(i)
    BY <1>1, <1>5 DEF Through, InPipeline, InFront
  <2>3. \A k : Overtaken(k)' = Overtaken(k)
    BY <1>1 DEF Overtaken
  <2>4. OneByOne'
    BY <1>1, <1>5, <2>1 DEF OrderInv, OneByOne
  <2>5. ~removed => NotOvertaken'
    BY <1>1, <1>5, <2>1, <2>2, <2>3 DEF OrderInv, NotOvertaken
  <2>6. recorded /\ ~removed => SourceHolds' /\ OverallHolds'
    BY <1>1, <1>6, <2>1, <2>2 DEF RecordsInv, SourceHolds, OverallHolds, Holds, Stayed
  <2>7. PICK records : records = profilers[LeafInput].records
    OBVIOUS
  <2>8. /\ DOMAIN records = {i \in DOMAIN conveyor : conveyor[i] # Eos}
        /\ \A i \in DOMAIN records : records[i].key = conveyor[i]
    BY <2>1, <2>7 DEF RecordsInv, InputHolds
  <2>9. CASE key = Eos
    <3>1. n = 1
      <4>1. Len(Flight) = 1
        <5>1. 1 \in DOMAIN Flight
          BY <1>2, <1>5, PlacesAre
        <5> QED
          BY <1>5, <2>1, <2>9, <5>1 DEF OrderInv, OneByOne
      <4> QED
        BY <1>2, <1>4, <4>1, ConveyorInFlight
    <3>2. DOMAIN records = {}
      <4>1. \A i \in 1..n : i = 1
        BY <3>1
      <4> QED
        BY <1>4, <2>8, <2>9, <4>1
    <3>3. DOMAIN conveyor' = {}
      BY <1>4, <3>1
    <3>4. InputHolds'
      BY <1>6, <2>7, <2>9, <3>2, <3>3 DEF InputHolds, Stayed
    <3>5. ~removed => LeafHolds'
      <4>1. leaf' \notin Keys /\ leaf \notin Keys
        BY <1>1, <1>3, <2>9, KeysAre DEF NoFrame
      <4> QED
        BY <1>6, <2>1, <2>9, <4>1 DEF RecordsInv, LeafHolds, Stayed
    <3> QED
      BY <1>1, <2>4, <2>5, <2>6, <3>4, <3>5 DEF OrderInv, RecordsInv
  <2>10. CASE key # Eos
    <3>1. key \in Keys
      BY <1>3, <2>10, EosIsLast DEF Keys
    <3>2. Counts(profilers[LeafInput]) /\ Counts(profilers[LeafProcess])
      BY <1>2, ProcessesAre DEF CountsInv
    <3>3. records \in Seq(Entry) /\ 1 \in DOMAIN records /\ records[1].key = key
      <4>1. 1 \in 1..n
        BY <1>4
      <4> QED
        BY <1>4, <2>7, <2>8, <2>10, <3>2, <4>1, RecordsAre
    <3>4. PICK rest : rest = profilers'[LeafInput].records
      OBVIOUS
    <3>5. rest = RemoveThisAndOtherUselessRecords(records, First(FindStartRecord(records, key)))
      BY <1>6, <2>7, <2>10, <3>2, <3>3, <3>4, EndIs DEF Finished, Has
    <3>6. /\ rest \in Seq(Entry) /\ Len(records) \in Nat \ {0} /\ Len(rest) = Len(records) - 1
          /\ \A i \in 1..Len(rest) : rest[i] = records[i + 1]
      BY <3>3, <3>5, FirstEnds
    <3>7. PICK m \in Nat : m = Len(rest)
      BY <3>6
    <3>8. DOMAIN rest = 1..m /\ DOMAIN records = 1..m + 1
      <4>1. DOMAIN records = 1..Len(records) /\ DOMAIN rest = 1..Len(rest)
        BY <3>3, <3>6
      <4>2. Len(records) = m + 1
        BY <3>6, <3>7
      <4> QED
        BY <3>7, <4>1, <4>2
    <3>9. \A i : i \in 1..m <=> i \in 1..n - 1 /\ conveyor'[i] # Eos
      <4> SUFFICES ASSUME NEW i
                   PROVE  i \in 1..m <=> i \in 1..n - 1 /\ conveyor'[i] # Eos
        OBVIOUS
      <4>1. \A j : j \in 1..m + 1 <=> j \in 1..n /\ conveyor[j] # Eos
        BY <1>4, <2>8, <3>8
      <4>2. CASE i \in Nat \ {0}
        <5>1. i + 1 \in 1..m + 1 <=> i + 1 \in 1..n /\ conveyor[i + 1] # Eos
          BY <4>1
        <5>2. (i \in 1..m <=> i + 1 \in 1..m + 1) /\ (i \in 1..n - 1 <=> i + 1 \in 1..n)
          BY <4>2
        <5>3. i \in 1..n - 1 => conveyor'[i] = conveyor[i + 1]
          BY <1>4
        <5> QED
          BY <5>1, <5>2, <5>3
      <4>3. CASE i \notin Nat \ {0}
        BY <4>3
      <4> QED
        BY <4>2, <4>3
    <3>10. \A i \in 1..m : rest[i].key = conveyor'[i]
      <4> SUFFICES ASSUME NEW i \in 1..m PROVE rest[i].key = conveyor'[i]
        OBVIOUS
      <4>1. i + 1 \in 1..m + 1 /\ i \in 1..n - 1
        BY <3>9
      <4> QED
        BY <1>4, <2>8, <3>6, <3>7, <3>8, <4>1
    <3>11. InputHolds'
      <4>1. DOMAIN rest = {i \in DOMAIN conveyor' : conveyor'[i] # Eos}
        BY <1>4, <3>8, <3>9
      <4>2. \A i \in DOMAIN rest : rest[i].key = conveyor'[i]
        BY <3>8, <3>10
      <4> QED
        BY <3>4, <4>1, <4>2 DEF InputHolds
    <3>12. ~removed => LeafHolds'
      <4> SUFFICES ASSUME ~removed PROVE LeafHolds'
        OBVIOUS
      <4>1. profilers[LeafProcess].records = <<>>
        <5>1. leaf \notin Keys
          BY <1>1, KeysAre DEF NoFrame
        <5> QED
          BY <2>1, <5>1 DEF RecordsInv, LeafHolds
      <4>2. PICK new : new = [key |-> key, skip |-> 0]
        OBVIOUS
      <4>3. new.key = key
        BY <4>2
      <4>4. profilers'[LeafProcess].records = Append(<<>>, new)
        BY <1>6, <1>7, <2>10, <3>2, <4>1, <4>2, StartIs DEF Opened
      <4>5. Len(Append(<<>>, new)) = 1 /\ Append(<<>>, new)[1] = new
        OBVIOUS
      <4> QED
        BY <1>1, <1>3, <3>1, <4>3, <4>4, <4>5 DEF LeafHolds
    <3> QED
      BY <1>1, <2>4, <2>5, <2>6, <3>11, <3>12 DEF OrderInv, RecordsInv
  <2> QED
    BY <2>9, <2>10
<1> QED
  BY <1>1, <1>8, <1>9, <1>10, <1>11, <1>12, <1>13 DEF ProfilingInv

\* A frame leaves the pipeline, and the process of the leaf.
LEMMA TransmitOutRecords ==
  ASSUME ProfilingInv, TransmitOut
  PROVE  /\ Tables /\ Stayed(SourceProcess) /\ Stayed(LeafInput)
         /\ IF removed THEN Stayed(LeafProcess) /\ Stayed(Overall)
            ELSE Finished(LeafProcess, leaf) /\ Finished(Overall, leaf)
<1>1. CountsInv
  BY DEF ProfilingInv
<1>2. CASE removed
  BY <1>1, <1>2, NothingRecorded, ProcessesAre DEF TransmitOut
<1>3. CASE ~removed
  <2>1. PICK e, f : e = End(Overall, leaf) /\ f = End(LeafProcess, leaf)
    OBVIOUS
  <2>2. Record({e, f})
    BY <1>3, <2>1 DEF TransmitOut
  <2>3. e.process = Overall /\ f.process = LeafProcess
    BY <2>1, EventIs
  <2>4. /\ Tables /\ Stayed(SourceProcess) /\ Stayed(LeafInput)
        /\ profilers'[Overall] = Recorded(profilers[Overall], e)
        /\ traced'[Overall] = IF life = 1 THEN Recorded(traced[Overall], e) ELSE traced[Overall]
        /\ profilers'[LeafProcess] = Recorded(profilers[LeafProcess], f)
        /\ traced'[LeafProcess] = IF life = 1 THEN Recorded(traced[LeafProcess], f)
                                  ELSE traced[LeafProcess]
    BY <1>1, <2>2, <2>3, ProcessesAre, Twice
  <2>5. \A profiler : /\ Recorded(profiler, e) = RecordEnd(profiler, leaf)
                      /\ Recorded(profiler, f) = RecordEnd(profiler, leaf)
    BY <2>1, EventIs
  <2>6. Finished(Overall, leaf) /\ Finished(LeafProcess, leaf)
    BY <2>4, <2>5, Zenon DEF Finished
  <2> QED
    BY <1>3, <2>4, <2>6
<1> QED
  BY <1>2, <1>3

\* The frame that leaves is through: every other one is one step nearer the front.
LEMMA OneThrough ==
  ASSUME FlowTypeOK, OneByOne, leaf \in Keys, leaf' = NoFrame, conveyor' = conveyor,
         thread' = thread, sent' = sent, inDecoder' = inDecoder, parsed' = parsed
  PROVE  /\ OneByOne' /\ leaf \notin Through /\ Through' = Through \cup {leaf}
         /\ leaf \in InPipeline /\ InPipeline' = InPipeline \ {leaf}
         /\ Len(Flight') \in Nat /\ Len(Flight) = Len(Flight') + 1
         /\ DOMAIN Flight' = 1..Len(Flight') /\ DOMAIN Flight = 1..Len(Flight') + 1
         /\ \A i \in 1..Len(Flight') :
              /\ i + 1 \in DOMAIN Flight /\ Flight'[i] = Flight[i + 1]
              /\ InFront(i)' = InFront(i + 1) /\ Through' \subseteq InFront(i + 1)
<1>1. leaf \in Nat /\ leaf # NoFrame /\ leaf # Eos
  BY KeysAre DEF NoFrame
<1>2. /\ Flight' \in Seq(1..Eos) /\ Flight[1] = leaf /\ Len(Flight) = Len(Flight') + 1
      /\ \A i \in 1..Len(Flight') : Flight'[i] = Flight[i + 1]
  BY <1>1, FlightOut
<1>3. PICK n \in Nat : n = Len(Flight') /\ DOMAIN Flight' = 1..n
  BY <1>2
<1>4. DOMAIN Flight = 1..n + 1 /\ 1 \in 1..n + 1
  BY <1>2, <1>3, PlacesAre
<1>5. \A i \in 1..n : i + 1 \in 1..n + 1 /\ i + 1 # 1
  BY <1>3
<1>6. \A i \in 1..n : Flight'[i] = Flight[i + 1] /\ Flight'[i] # leaf
  BY <1>2, <1>3, <1>4, <1>5 DEF OneByOne
<1>7. leaf \in sent /\ leaf \notin inDecoder
  BY <1>1, <1>2, <1>4 DEF OneByOne
<1>8. OneByOne'
  <2>1. ASSUME NEW i \in 1..n, NEW j \in 1..n, Flight'[i] = Flight'[j] PROVE i = j
    <3>1. i + 1 = j + 1
      BY <1>4, <1>5, <1>6, <2>1 DEF OneByOne
    <3> QED
      BY <3>1
  <2>2. ASSUME NEW i \in 1..n
        PROVE  IF Flight'[i] = Eos THEN i = n /\ parsed = Eos ELSE Flight'[i] \in sent
    <3>1. IF Flight[i + 1] = Eos THEN i + 1 = n + 1 /\ parsed = Eos ELSE Flight[i + 1] \in sent
      BY <1>2, <1>3, <1>4, <1>5 DEF OneByOne
    <3> QED
      BY <1>6, <3>1
  <2> QED
    BY <1>3, <2>1, <2>2 DEF OneByOne
<1>9. PICK flying, more : flying = Range(Flight) /\ more = Range(Flight')
  OBVIOUS
<1>10. flying = more \cup {leaf} /\ leaf \notin more
  <2>1. flying = {Flight[i] : i \in 1..n + 1} /\ more = {Flight'[i] : i \in 1..n}
    BY <1>3, <1>4, <1>9 DEF Range
  <2>2. \A i \in 1..n + 1 : i = 1 \/ (i - 1 \in 1..n /\ (i - 1) + 1 = i)
    BY <1>3
  <2>3. flying \subseteq more \cup {leaf}
    <3> SUFFICES ASSUME NEW i \in 1..n + 1 PROVE Flight[i] \in more \cup {leaf}
      BY <2>1
    <3>1. CASE i = 1
      BY <1>2, <3>1
    <3>2. CASE i # 1
      <4>1. PICK k \in 1..n : k + 1 = i
        BY <2>2, <3>2
      <4> QED
        BY <1>6, <2>1, <4>1
    <3> QED
      BY <3>1, <3>2
  <2>4. more \subseteq flying
    BY <1>5, <1>6, <2>1
  <2>5. leaf \in flying /\ leaf \notin more
    BY <1>2, <1>4, <1>6, <2>1
  <2> QED
    BY <2>3, <2>4, <2>5
<1>11. /\ Through = sent \ flying /\ Through' = sent' \ more
       /\ InPipeline = inDecoder \cup (flying \ {Eos})
       /\ InPipeline' = inDecoder' \cup (more \ {Eos})
  BY <1>9 DEF Through, InPipeline, Eos
<1>12. leaf \notin Through /\ Through' = Through \cup {leaf}
  BY <1>7, <1>10, <1>11
<1>13. leaf \in InPipeline /\ InPipeline' = InPipeline \ {leaf}
  BY <1>1, <1>7, <1>10, <1>11
<1>14. ASSUME NEW i \in 1..n
       PROVE  InFront(i)' = InFront(i + 1) /\ Through' \subseteq InFront(i + 1)
  <2>1. PICK front, later : /\ front = {Flight[j] : j \in 1..i}
                            /\ later = {Flight'[j] : j \in 1..i - 1}
    OBVIOUS
  <2>2. InFront(i)' = Through' \cup later
    BY <2>1 DEF InFront
  <2>3. InFront(i + 1) = Through \cup front
    <3>1. (i + 1) - 1 = i
      OBVIOUS
    <3> QED
      BY <2>1, <3>1 DEF InFront
  <2>4. front = later \cup {leaf}
    <3>1. \A j \in 1..i : j = 1 \/ (j - 1 \in 1..i - 1 /\ (j - 1) + 1 = j)
      BY <1>3
    <3>2. \A j \in 1..i - 1 : j \in 1..n /\ j + 1 \in 1..i
      BY <1>3
    <3>3. 1 \in 1..i
      BY <1>3
    <3>4. front \subseteq later \cup {leaf}
      <4> SUFFICES ASSUME NEW j \in 1..i PROVE Flight[j] \in later \cup {leaf}
        BY <2>1
      <4>1. CASE j = 1
        BY <1>2, <4>1
      <4>2. CASE j # 1
        <5>1. PICK k \in 1..i - 1 : k + 1 = j
          BY <3>1, <4>2
        <5> QED
          BY <1>6, <2>1, <3>2, <5>1
      <4> QED
        BY <4>1, <4>2
    <3>5. later \subseteq front
      BY <1>6, <2>1, <3>2
    <3>6. leaf \in front
      BY <1>2, <2>1, <3>3
    <3> QED
      BY <3>4, <3>5, <3>6
  <2> QED
    BY <1>12, <2>2, <2>3, <2>4
<1> QED
  BY <1>2, <1>3, <1>4, <1>5, <1>6, <1>8, <1>12, <1>13, <1>14

\* A frame leaves the pipeline.
LEMMA TransmitOutKeeps ==
  ASSUME ProfilingInv, TransmitOut, recorded' = recorded
  PROVE  ProfilingInv'
<1>1. /\ leaf \in Keys /\ leaf' = NoFrame /\ life' = life /\ parsed' = parsed
      /\ inDecoder' = inDecoder /\ sent' = sent /\ thread' = thread /\ removed' = removed
      /\ conveyor' = conveyor /\ early' = early
  BY DEF TransmitOut, Keys
<1>2. FlowTypeOK /\ CountsInv /\ EndInv /\ MatchedInv /\ ReplayInv
  BY DEF ProfilingInv
<1>3. leaf \in Nat /\ leaf # NoFrame /\ leaf # Eos
  BY <1>1, KeysAre DEF NoFrame
<1>4. /\ Flight' \in Seq(1..Eos) /\ Flight[1] = leaf /\ Len(Flight) = Len(Flight') + 1
      /\ \A i \in 1..Len(Flight') : Flight'[i] = Flight[i + 1]
  BY <1>1, <1>2, <1>3, FlightOut
<1>5. PICK n \in Nat : n = Len(Flight') /\ DOMAIN Flight' = 1..n
  BY <1>4
<1>6. Flight # <<>>
  <2>1. Len(Flight) # 0
    BY <1>4, <1>5
  <2> QED
    BY <2>1
<1>7. /\ Tables /\ Stayed(SourceProcess) /\ Stayed(LeafInput)
      /\ IF removed THEN Stayed(LeafProcess) /\ Stayed(Overall)
         ELSE Finished(LeafProcess, leaf) /\ Finished(Overall, leaf)
  BY TransmitOutRecords
<1>8. \A p \in Processes : Stayed(p) \/ (~removed /\ Finished(p, leaf))
  BY <1>7, ProcessesAre
<1>9. FlowTypeOK'
  <2>1. leaf' \in 0..Eos
    BY <1>1, EosIsLast DEF NoFrame
  <2> QED
    BY <1>1, <1>2, <2>1 DEF FlowTypeOK
<1>10. CountsInv'
  BY <1>2, <1>7, <1>8, CountsKept
<1>11. parsed = Eos => Flight' # <<>> /\ Flight'[Len(Flight')] = Eos
  <2> SUFFICES ASSUME parsed = Eos PROVE Flight' # <<>> /\ Flight'[Len(Flight')] = Eos
    OBVIOUS
  <2>1. Flight[n + 1] = Eos
    BY <1>2, <1>4, <1>5, <1>6 DEF EndInv
  <2>2. n # 0
    BY <1>3, <1>4, <2>1
  <2>3. n \in 1..n
    BY <2>2
  <2> QED
    BY <1>4, <1>5, <2>1, <2>2, <2>3
<1>12. EndInv'
  <2>1. profilers'[SourceProcess] = profilers[SourceProcess]
    BY <1>7 DEF Stayed
  <2> QED
    BY <1>1, <1>2, <1>11, <2>1 DEF EndInv
<1>13. ASSUME ~early
       PROVE  /\ OneByOne' /\ leaf \notin Through /\ Through' = Through \cup {leaf}
              /\ leaf \in InPipeline /\ InPipeline' = InPipeline \ {leaf}
              /\ Len(Flight') \in Nat /\ Len(Flight) = Len(Flight') + 1
              /\ DOMAIN Flight' = 1..Len(Flight') /\ DOMAIN Flight = 1..Len(Flight') + 1
              /\ \A i \in 1..Len(Flight') :
                   /\ i + 1 \in DOMAIN Flight /\ Flight'[i] = Flight[i + 1]
                   /\ InFront(i)' = InFront(i + 1) /\ Through' \subseteq InFront(i + 1)
  <2>1. OneByOne
    BY <1>13 DEF ProfilingInv, OrderInv
  <2> QED
    BY <1>1, <1>2, <2>1, OneThrough
<1>14. ASSUME NEW p \in Processes, Recording(p), ~early, ~Stayed(p)
       PROVE  Finished(p, leaf) /\ Has(profilers[p].records, leaf)
  <2>1. ~removed /\ Finished(p, leaf) /\ p \in {Overall, LeafProcess}
    BY <1>7, <1>8, <1>14, ProcessesAre
  <2>2. RecordsInv
    BY <1>14 DEF ProfilingInv
  <2>3. CASE p = Overall
    <3>1. HasAll(profilers[Overall].records, InPipeline)
      BY <1>14, <2>1, <2>2, <2>3, ProcessesAre
      DEF RecordsInv, Recording, OverallHolds, Holds
    <3> QED
      BY <1>13, <1>14, <2>1, <2>3, <3>1 DEF HasAll
  <2>4. CASE p = LeafProcess
    <3>1. Len(profilers[LeafProcess].records) = 1 /\ profilers[LeafProcess].records[1].key = leaf
      BY <1>1, <2>1, <2>2 DEF RecordsInv, LeafHolds
    <3>2. Counts(profilers[LeafProcess])
      BY <1>2, ProcessesAre DEF CountsInv
    <3>3. 1 \in DOMAIN profilers[LeafProcess].records
      BY <3>1, <3>2, RecordsAre, EntryIs
    <3> QED
      BY <2>1, <2>4, <3>1, <3>3 DEF Has
  <2> QED
    BY <2>1, <2>3, <2>4
<1>15. MatchedInv'
  <2> SUFFICES ASSUME NEW p \in Processes
               PROVE  IF Recording(p) THEN ~early => profilers'[p].unmatched = 0
                      ELSE profilers'[p].starts = 0
    BY <1>1 DEF MatchedInv, Recording
  <2>1. CASE ~Recording(p)
    <3>1. profilers'[p].starts = profilers[p].starts
      BY <1>2, <1>8, UnstartedKept
    <3> QED
      BY <1>2, <2>1, <3>1 DEF MatchedInv
  <2>2. CASE Recording(p) /\ ~early
    <3>1. profilers'[p].unmatched = profilers[p].unmatched
      BY <1>2, <1>14, <2>2, MatchedKept
    <3> QED
      BY <1>2, <2>2, <3>1 DEF MatchedInv
  <2> QED
    BY <2>1, <2>2
<1>16. ReplayInv'
  <2> SUFFICES ASSUME life = 1, NEW p \in Processes
               PROVE  profilers'[p] = IF parsed = Eos /\ p = SourceProcess
                                      THEN OnStreamEos(traced'[p]) ELSE traced'[p]
    BY <1>1, <1>11 DEF ReplayInv, Ended
  <2>1. profilers[p] = IF parsed = Eos /\ p = SourceProcess THEN OnStreamEos(traced[p]) ELSE traced[p]
    BY <1>2, <1>6 DEF ReplayInv, Ended
  <2>2. CASE parsed = Eos /\ p = SourceProcess
    BY <1>7, <2>1, <2>2 DEF Stayed
  <2>3. CASE ~(parsed = Eos /\ p = SourceProcess)
    <3>1. profilers[p] = traced[p]
      BY <2>1, <2>3
    <3>2. profilers'[p] = traced'[p]
      BY <1>8, <3>1, ReplayKept
    <3> QED
      BY <2>3, <3>2
  <2> QED
    BY <2>2, <2>3
<1>17. ASSUME ~early PROVE OrderInv' /\ RecordsInv'
  <2>1. OneByOne /\ (~removed => NotOvertaken) /\ RecordsInv
    BY <1>17 DEF ProfilingInv, OrderInv
  <2>2. \A k : Overtaken(k)' = Overtaken(k)
    BY <1>1 DEF Overtaken
  <2>3. ASSUME ~removed PROVE NotOvertaken'
    <3>1. ASSUME NEW i \in DOMAIN Flight', Flight'[i] # Eos
          PROVE  Cardinality(Later(InFront(i)', Flight'[i])) <= Reorder
      BY <1>13, <1>17, <2>1, <2>3, <3>1 DEF NotOvertaken
    <3> QED
      BY <1>1, <2>1, <2>2, <2>3, <3>1 DEF NotOvertaken
  <2>4. ASSUME recorded, ~removed PROVE SourceHolds'
    BY <1>1, <1>7, <2>1, <2>4 DEF RecordsInv, SourceHolds, Holds, Stayed
  <2>5. ASSUME recorded, ~removed PROVE OverallHolds'
    <3>1. PICK records, rest : /\ records = profilers[Overall].records
                               /\ rest = profilers'[Overall].records
      OBVIOUS
    <3>2. /\ Sorted(records) /\ UpTo(records, parsed) /\ SkipsOf(records, InPipeline, Through)
          /\ HasAll(records, InPipeline)
      BY <2>1, <2>5, <3>1 DEF RecordsInv, OverallHolds, Holds
    <3>3. Counts(profilers[Overall]) /\ Has(records, leaf)
      BY <1>2, <1>13, <1>17, <3>2, ProcessesAre DEF CountsInv, HasAll
    <3>4. Counts(profilers'[Overall]) /\ Remaining(records, rest, leaf)
      BY <1>7, <2>5, <3>1, <3>2, <3>3, EndIs DEF Finished
    <3>5. records \in Seq(Entry) /\ rest \in Seq(Entry)
      BY <3>1, <3>3, <3>4, RecordsAre
    <3>6. /\ Through \subseteq Nat /\ IsFiniteSet(Through) /\ sent \subseteq Nat /\ IsFiniteSet(sent)
          /\ Through \subseteq sent /\ inDecoder \subseteq Nat
      BY <1>2, PlacesAre
    <3>7. InPipeline \subseteq Nat
      <4>1. Range(Flight) \subseteq Nat
        <5>1. PICK S, flight : S = 1..Eos /\ flight = Flight /\ flight \in Seq(S)
          BY <1>2, PlacesAre
        <5>2. Range(flight) \subseteq S
          BY <5>1, RangeIs
        <5> QED
          BY <5>1, <5>2
      <4> QED
        BY <3>6, <4>1 DEF InPipeline
    <3>8. Through' \subseteq sent
      BY <1>1 DEF Through
    <3>9. \A other \in InPipeline \ {leaf} :
            Cardinality(Later(Through \cup {leaf}, other)) <= MaxDpb
      <4> SUFFICES ASSUME NEW other \in InPipeline \ {leaf}
                   PROVE  Cardinality(Later(Through', other)) <= MaxDpb
        BY <1>13, <1>17
      <4>1. PICK more : /\ Through' \subseteq more /\ more \subseteq sent
                        /\ Cardinality(Later(more, other)) <= Reorder
        <5>1. CASE other \in inDecoder
          <6>1. Cardinality(Later(sent, other)) <= Reorder
            BY <2>1, <2>5, <5>1 DEF NotOvertaken, Overtaken, Later
          <6> QED
            BY <3>8, <6>1
        <5>2. CASE other \notin inDecoder
          <6>1. PICK i \in DOMAIN Flight' : Flight'[i] = other /\ other # Eos
            <7>1. InPipeline' = InPipeline \ {leaf}
              BY <1>13, <1>17
            <7> QED
              BY <1>1, <5>2, <7>1 DEF InPipeline, Range
          <6>2. InFront(i)' \subseteq sent
            <7>1. i \in 1..n
              BY <1>5, <6>1
            <7>2. \A j \in 1..i - 1 : j \in 1..n /\ j # n
              BY <7>1
            <7>3. \A j \in 1..i - 1 : Flight'[j] \in sent
              BY <1>1, <1>5, <1>13, <1>17, <7>2 DEF OneByOne
            <7> QED
              BY <3>8, <7>3 DEF InFront
          <6>3. NotOvertaken' /\ Through' \subseteq InFront(i)'
            BY <1>13, <1>17, <2>3, <2>5 DEF InFront
          <6>4. Cardinality(Later(InFront(i)', other)) <= Reorder
            BY <6>1, <6>3 DEF NotOvertaken
          <6> QED
            BY <6>2, <6>3, <6>4
        <5> QED
          BY <5>1, <5>2
      <4>2. more \subseteq Nat /\ IsFiniteSet(more)
        <5>1. more \in SUBSET sent
          BY <4>1
        <5> QED
          BY <3>6, <5>1, FS_Subset
      <4>3. /\ Cardinality(Later(Through', other)) <= Cardinality(Later(more, other))
            /\ Cardinality(Later(Through', other)) \in Nat
            /\ Cardinality(Later(more, other)) \in Nat
        BY <4>1, <4>2, LaterGrows
      <4> QED
        BY <4>1, <4>3, ProfilingAssumption
    <3>10. /\ Sorted(rest) /\ UpTo(rest, parsed)
           /\ SkipsOf(rest, InPipeline \ {leaf}, Through \cup {leaf})
           /\ HasAll(rest, InPipeline \ {leaf})
      BY <1>3, <1>13, <1>17, <3>2, <3>4, <3>5, <3>6, <3>7, <3>9, HoldsEnd
    <3> QED
      BY <1>1, <1>13, <1>17, <3>1, <3>10 DEF OverallHolds, Holds
  <2>6. InputHolds'
    BY <1>1, <1>7, <2>1 DEF RecordsInv, InputHolds, Stayed
  <2>7. ASSUME ~removed PROVE LeafHolds'
    <3>1. PICK records, rest : /\ records = profilers[LeafProcess].records
                               /\ rest = profilers'[LeafProcess].records
      OBVIOUS
    <3>2. Len(records) = 1 /\ records[1].key = leaf
      BY <1>1, <2>1, <2>7, <3>1 DEF RecordsInv, LeafHolds
    <3>3. Counts(profilers[LeafProcess])
      BY <1>2, ProcessesAre DEF CountsInv
    <3>4. records \in Seq(Entry) /\ 1 \in DOMAIN records /\ Has(records, leaf)
      <4>1. records \in Seq(Entry)
        BY <3>1, <3>3, RecordsAre
      <4>2. 1 \in DOMAIN records
        BY <3>2, <4>1, EntryIs
      <4> QED
        BY <3>2, <4>1, <4>2 DEF Has
    <3>5. rest = RemoveThisAndOtherUselessRecords(records, First(FindStartRecord(records, leaf)))
      BY <1>7, <2>7, <3>1, <3>3, <3>4, EndIs DEF Finished
    <3>6. rest \in Seq(Entry) /\ Len(rest) = Len(records) - 1
      BY <3>2, <3>4, <3>5, FirstEnds
    <3>7. rest = <<>>
      BY <3>2, <3>6
    <3>8. leaf' \notin Keys
      BY <1>1, KeysAre DEF NoFrame
    <3> QED
      BY <3>1, <3>7, <3>8 DEF LeafHolds
  <2> QED
    BY <1>1, <1>13, <1>17, <2>3, <2>4, <2>5, <2>6, <2>7 DEF OrderInv, RecordsInv
<1> QED
  BY <1>1, <1>9, <1>10, <1>12, <1>15, <1>16, <1>17 DEF ProfilingInv

\* The EOS frame leaves the pipeline: the last records go with it.
LEMMA EosOutKeeps ==
  ASSUME ProfilingInv, EosOut, recorded' = recorded
  PROVE  ProfilingInv'
<1>1. /\ leaf = Eos /\ leaf' = NoFrame /\ life' = life /\ parsed' = parsed
      /\ inDecoder' = inDecoder /\ sent' = sent /\ thread' = thread /\ removed' = removed
      /\ conveyor' = conveyor /\ early' = early
      /\ EndStream({LeafInput, LeafProcess, Overall})
  BY DEF EosOut
<1>2. FlowTypeOK /\ CountsInv /\ EndInv /\ MatchedInv /\ ReplayInv
  BY DEF ProfilingInv
<1>3. leaf \in Nat /\ leaf # NoFrame
  BY <1>1, EosIsLast DEF NoFrame
<1>4. /\ Flight' \in Seq(1..Eos) /\ Flight[1] = Eos /\ Len(Flight) = Len(Flight') + 1
      /\ \A i \in 1..Len(Flight') : Flight'[i] = Flight[i + 1]
  BY <1>1, <1>2, <1>3, FlightOut
<1>5. PICK n \in Nat : n = Len(Flight') /\ DOMAIN Flight' = 1..n /\ DOMAIN Flight = 1..n + 1
  <2>1. PICK n \in Nat : n = Len(Flight') /\ DOMAIN Flight' = 1..n
    BY <1>4
  <2> QED
    BY <1>2, <1>4, <2>1, PlacesAre
<1>6. Flight # <<>>
  <2>1. Len(Flight) # 0
    BY <1>4, <1>5
  <2> QED
    BY <2>1
<1>7. /\ Tables /\ Stayed(SourceProcess)
      /\ \A p \in Processes : p # SourceProcess => Closed(p)
  <2>1. Tables /\ \A p \in Processes : IF p \in {LeafInput, LeafProcess, Overall}
                                       THEN Closed(p) ELSE Stayed(p)
    BY <1>1, <1>2, EndStreamIs
  <2> QED
    BY <2>1, ProcessesAre
<1>8. \A p \in Processes : p # SourceProcess => profilers'[p].records = <<>>
  <2> SUFFICES ASSUME NEW p \in Processes, p # SourceProcess PROVE profilers'[p].records = <<>>
    OBVIOUS
  <2>1. Counts(profilers[p]) /\ profilers'[p] = OnStreamEos(profilers[p])
    BY <1>2, <1>7 DEF CountsInv, Closed
  <2> QED
    BY <2>1, EosIs
<1>9. FlowTypeOK'
  <2>1. leaf' \in 0..Eos
    BY <1>1, EosIsLast DEF NoFrame
  <2> QED
    BY <1>1, <1>2, <2>1 DEF FlowTypeOK
<1>10. CountsInv'
  BY <1>2, <1>7, CountsKept
<1>11. profilers'[SourceProcess] = profilers[SourceProcess]
  BY <1>7 DEF Stayed
<1>12. ASSUME parsed = Eos
       PROVE  IF Flight' = <<>> THEN \A p \in Processes : profilers'[p].records = <<>>
              ELSE Flight'[Len(Flight')] = Eos
  <2>1. profilers[SourceProcess].records = <<>> /\ Flight[n + 1] = Eos
    BY <1>2, <1>4, <1>5, <1>6, <1>12 DEF EndInv
  <2>2. \A p \in Processes : profilers'[p].records = <<>>
    BY <1>8, <1>11, <2>1
  <2>3. ASSUME Flight' # <<>> PROVE Flight'[n] = Eos
    <3>1. n # 0
      BY <1>4, <1>5, <2>3
    <3>2. n \in 1..n
      BY <3>1
    <3> QED
      BY <1>4, <1>5, <2>1, <3>2
  <2> QED
    BY <1>5, <2>2, <2>3
<1>13. EndInv'
  BY <1>1, <1>2, <1>11, <1>12 DEF EndInv
<1>14. MatchedInv'
  <2> SUFFICES ASSUME NEW p \in Processes
               PROVE  IF Recording(p) THEN ~early => profilers'[p].unmatched = 0
                      ELSE profilers'[p].starts = 0
    BY <1>1 DEF MatchedInv, Recording
  <2>1. /\ profilers'[p].unmatched = profilers[p].unmatched
        /\ profilers'[p].starts = profilers[p].starts
    BY <1>2, <1>7, MatchedKept, UnstartedKept
  <2> QED
    BY <1>2, <2>1 DEF MatchedInv
<1>15. ASSUME ~early
       PROVE  /\ Flight = <<Eos>> /\ Flight' = <<>> /\ parsed = Eos /\ inDecoder = {}
              /\ conveyor = <<>>
  <2>1. OneByOne
    BY <1>15 DEF ProfilingInv, OrderInv
  <2>2. 1 \in 1..n + 1
    BY <1>5
  <2>3. n + 1 = 1 /\ parsed = Eos
    BY <1>4, <1>5, <2>1, <2>2 DEF OneByOne
  <2>4. Flight' = <<>> /\ n = 0
    BY <1>4, <1>5, <2>3
  <2>5. Flight = <<Eos>>
    <3>1. PICK flight : flight = Flight /\ flight \in Seq(1..Eos)
      BY <1>2, PlacesAre
    <3>2. Len(flight) = 1 /\ flight[1] = Eos
      BY <1>4, <1>5, <2>4, <3>1
    <3>3. flight = <<Eos>>
      BY <3>1, <3>2
    <3> QED
      BY <3>1, <3>3
  <2>6. conveyor = <<>>
    <3>1. Flight' = conveyor \o InSource
      <4>1. InLeaf' = <<>> /\ InSource' = InSource
        BY <1>1 DEF InLeaf, InSource, SourceEnded, NoFrame
      <4>2. conveyor \o InSource \in Seq(1..Eos)
        BY <1>2, FlightIs
      <4> QED
        BY <1>1, <4>1, <4>2, ConcatEmptySeq DEF Flight
    <3>2. Len(conveyor \o InSource) = 0
      BY <2>4, <3>1
    <3>3. /\ conveyor \in Seq(1..Eos) /\ InSource \in Seq(1..Eos)
          /\ Len(conveyor \o InSource) = Len(conveyor) + Len(InSource)
      BY <1>2, FlightIs, ConcatProperties
    <3>4. Len(conveyor) = 0
      <4>1. Len(conveyor) \in Nat /\ Len(InSource) \in Nat
        BY <3>3
      <4> QED
        BY <3>2, <3>3, <4>1
    <3> QED
      BY <3>3, <3>4
  <2> QED
    BY <1>2, <2>3, <2>4, <2>5, <2>6 DEF EndInv
<1>16. ReplayInv'
  <2> SUFFICES ASSUME life = 1, NEW p \in Processes
               PROVE  profilers'[p] = OnStreamEos(traced'[p])
    <3>1. life = 1 => parsed = Eos /\ Flight' = <<>>
      BY <1>2, <1>15 DEF EndInv
    <3> QED
      BY <1>1, <3>1 DEF ReplayInv, Ended
  <2>1. parsed = Eos
    BY <1>2, <1>15 DEF EndInv
  <2>2. CASE p = SourceProcess
    BY <1>2, <1>7, <2>1, <2>2 DEF ReplayInv, Ended, Stayed
  <2>3. CASE p # SourceProcess
    <3>1. profilers[p] = traced[p]
      BY <1>2, <1>6, <2>3 DEF ReplayInv, Ended
    <3> QED
      BY <1>7, <2>3, <3>1 DEF Closed
  <2> QED
    BY <2>2, <2>3
<1>17. ASSUME ~early PROVE OrderInv' /\ RecordsInv'
  <2>1. OneByOne /\ (~removed => NotOvertaken)
    BY <1>17 DEF ProfilingInv, OrderInv
  <2>2. Flight' = <<>> /\ parsed = Eos /\ inDecoder = {} /\ conveyor = <<>> /\ DOMAIN Flight' = {}
    BY <1>15, <1>17
  <2>3. Range(Flight') = {}
    BY <2>2 DEF Range
  <2>4. OneByOne'
    BY <1>1, <2>1, <2>2 DEF OneByOne
  <2>5. NotOvertaken'
    BY <1>1, <2>2 DEF NotOvertaken
  <2>6. \A p \in Processes : profilers'[p].records = <<>>
    BY <1>12, <2>2
  <2>7. InPipeline' = {} /\ inDecoder' = {}
    BY <1>1, <2>2, <2>3 DEF InPipeline
  <2>8. SourceHolds' /\ OverallHolds'
    <3>1. profilers'[SourceProcess].records = <<>> /\ profilers'[Overall].records = <<>>
      BY <2>6, ProcessesAre
    <3> QED
      BY <2>7, <3>1 DEF SourceHolds, OverallHolds, Holds, Sorted, UpTo, SkipsOf, HasAll
  <2>9. InputHolds' /\ LeafHolds'
    <3>1. profilers'[LeafInput].records = <<>> /\ profilers'[LeafProcess].records = <<>>
      BY <2>6, ProcessesAre
    <3>2. conveyor' = <<>> /\ leaf' \notin Keys
      BY <1>1, <2>2, KeysAre DEF NoFrame
    <3> QED
      BY <3>1, <3>2 DEF InputHolds, LeafHolds
  <2> QED
    BY <2>4, <2>5, <2>8, <2>9 DEF OrderInv, RecordsInv
<1> QED
  BY <1>1, <1>9, <1>10, <1>13, <1>14, <1>16, <1>17 DEF ProfilingInv

\* At first no frame is recorded, and none is in flight.
LEMMA InitKeeps ==
  ASSUME ProfilingInit
  PROVE  ProfilingInv
<1>1. /\ profilers = [process \in Processes |-> Fresh] /\ traced = [process \in Processes |-> Fresh]
      /\ recorded \in BOOLEAN /\ life = 1 /\ parsed = 0 /\ inDecoder = {} /\ sent = {}
      /\ thread = <<>> /\ removed = FALSE /\ conveyor = <<>> /\ leaf = 0 /\ early = FALSE
  BY DEF ProfilingInit, Between, NoFrame
<1>2. \A p \in Processes : profilers[p] = Fresh /\ traced[p] = Fresh
  BY <1>1
<1>3. Fresh \in Profiler /\ Counts(Fresh)
  <2>1. <<>> \in Seq(Entry) /\ Len(<<>>) = 0
    OBVIOUS
  <2>2. Fresh \in Profiler
    BY <2>1 DEF Fresh, Profiler
  <2>3. /\ Fresh.exists = FALSE /\ Fresh.records = <<>> /\ Fresh.starts = 0 /\ Fresh.latencies = 0
        /\ Fresh.dropped = 0 /\ Fresh.ongoing = 0 /\ Fresh.left = 0 /\ Fresh.completed = 0
        /\ Fresh.unmatched = 0
    BY DEF Fresh
  <2> QED
    BY <2>1, <2>2, <2>3 DEF Counts
<1>4. CountsInv
  BY <1>1, <1>2, <1>3 DEF CountsInv
<1>5. Eos \in Nat \ {0} /\ Len(Frames) \in Nat \ {0}
  BY EosIsLast, ProfilingAssumption
<1>6. FlowTypeOK
  <2>1. <<>> \in Seq(1..Eos) /\ 0 \in 0..Eos /\ 1 \in 1..Len(Frames)
    BY <1>5
  <2> QED
    BY <1>1, <2>1 DEF FlowTypeOK, Between
<1>7. Flight = <<>>
  <2>1. InLeaf = <<>> /\ InSource = <<>>
    BY <1>1 DEF InLeaf, InSource, SourceEnded, NoFrame
  <2> QED
    BY <1>1, <2>1 DEF Flight
<1>8. parsed # Eos /\ thread \notin {<<Eos>>, <<Eos, Eos>>}
  BY <1>1, <1>5
<1>9. EndInv
  BY <1>1, <1>8 DEF EndInv
<1>10. MatchedInv
  BY <1>2 DEF MatchedInv, Fresh
<1>11. ReplayInv
  BY <1>2, <1>8 DEF ReplayInv, Ended
<1>12. DOMAIN Flight = {} /\ Range(Flight) = {}
  BY <1>7 DEF Range
<1>13. OrderInv
  BY <1>1, <1>12 DEF OrderInv, OneByOne, NotOvertaken
<1>14. \A p \in Processes : profilers[p].records = <<>>
  BY <1>2 DEF Fresh
<1>15. SourceHolds /\ OverallHolds
  <2>1. profilers[SourceProcess].records = <<>> /\ profilers[Overall].records = <<>>
    BY <1>14, ProcessesAre
  <2>2. InPipeline = {}
    BY <1>1, <1>12 DEF InPipeline
  <2> QED
    BY <1>1, <2>1, <2>2 DEF SourceHolds, OverallHolds, Holds, Sorted, UpTo, SkipsOf, HasAll
<1>16. InputHolds /\ LeafHolds
  <2>1. profilers[LeafInput].records = <<>> /\ profilers[LeafProcess].records = <<>>
    BY <1>14, ProcessesAre
  <2>2. leaf \notin Keys
    BY <1>1, KeysAre
  <2> QED
    BY <1>1, <2>1, <2>2 DEF InputHolds, LeafHolds
<1> QED
  BY <1>4, <1>6, <1>9, <1>10, <1>11, <1>13, <1>15, <1>16 DEF ProfilingInv, RecordsInv

\* Every step keeps the invariant.
LEMMA NextKeeps ==
  ASSUME ProfilingInv, [ProfilingNext]_profilingVars
  PROVE  ProfilingInv'
<1>1. CASE UNCHANGED profilingVars
  <2>1. /\ profilers' = profilers /\ traced' = traced /\ recorded' = recorded /\ life' = life
        /\ parsed' = parsed /\ inDecoder' = inDecoder /\ sent' = sent /\ thread' = thread
        /\ removed' = removed /\ conveyor' = conveyor /\ leaf' = leaf /\ early' = early
    BY <1>1 DEF profilingVars, flowVars
  <2>2. Flight' = Flight
    BY <2>1, FlightStays
  <2>3. Through' = Through /\ InPipeline' = InPipeline /\ \A i : InFront(i)' = InFront(i)
    BY <2>1, <2>2 DEF Through, InPipeline, InFront
  <2>4. /\ \A p : (Ended(p)' <=> Ended(p)) /\ (Recording(p)' <=> Recording(p))
        /\ \A key : Overtaken(key)' = Overtaken(key)
    BY <2>1, <2>2 DEF Ended, Recording, Overtaken
  <2>5. FlowTypeOK' /\ EndInv'
    BY <2>1, <2>2 DEF ProfilingInv, FlowTypeOK, EndInv
  <2>6. CountsInv' /\ MatchedInv' /\ ReplayInv'
    BY <2>1, <2>4, QuietKeeps
  <2>7. ~early => OrderInv'
    BY <2>1, <2>2, <2>3, <2>4 DEF ProfilingInv, OrderInv, OneByOne, NotOvertaken
  <2>8. ~early => RecordsInv'
    BY <2>1, <2>3
    DEF ProfilingInv, RecordsInv, SourceHolds, OverallHolds, Holds, InputHolds, LeafHolds
  <2> QED
    BY <2>1, <2>5, <2>6, <2>7, <2>8 DEF ProfilingInv
<1>2. CASE ProfilingNext
  <2> SUFFICES ASSUME recorded' = recorded,
                      \/ ReadPacket \/ LosePicture \/ SendData \/ TransmitToLeaf \/ SendEos
                      \/ PushEos \/ Pop \/ TransmitOut \/ EosOut \/ ForceRemove \/ AddAgain
               PROVE  ProfilingInv'
    BY <1>2 DEF ProfilingNext
  <2>1. CASE ReadPacket
    BY <2>1, ReadPacketKeeps
  <2>2. CASE LosePicture
    BY <2>2, LosePictureKeeps
  <2>3. CASE SendData
    BY <2>3, SendDataKeeps
  <2>4. CASE TransmitToLeaf
    BY <2>4, TransmitToLeafKeeps
  <2>5. CASE SendEos
    BY <2>5, SendEosKeeps
  <2>6. CASE PushEos
    BY <2>6, PushEosKeeps
  <2>7. CASE Pop
    BY <2>7, PopKeeps
  <2>8. CASE TransmitOut
    BY <2>8, TransmitOutKeeps
  <2>9. CASE EosOut
    BY <2>9, EosOutKeeps
  <2>10. CASE ForceRemove
    BY <2>10, ForceRemoveKeeps
  <2>11. CASE AddAgain
    BY <2>11, AddAgainKeeps
  <2> QED
    BY <2>1, <2>2, <2>3, <2>4, <2>5, <2>6, <2>7, <2>8, <2>9, <2>10, <2>11
<1> QED
  BY <1>1, <1>2

\* The invariant accounts for every frame.
LEMMA InvariantAccounts ==
  ASSUME ProfilingInv
  PROVE  ProfileAccounts
<1>1. FlowTypeOK /\ CountsInv /\ EndInv /\ MatchedInv /\ ReplayInv
  BY DEF ProfilingInv
<1>2. ASSUME NEW p \in Processes PROVE Accounts(p)
  <2>1. PICK profiler : profiler = profilers[p] /\ Counts(profiler)
    BY <1>1 DEF CountsInv
  <2>2. PICK c, d, o, f, s, l, u, r \in Nat :
          /\ c = profiler.completed /\ d = profiler.dropped /\ o = profiler.ongoing
          /\ f = profiler.left /\ s = profiler.starts /\ l = profiler.latencies
          /\ u = profiler.unmatched /\ r = Len(profiler.records)
    <3>1. Len(profiler.records) \in Nat
      BY <2>1, RecordsAre, EntryIs
    <3> QED
      BY <2>1, <3>1 DEF Counts, Profiler
  <2>3. s = l + d + r /\ o = r + f /\ c = l + u
    BY <2>1, <2>2 DEF Counts
  <2>4. PICK profile : /\ profile = GetProfile(profiler) /\ profile.ongoing = o
                       /\ profile.completed = c /\ profile.counter = c + d
    <3>1. PICK profile : profile = [completed |-> c, dropped |-> d, counter |-> c + d, ongoing |-> o]
      OBVIOUS
    <3>2. profile = GetProfile(profiler)
      BY <2>2, <3>1, Zenon DEF GetProfile
    <3>3. profile.ongoing = o /\ profile.completed = c /\ profile.counter = c + d
      BY <3>1
    <3> QED
      BY <3>2, <3>3
  <2>5. IF Recording(p) THEN ~early => u = 0 ELSE s = 0
    BY <1>1, <2>1, <2>2 DEF MatchedInv
  <2>6. IF Recording(p) THEN ~early => c + d + r = s ELSE l = 0 /\ c = c + d
    BY <2>3, <2>5
  <2>7. SourceEnded /\ EosIsThrough => profiler.records = <<>>
    <3> SUFFICES ASSUME SourceEnded, EosIsThrough PROVE profiler.records = <<>>
      OBVIOUS
    <3>1. parsed = Eos
      BY <1>1 DEF EndInv, SourceEnded
    <3>2. Flight = <<>>
      <4>1. InLeaf = <<>> /\ InSource = <<>> /\ conveyor = <<>>
        BY DEF EosIsThrough, InLeaf, InSource
      <4> QED
        BY <4>1 DEF Flight
    <3> QED
      BY <1>1, <2>1, <3>1, <3>2 DEF EndInv
  <2> QED
    BY <2>1, <2>2, <2>3, <2>4, <2>6, <2>7 DEF Accounts, Recording
<1>3. ASSUME NEW p \in Processes PROVE ReplayAccounts(p)
  <2> SUFFICES ASSUME life = 1
               PROVE  /\ GetProfile(traced[p]).completed = GetProfile(profilers[p]).completed
                      /\ traced[p].dropped + Len(traced[p].records)
                           = profilers[p].dropped + Len(profilers[p].records)
                      /\ traced[p].ongoing = profilers[p].ongoing
    BY DEF ReplayAccounts
  <2>1. profilers[p] = IF Ended(p) THEN OnStreamEos(traced[p]) ELSE traced[p]
    BY <1>1 DEF ReplayInv
  <2>2. CASE Ended(p)
    <3>1. PICK replayed, profiler : /\ replayed = traced[p] /\ profiler = profilers[p]
                                    /\ Counts(replayed) /\ profiler = OnStreamEos(replayed)
      BY <1>1, <2>1, <2>2 DEF CountsInv
    <3>2. /\ profiler.records = <<>> /\ profiler.completed = replayed.completed
          /\ profiler.ongoing = replayed.ongoing
          /\ profiler.dropped = replayed.dropped + Len(replayed.records)
      BY <3>1, EosIs
    <3>3. replayed.dropped + Len(replayed.records) \in Nat
      <4>1. replayed.dropped \in Nat
        BY <3>1 DEF Counts, Profiler
      <4>2. Len(replayed.records) \in Nat
        BY <3>1, RecordsAre, EntryIs
      <4> QED
        BY <4>1, <4>2
    <3>4. profiler.dropped + Len(profiler.records) = replayed.dropped + Len(replayed.records)
      BY <3>2, <3>3
    <3> QED
      BY <3>1, <3>2, <3>4 DEF GetProfile
  <2>3. CASE ~Ended(p)
    BY <2>1, <2>3
  <2> QED
    BY <2>2, <2>3
<1> QED
  BY <1>2, <1>3 DEF ProfileAccounts

(* For every length of the streams, every depth of the decoder's buffer    *)
(* and every capacity of the conveyor, whenever a stream is removed or     *)
(* added again: the profile of every process accounts for every frame, and *)
(* so does the profile of a period.  What it needs of the decoder is that  *)
(* it reorders no further than its buffer, as ProfilingAssumption says.    *)
THEOREM ProfilerAccounts == ProfilingSpec => []ProfileAccounts
<1>1. ProfilingInit => ProfilingInv
  BY InitKeeps
<1>2. ProfilingInv /\ [ProfilingNext]_profilingVars => ProfilingInv'
  BY NextKeeps
<1>3. ProfilingInv => ProfileAccounts
  BY InvariantAccounts
<1> QED
  BY <1>1, <1>2, <1>3, PTL DEF ProfilingSpec

-----------------------------------------------------------------------------
(* The tracer.                                                             *)

LEMMA SizeFacts == buffer_size \in Nat \ {0} /\ TraceCapacity <= buffer_size
  BY TraceAssumption DEF buffer_size

LEMMA DivMod ==
  ASSUME NEW x \in Int, NEW n \in Nat \ {0}
  PROVE  /\ x % n \in 0..n - 1 /\ x \div n \in Int
         /\ x = n * (x \div n) + (x % n)
  BY SMT

LEMMA Multiple ==
  ASSUME NEW k \in Int, NEW n \in Nat \ {0}
  PROVE  /\ n * k \in Int
         /\ k > 0 => n * k >= n
         /\ n * k > 0 => k > 0
         /\ n * k = 0 => k = 0
         /\ n * k > -n => k > -1
         /\ n * k < n => k < 1
  BY SMT

LEMMA Order ==
  ASSUME NEW j \in Int, NEW k \in Int, NEW n \in Nat \ {0}
  PROVE  /\ j < k <=> n * j < n * k
         /\ n * (j - k) = n * j - n * k
  BY SMT

LEMMA Remainder ==
  ASSUME NEW q \in Int, NEW r \in Int, NEW n \in Nat \ {0}, 0 <= r, r < n
  PROVE  (n * q + r) % n = r /\ (n * q + r) \div n = q
  BY SMT

(* How far two positions of one slot are apart.                            *)
LapsApart(i, j) == (i \div buffer_size) - (j \div buffer_size)

LEMMA SameSlot ==
  ASSUME NEW i \in Int, NEW j \in Int, SlotOf(i) = SlotOf(j)
  PROVE  /\ LapsApart(i, j) \in Int
         /\ i - j = buffer_size * LapsApart(i, j)
         /\ j < i => LapsApart(i, j) >= 1 /\ i >= j + buffer_size
         /\ i < j => LapsApart(i, j) <= -1
         /\ i = j => LapsApart(i, j) = 0
<1> DEFINE n == buffer_size
           a == i \div n
           b == j \div n
<1>1. n \in Nat \ {0}
  BY SizeFacts
<1>2. a \in Int /\ b \in Int /\ i = n * a + (i % n) /\ j = n * b + (j % n)
      /\ i % n \in 0..n - 1 /\ j % n \in 0..n - 1
  BY <1>1, DivMod
<1>3. i % n = j % n
  BY DEF SlotOf
<1>4. LapsApart(i, j) = a - b
  BY DEF LapsApart
<1> HIDE DEF n, a, b
<1>5. n * (a - b) = n * a - n * b
  BY <1>1, <1>2, Order
<1>6. n * a \in Int /\ n * b \in Int
  BY <1>1, <1>2
<1>7. i - j = n * (a - b)
  BY <1>2, <1>3, <1>5, <1>6
<1>8. a - b \in Int /\ n * (a - b) \in Int
  BY <1>1, <1>2
<1>9. /\ n * (a - b) > 0 => a - b > 0
      /\ a - b > 0 => n * (a - b) >= n
      /\ n * (a - b) = 0 => a - b = 0
  BY <1>1, <1>8, Multiple
<1>10. n * (a - b) < 0 => a - b < 0
  BY <1>1, <1>8
<1>11. n = buffer_size
  BY DEF n
<1> QED
  BY <1>1, <1>4, <1>7, <1>8, <1>9, <1>10, <1>11

(* The laps of two positions are compared rightly when they are at most    *)
(* half of the circle apart.                                               *)
Half == (LapMask + 1) \div 2

LEMMA LapType ==
  ASSUME NEW i \in Int
  PROVE  GetLap(i) \in 0..LapMask
<1>1. buffer_size \in Nat \ {0} /\ LapMask + 1 \in Nat \ {0}
  BY SizeFacts, TraceAssumption
<1>2. (i \div buffer_size) + 1 \in Int
  BY <1>1, DivMod
<1>3. ((i \div buffer_size) + 1) % (LapMask + 1) \in 0..(LapMask + 1) - 1
  BY <1>1, <1>2, DivMod
<1> QED
  BY <1>3, TraceAssumption DEF GetLap

LEMMA ModDifference ==
  ASSUME NEW a \in Int, NEW b \in Int, NEW n \in Nat \ {0},
         0 <= a - b, a - b < n
  PROVE  /\ ((a % n) - (b % n)) % n = a - b
         /\ 0 < a - b => ((b % n) - (a % n)) % n = n - (a - b)
<1> DEFINE p == a \div n
           q == b \div n
           r == a % n
           s == b % n
<1>1. /\ p \in Int /\ q \in Int /\ r \in 0..n - 1 /\ s \in 0..n - 1
      /\ a = n * p + r /\ b = n * q + s
  BY DivMod
<1> HIDE DEF p, q, r, s
<1>2. /\ n * (q - p) = n * q - n * p /\ n * (p - q) = n * p - n * q
      /\ n * (p - q - 1) = n * (p - q) - n * 1
  <2>1. p - q \in Int /\ 1 \in Int
    BY <1>1
  <2> QED
    BY <1>1, <2>1, Order
<1>3. n * p \in Int /\ n * q \in Int
  BY <1>1
<1>4. r - s = n * (q - p) + (a - b)
  BY <1>1, <1>2, <1>3
<1>5. q - p \in Int /\ p - q - 1 \in Int
  BY <1>1
<1>6. (r - s) % n = a - b
  <2> DEFINE d == a - b
             e == q - p
  <2>1. d \in Int /\ 0 <= d /\ d < n /\ e \in Int /\ r - s = n * e + d
    BY <1>4, <1>5
  <2> HIDE DEF d, e
  <2>2. (n * e + d) % n = d
    BY <2>1, Remainder
  <2> QED
    BY <2>1, <2>2 DEF d
<1>7. ASSUME 0 < a - b
      PROVE  (s - r) % n = n - (a - b)
  <2>1. s - r = n * (p - q - 1) + (n - (a - b))
    BY <1>1, <1>2, <1>3
  <2> QED
    BY <1>5, <1>7, <2>1, Remainder
<1> QED
  BY <1>6, <1>7 DEF r, s

LEMMA LapsCompared ==
  ASSUME NEW i \in Int, NEW j \in Int, SlotOf(i) = SlotOf(j), j < i, LapsApart(i, j) <= Half
  PROVE  /\ MaxLap(GetLap(j), GetLap(i)) = GetLap(i) /\ GetLap(i) # GetLap(j)
         /\ LapsApart(i, j) < Half => MaxLap(GetLap(i), GetLap(j)) = GetLap(i)
<1> DEFINE n == LapMask + 1
           a == (i \div buffer_size) + 1
           b == (j \div buffer_size) + 1
           k == LapsApart(i, j)
<1>1. n \in Nat \ {0} /\ n > 1 /\ LapMask = n - 1
  BY TraceAssumption
<1>2. a \in Int /\ b \in Int
  BY SizeFacts, DivMod
<1>3. a - b = k /\ k \in Int /\ k >= 1
  <2>1. i \div buffer_size \in Int /\ j \div buffer_size \in Int
    BY SizeFacts, DivMod
  <2> QED
    BY <2>1, SameSlot DEF LapsApart
<1>4. /\ Half = n \div 2 /\ k <= n \div 2
      /\ GetLap(i) = a % n /\ GetLap(j) = b % n
  BY DEF Half, GetLap
<1>5. GetLap(i) \in Int /\ GetLap(j) \in Int
  BY LapType, TraceAssumption
<1> HIDE DEF n, a, b, k
<1>6. 0 <= a - b /\ a - b < n /\ 0 < a - b
  BY <1>1, <1>3, <1>4
<1>7. ((a % n) - (b % n)) % n = k /\ ((b % n) - (a % n)) % n = n - k
  BY <1>1, <1>2, <1>3, <1>6, ModDifference
<1>8. MaxLap(GetLap(j), GetLap(i)) = GetLap(i)
  <2>1. ~(n - k <= (n - 1) \div 2)
    BY <1>1, <1>3, <1>4
  <2> QED
    BY <1>1, <1>4, <1>7, <2>1 DEF MaxLap
<1>9. k < n \div 2 => MaxLap(GetLap(i), GetLap(j)) = GetLap(i)
  <2>1. k < n \div 2 => k <= (n - 1) \div 2
    BY <1>1, <1>3
  <2> QED
    BY <1>1, <1>4, <1>7, <2>1 DEF MaxLap
<1>10. GetLap(i) # GetLap(j)
  <2>1. ASSUME a % n = b % n
        PROVE  FALSE
    <3>1. a % n \in Int /\ (a % n) - (b % n) = 0
      BY <1>4, <1>5, <2>1
    <3>2. 0 % n = 0
      BY <1>1
    <3> QED
      BY <1>3, <1>7, <3>1, <3>2
  <2> QED
    BY <1>4, <2>1
<1> QED
  BY <1>4, <1>8, <1>9, <1>10 DEF k

-----------------------------------------------------------------------------
(* What the threads that hold positions say about the newest one.          *)

LEMMA SlotType ==
  ASSUME NEW i \in Int
  PROVE  SlotOf(i) \in BufferSlots
  BY SizeFacts, DivMod DEF SlotOf, BufferSlots

LEMMA NextLap ==
  ASSUME NEW i \in Int
  PROVE  SlotOf(i + buffer_size) = SlotOf(i)
<1> DEFINE n == buffer_size
           q == i \div n
           r == i % n
<1>1. n \in Nat \ {0}
  BY SizeFacts
<1>2. q \in Int /\ r \in 0..n - 1 /\ i = n * q + r
  BY <1>1, DivMod
<1> HIDE DEF n, q, r
<1>3. n * q \in Int /\ n * (q + 1) = n * q + n /\ q + 1 \in Int
  BY <1>1, <1>2
<1>4. i + n = n * (q + 1) + r
  BY <1>1, <1>2, <1>3
<1>5. (i + n) % n = r
  BY <1>1, <1>2, <1>3, <1>4, Remainder
<1> QED
  BY <1>5 DEF n, r, SlotOf

LEMMA HalfType == Half \in Nat /\ buffer_size * Half \in Int
<1>1. Half \in Nat
  BY TraceAssumption DEF Half
<1> QED
  BY <1>1, SizeFacts

(* A position after the newest is at most half of the circle after it: the *)
(* next position of the slot is held by a thread nobody lapped.            *)
LEMMA AheadWithinHalf ==
  ASSUME TraceTypeOK, NobodyLapped, NEW slot, NEW l, NEW top \in Int, IsNewest(top, slot, l),
         NEW i \in 0..current - 1, SlotOf(i) = slot, top < i
  PROVE  LapsApart(i, top) <= Half
<1> DEFINE next == top + buffer_size
           k == LapsApart(i, top)
<1>1. buffer_size \in Nat \ {0} /\ current \in Nat /\ i \in Int
  BY SizeFacts DEF TraceTypeOK
<1>2. top >= -buffer_size /\ top < current /\ SlotOf(top) = slot
  BY <1>1 DEF IsNewest, Tops
<1>3. k \in Int /\ i - top = buffer_size * k /\ i >= next
  BY <1>1, <1>2, SameSlot
<1>4. next \in 0..current - 1 /\ top < next /\ SlotOf(next) = slot
  BY <1>1, <1>2, <1>3, NextLap
<1>5. PICK w \in Writers : Placed(w) /\ writers[w].i = next
  BY <1>4 DEF IsNewest
<1>6. current - next <= buffer_size * Half
  BY <1>5 DEF NobodyLapped, Half
<1>7. buffer_size * (k - 1) = buffer_size * k - buffer_size * 1
  <2>1. 1 \in Int
    OBVIOUS
  <2> QED
    BY <1>1, <1>3, <2>1, Order
<1>8. buffer_size * k \in Int
  BY <1>1, <1>3
<1>9. buffer_size * (k - 1) < buffer_size * Half
  BY <1>1, <1>2, <1>3, <1>6, <1>7, <1>8, HalfType
<1>10. k - 1 < Half
  <2>1. k - 1 \in Int /\ Half \in Int
    BY <1>3, HalfType
  <2> QED
    BY <1>1, <1>9, <2>1, Order
<1> QED
  BY <1>3, <1>10, HalfType

(* A position of the slot that is not later than the newest and is held by *)
(* a thread nobody lapped is less than half of the circle behind it.       *)
LEMMA BehindWithinHalf ==
  ASSUME TraceTypeOK, NobodyLapped, NEW w \in Writers, Placed(w),
         NEW top \in Tops, SlotOf(top) = SlotOf(writers[w].i), writers[w].i < top
  PROVE  LapsApart(top, writers[w].i) < Half
<1> DEFINE i == writers[w].i
           k == LapsApart(top, i)
<1>1. buffer_size \in Nat \ {0} /\ current \in Nat /\ i \in Nat /\ top \in Int /\ top < current
  BY SizeFacts DEF TraceTypeOK, Tops
<1>2. k \in Int /\ top - i = buffer_size * k
  <2>1. i \in Int /\ top \in Int /\ SlotOf(top) = SlotOf(i)
    BY <1>1
  <2> QED
    BY <2>1, SameSlot, Zenon
<1>3. current - i <= buffer_size * Half
  BY DEF NobodyLapped, Half
<1>4. buffer_size * k \in Int
  BY <1>1, <1>2
<1>5. buffer_size * k < buffer_size * Half
  BY <1>1, <1>2, <1>3, <1>4, HalfType
<1>6. Half \in Int
  BY HalfType
<1> QED
  BY <1>1, <1>2, <1>5, <1>6, Order

(* A step after which every position of the slot that is held, or was      *)
(* taken by it, is held.                                                   *)
StillHeld(slot) ==
  /\ current \in Nat /\ current' \in Nat /\ current <= current'
  /\ overtaken \subseteq overtaken'
  /\ \A i \in 0..current' - 1 :
       SlotOf(i) = slot /\ (i < current => \E w \in Writers : Placed(w) /\ writers[w].i = i) =>
         \E w \in Writers : Placed(w)' /\ writers'[w].i = i

\* The newest position of the slot stays the newest after such a step.
LEMMA NewestKept ==
  ASSUME NEW top, NEW slot, NEW l, IsNewest(top, slot, l), StillHeld(slot)
  PROVE  top \in Tops' /\ IsNewest(top, slot, l)'
<1>1. top \in Tops' /\ SlotOf(top) = slot /\ l = GetLap(top) /\ top \in Int
  BY SizeFacts DEF IsNewest, Tops, StillHeld
<1>2. ASSUME NEW i \in 0..current' - 1, SlotOf(i) = slot, top < i
      PROVE  \E w \in Writers : Placed(w)' /\ writers'[w].i = i
  <2>1. i < current => \E w \in Writers : Placed(w) /\ writers[w].i = i
    BY <1>2 DEF IsNewest, StillHeld
  <2> QED
    BY <1>2, <2>1 DEF StillHeld
<1> QED
  BY <1>1, <1>2 DEF IsNewest, SlotOf, GetLap

\* So a slot that is left alone keeps what the invariant says of it: a free slot,
LEMMA FreeSlotKept ==
  ASSUME FreeSlots, NEW slot \in BufferSlots, Free(slot), StillHeld(slot),
         lap'[slot] = lap[slot], buffer'[slot] = buffer[slot]
  PROVE  \E top \in Tops' : IsNewest(top, slot, lap[slot])' /\ Keeps(slot, top)'
<1>1. PICK top \in Tops : IsNewest(top, slot, lap[slot]) /\ Keeps(slot, top)
  BY DEF FreeSlots
<1>2. PICK l : l = lap[slot]
  OBVIOUS
<1>3. top \in Tops' /\ IsNewest(top, slot, l)'
  BY <1>1, <1>2, NewestKept
<1>4. IsNewest(top, slot, lap[slot])'
  BY <1>2, <1>3 DEF IsNewest
<1>5. Keeps(slot, top)'
  BY <1>1 DEF Keeps, StillHeld
<1> QED
  BY <1>3, <1>4, <1>5

\* one that a thread writes,
LEMMA WrittenSlotKept ==
  ASSUME WrittenSlots, NEW v \in Writers, WriterCopies(v), writers'[v] = writers[v],
         NEW slot, slot = SlotOf(writers[v].i), StillHeld(slot)
  PROVE  \E top \in Tops' : /\ IsNewest(top, SlotOf(writers[v].i), writers[v].prev)'
                            /\ top <= writers'[v].i \/ top \in overtaken'
<1>1. PICK top \in Tops : /\ IsNewest(top, SlotOf(writers[v].i), writers[v].prev)
                          /\ top <= writers[v].i \/ top \in overtaken
  BY DEF WrittenSlots
<1>2. PICK l : l = writers[v].prev
  OBVIOUS
<1>3. top \in Tops' /\ IsNewest(top, slot, l)'
  BY <1>1, <1>2, NewestKept
<1>4. IsNewest(top, SlotOf(writers[v].i), writers[v].prev)'
  BY <1>2, <1>3 DEF IsNewest, SlotOf
<1> QED
  BY <1>1, <1>3, <1>4 DEF StillHeld

\* and the one that GetTrace reads.
LEMMA ReadSlotKept ==
  ASSUME ReadSlot, reader' = reader, NEW slot, slot = SlotOf(reader.it), StillHeld(slot),
         ReaderCopies => buffer'[slot] = buffer[slot]
  PROVE  ReadSlot'
<1> SUFFICES ASSUME ReaderCopies
             PROVE  \E top \in Tops' : /\ IsNewest(top, SlotOf(reader.it), reader.prev)'
                                       /\ Keeps(SlotOf(reader.it), top)' /\ reader'.it <= top
  BY DEF ReadSlot, ReaderCopies
<1>1. PICK top \in Tops : /\ IsNewest(top, SlotOf(reader.it), reader.prev)
                          /\ Keeps(SlotOf(reader.it), top) /\ reader.it <= top
  BY DEF ReadSlot
<1>2. PICK l : l = reader.prev
  OBVIOUS
<1>3. top \in Tops' /\ IsNewest(top, slot, l)'
  BY <1>1, <1>2, NewestKept
<1>4. IsNewest(top, SlotOf(reader.it), reader.prev)'
  BY <1>2, <1>3 DEF IsNewest, SlotOf
<1>5. Keeps(SlotOf(reader.it), top)'
  BY <1>1 DEF Keeps, SlotOf, StillHeld
<1> QED
  BY <1>1, <1>3, <1>4, <1>5

LEMMA TraceHoldsKept ==
  ASSUME TraceTypeOK, TraceHolds, trace' = trace, reader'.it = reader.it,
         current' \in Nat, current <= current', overtaken \subseteq overtaken'
  PROVE  TraceHolds'
<1> SUFFICES ASSUME NEW k \in DOMAIN trace
             PROVE  /\ trace[k].asked = reader.it - Len(trace) + k - 1
                    /\ trace[k].event \in 0..current' - 1
                    /\ SlotOf(trace[k].event) = SlotOf(trace[k].asked)
                    /\ trace[k].event < trace[k].asked =>
                         \E newer \in overtaken' :
                           newer >= trace[k].asked /\ SlotOf(newer) = SlotOf(trace[k].asked)
  BY DEF TraceHolds, SlotOf, buffer_size
<1>1. /\ trace[k].asked = reader.it - Len(trace) + k - 1
      /\ trace[k].event \in 0..current - 1 /\ SlotOf(trace[k].event) = SlotOf(trace[k].asked)
      /\ trace[k].event < trace[k].asked =>
           \E newer \in overtaken : newer >= trace[k].asked /\ SlotOf(newer) = SlotOf(trace[k].asked)
  BY DEF TraceHolds
<1>2. current \in Nat
  BY DEF TraceTypeOK
<1>3. trace[k].event \in 0..current' - 1
  <2>1. PICK ev : ev = trace[k].event /\ ev \in 0..current - 1
    BY <1>1
  <2>2. ev \in 0..current' - 1
    BY <1>2, <2>1
  <2> QED
    BY <2>1, <2>2
<1> QED
  BY <1>1, <1>3, Zenon

-----------------------------------------------------------------------------
(* The steps of the threads that record events.                            *)

LEMMA WriterTypes ==
  ASSUME TraceTypeOK, NEW w \in Writers
  PROVE  /\ writers[w].i \in Nat /\ writers[w].prev \in 0..LapMask
         /\ SlotOf(writers[w].i) \in BufferSlots
<1>1. writers[w].i \in Nat /\ writers[w].prev \in 0..LapMask
  BY DEF TraceTypeOK
<1> QED
  BY <1>1, SlotType

LEMMA ReaderTypes ==
  ASSUME TraceTypeOK
  PROVE  /\ reader.it \in Nat /\ reader.end \in Nat /\ reader.prev \in 0..LapMask
         /\ SlotOf(reader.it) \in BufferSlots
<1>1. reader.it \in Nat /\ reader.end \in Nat /\ reader.prev \in 0..LapMask
  BY DEF TraceTypeOK
<1> QED
  BY <1>1, SlotType

LEMMA TakePositionKeeps ==
  ASSUME TraceInv, NEW w \in Writers, TakePosition(w)
  PROVE  TraceInv'
<1> USE DEF TraceInv, Placed, WriterCopies, ReaderCopies
<1>1. /\ current \in Nat /\ current' = current + 1 /\ writers[w].at = "idle"
      /\ lap' = lap /\ buffer' = buffer /\ reader' = reader /\ trace' = trace
      /\ overtaken' = overtaken
  BY DEF TakePosition, TraceTypeOK
<1>2. /\ writers' = [writers EXCEPT ![w] = [at |-> "placed", i |-> current, prev |-> 0]]
      /\ writers'[w] = [at |-> "placed", i |-> current, prev |-> 0]
      /\ \A v \in Writers : v # w => writers'[v] = writers[v]
  BY DEF TakePosition, TraceTypeOK
<1>3. TraceTypeOK'
  <2>1. [at |-> "placed", i |-> current, prev |-> 0] \in
          [at : {"idle", "placed", "copying"}, i : Nat, prev : 0..LapMask]
    BY <1>1, TraceAssumption
  <2> QED
    BY <1>1, <1>2, <2>1 DEF TraceTypeOK, BufferSlots
<1>4. Positions'
  BY <1>1, <1>2, WriterTypes DEF Positions, SlotOf, buffer_size
<1>5. ASSUME NEW slot
      PROVE  StillHeld(slot)
  <2>1. ASSUME NEW i \in 0..current' - 1,
               i < current => \E v \in Writers : Placed(v) /\ writers[v].i = i
        PROVE  \E v \in Writers : Placed(v)' /\ writers'[v].i = i
    <3>1. CASE i = current
      BY <1>2, <3>1
    <3>2. CASE i # current
      BY <1>1, <1>2, <2>1, <3>2
    <3> QED
      BY <3>1, <3>2
  <2> QED
    BY <1>1, <2>1 DEF StillHeld
<1>6. FreeSlots'
  BY <1>1, <1>5, FreeSlotKept DEF FreeSlots, Free, BufferSlots, buffer_size
<1>7. WrittenSlots'
  <2> SUFFICES ASSUME NEW v \in Writers, writers'[v].at = "copying"
               PROVE  \E top \in Tops' : /\ IsNewest(top, SlotOf(writers[v].i), writers[v].prev)'
                                         /\ top <= writers'[v].i \/ top \in overtaken'
    BY DEF WrittenSlots
  <2>1. v # w /\ writers'[v] = writers[v]
    BY <1>2
  <2>2. PICK slot : slot = SlotOf(writers[v].i)
    OBVIOUS
  <2> QED
    BY <1>5, <2>1, <2>2, WrittenSlotKept
<1>8. ReadSlot'
  <2>1. PICK slot : slot = SlotOf(reader.it)
    OBVIOUS
  <2> QED
    BY <1>1, <1>5, <2>1, ReadSlotKept
<1>9. Iterators'
  BY <1>1 DEF Iterators, TraceTypeOK
<1>10. TraceHolds'
  BY <1>1, TraceHoldsKept
<1> QED
  BY <1>3, <1>4, <1>6, <1>7, <1>8, <1>9, <1>10

\* While no position is taken or given up, every held one stays held.
LEMMA AllStillHeld ==
  ASSUME TraceTypeOK, current' = current, overtaken \subseteq overtaken',
         \A v \in Writers : Placed(v) => Placed(v)' /\ writers'[v].i = writers[v].i
  PROVE  \A slot : StillHeld(slot)
<1> TAKE slot
<1>1. current \in Nat /\ current' \in Nat /\ current <= current'
  BY DEF TraceTypeOK
<1>2. ASSUME NEW i \in 0..current' - 1,
             i < current => \E v \in Writers : Placed(v) /\ writers[v].i = i
      PROVE  \E v \in Writers : Placed(v)' /\ writers'[v].i = i
  BY <1>1, <1>2
<1> QED
  BY <1>1, <1>2 DEF StillHeld

LEMMA AcquireForWriteKeeps ==
  ASSUME TraceInv, NEW w \in Writers, AcquireForWrite(w)
  PROVE  TraceInv'
<1> USE DEF TraceInv, WriterCopies, ReaderCopies
<1>1. PICK s : s = SlotOf(writers[w].i)
  OBVIOUS
<1>2. s \in BufferSlots /\ writers[w].i \in Nat
  BY <1>1, WriterTypes
<1>3. /\ writers[w].at = "placed" /\ Free(s)
      /\ current' = current /\ reader' = reader /\ trace' = trace
      /\ lap' = [lap EXCEPT ![s] = kBusy] /\ buffer' = [buffer EXCEPT ![s] = Torn]
      /\ overtaken' = IF buffer[s] > writers[w].i THEN overtaken \cup {buffer[s]} ELSE overtaken
  BY <1>1 DEF AcquireForWrite
<1>4. /\ writers' = [writers EXCEPT ![w] = [@ EXCEPT !.at = "copying", !.prev = lap[s]]]
      /\ writers'[w].at = "copying" /\ writers'[w].prev = lap[s]
      /\ writers'[w].i = writers[w].i
      /\ \A v \in Writers : v # w => writers'[v] = writers[v]
  BY <1>1 DEF AcquireForWrite, TraceTypeOK
<1>5. /\ lap'[s] = kBusy
      /\ \A slot \in BufferSlots : slot # s => lap'[slot] = lap[slot] /\ buffer'[slot] = buffer[slot]
  BY <1>2, <1>3 DEF TraceTypeOK
<1>6. lap[s] \in 0..LapMask /\ buffer[s] \in Int
  BY <1>2, <1>3 DEF TraceTypeOK, Free
<1>7. overtaken \subseteq overtaken' /\ overtaken' \subseteq Nat
      /\ (buffer[s] > writers[w].i => buffer[s] \in overtaken')
  <2>1. overtaken \subseteq Nat
    BY DEF TraceTypeOK
  <2>2. CASE buffer[s] > writers[w].i
    <3>1. buffer[s] \in Nat
      BY <1>2, <1>6, <2>2
    <3>2. overtaken' = overtaken \cup {buffer[s]}
      BY <1>3, <2>2
    <3> QED
      BY <2>1, <3>1, <3>2
  <2>3. CASE ~(buffer[s] > writers[w].i)
    BY <1>3, <2>1, <2>3
  <2> QED
    BY <2>2, <2>3
<1>8. TraceTypeOK'
  <2>1. lap' \in [BufferSlots -> {kBusy} \cup 0..LapMask] /\ buffer' \in [BufferSlots -> Int]
    <3>1. lap \in [BufferSlots -> {kBusy} \cup 0..LapMask] /\ buffer \in [BufferSlots -> Int]
      BY DEF TraceTypeOK
    <3>2. Torn \in Int
      BY DEF Torn
    <3>3. buffer' \in [BufferSlots -> Int]
      BY <1>3, <3>1, <3>2
    <3>4. lap' \in [BufferSlots -> {kBusy} \cup 0..LapMask]
      BY <1>3, <3>1
    <3> QED
      BY <3>3, <3>4
  <2>2. writers' \in [Writers -> [at : {"idle", "placed", "copying"}, i : Nat, prev : 0..LapMask]]
    BY <1>4, <1>6 DEF TraceTypeOK
  <2> QED
    BY <1>3, <1>7, <2>1, <2>2 DEF TraceTypeOK, BufferSlots, buffer_size, kBusy
<1>9. /\ \A v \in Writers : WriterCopies(v) => SlotOf(writers[v].i) # s
      /\ ReaderCopies => SlotOf(reader.it) # s
  BY <1>3 DEF Positions, Free
<1>10. \A v \in Writers : Placed(v)' <=> Placed(v)
  BY <1>3, <1>4 DEF Placed
<1>11. \A slot : StillHeld(slot)
  BY <1>3, <1>4, <1>7, <1>10, AllStillHeld
<1>12. Positions'
  <2>1. \A v \in Writers : writers'[v].i = writers[v].i
    BY <1>4
  <2>2. /\ \A v \in Writers : Placed(v)' => writers'[v].i < current'
        /\ \A u, v \in Writers : Placed(u)' /\ Placed(v)' /\ u # v => writers'[u].i # writers'[v].i
    BY <1>3, <1>10, <2>1 DEF Positions
  <2>3. \A u, v \in Writers :
          WriterCopies(u)' /\ WriterCopies(v)' /\ u # v => SlotOf(writers'[u].i) # SlotOf(writers'[v].i)
    BY <1>1, <1>4, <1>9, <2>1 DEF Positions
  <2>4. \A v \in Writers : WriterCopies(v)' => lap'[SlotOf(writers'[v].i)] = kBusy
    BY <1>1, <1>4, <1>5, <1>9, <2>1, WriterTypes DEF Positions
  <2>5. ReaderCopies => lap'[SlotOf(reader.it)] = kBusy
    BY <1>5, <1>9, ReaderTypes DEF Positions
  <2>6. \A v \in Writers : WriterCopies(v)' /\ ReaderCopies => SlotOf(writers'[v].i) # SlotOf(reader.it)
    BY <1>1, <1>4, <1>9, <2>1 DEF Positions
  <2> QED
    BY <1>3, <2>2, <2>3, <2>4, <2>5, <2>6 DEF Positions, SlotOf, kBusy, buffer_size
<1>13. FreeSlots'
  <2> SUFFICES ASSUME NEW slot \in BufferSlots, lap'[slot] # kBusy
               PROVE  \E top \in Tops' : IsNewest(top, slot, lap[slot])' /\ Keeps(slot, top)'
    BY DEF FreeSlots, Free, BufferSlots, buffer_size, kBusy
  <2>1. slot # s
    BY <1>5
  <2>2. Free(slot) /\ lap'[slot] = lap[slot] /\ buffer'[slot] = buffer[slot]
    BY <1>5, <2>1 DEF Free
  <2> QED
    BY <1>11, <2>2, FreeSlotKept
<1>14. WrittenSlots'
  <2> SUFFICES ASSUME NEW v \in Writers, writers'[v].at = "copying"
               PROVE  \E top \in Tops' : /\ IsNewest(top, SlotOf(writers[v].i), writers[v].prev)'
                                         /\ top <= writers'[v].i \/ top \in overtaken'
    BY DEF WrittenSlots
  <2>1. CASE v # w
    <3>1. PICK slot : slot = SlotOf(writers[v].i)
      OBVIOUS
    <3> QED
      BY <1>4, <1>11, <2>1, <3>1, WrittenSlotKept
  <2>2. CASE v = w
    <3>1. PICK l : l = lap[s]
      OBVIOUS
    <3>2. PICK top \in Tops : IsNewest(top, s, l) /\ Keeps(s, top)
      BY <1>2, <1>3, <3>1 DEF FreeSlots
    <3>3. top \in Tops' /\ IsNewest(top, s, l)'
      BY <1>11, <3>2, NewestKept
    <3>4. IsNewest(top, SlotOf(writers[v].i), writers[v].prev)'
      BY <1>1, <1>4, <2>2, <3>1, <3>3 DEF IsNewest, SlotOf
    <3>5. top <= writers[w].i \/ top \in overtaken'
      <4>1. top \in Int
        BY SizeFacts DEF Tops, TraceTypeOK
      <4> QED
        BY <1>2, <1>6, <1>7, <3>2, <4>1 DEF Keeps
    <3> QED
      BY <1>4, <2>2, <3>3, <3>4, <3>5
  <2> QED
    BY <2>1, <2>2
<1>15. ReadSlot'
  <2>1. PICK slot : slot = SlotOf(reader.it)
    OBVIOUS
  <2>2. ReaderCopies => buffer'[slot] = buffer[slot]
    BY <1>5, <1>9, <2>1, ReaderTypes
  <2> QED
    BY <1>3, <1>11, <2>1, <2>2, ReadSlotKept
<1>16. Iterators'
  BY <1>3 DEF Iterators
<1>17. TraceHolds'
  BY <1>3, <1>7, TraceHoldsKept DEF TraceTypeOK
<1> QED
  BY <1>8, <1>12, <1>13, <1>14, <1>15, <1>16, <1>17

(* What the release leaves in the slot: the lap of the later of the two,   *)
(* and the event of the thread.                                            *)
LEMMA ReleasedLap ==
  ASSUME TraceTypeOK, NobodyLapped, NEW w \in Writers, Placed(w), writers[w].i < current,
         NEW s, s = SlotOf(writers[w].i), NEW top \in Tops, NEW l, IsNewest(top, s, l)
  PROVE  MaxLap(l, GetLap(writers[w].i)) = GetLap(IF top <= writers[w].i THEN writers[w].i ELSE top)
<1> DEFINE i == writers[w].i
<1>1. i \in Nat /\ top \in Int /\ current \in Nat /\ i \in 0..current - 1
  BY WriterTypes, SizeFacts DEF TraceTypeOK, Tops
<1>2. SlotOf(top) = s /\ l = GetLap(top)
  BY DEF IsNewest
<1>3. CASE top < i
  <2>1. LapsApart(i, top) <= Half
    BY <1>1, <1>2, <1>3, AheadWithinHalf
  <2>2. MaxLap(GetLap(top), GetLap(i)) = GetLap(i)
    BY <1>1, <1>2, <1>3, <2>1, LapsCompared
  <2> QED
    BY <1>1, <1>2, <1>3, <2>2
<1>4. CASE top = i
  BY <1>2, <1>4 DEF MaxLap
<1>5. CASE i < top
  <2>1. LapsApart(top, i) < Half
    BY <1>2, <1>5, BehindWithinHalf
  <2>2. LapsApart(top, i) <= Half
    BY <1>1, <1>2, <2>1, HalfType, SameSlot
  <2>3. MaxLap(GetLap(top), GetLap(i)) = GetLap(top)
    BY <1>1, <1>2, <1>5, <2>1, <2>2, LapsCompared
  <2> QED
    BY <1>1, <1>2, <1>5, <2>3
<1> QED
  BY <1>1, <1>3, <1>4, <1>5

LEMMA ReleaseWrittenKeeps ==
  ASSUME TraceInv, NobodyLapped, NEW w \in Writers, ReleaseWritten(w)
  PROVE  TraceInv'
<1> USE DEF TraceInv, WriterCopies, ReaderCopies
<1>1. PICK s, i : s = SlotOf(writers[w].i) /\ i = writers[w].i
  OBVIOUS
<1>2. s \in BufferSlots /\ i \in Nat /\ writers[w].prev \in 0..LapMask /\ current \in Nat
  BY <1>1, WriterTypes DEF TraceTypeOK
<1>3. /\ writers[w].at = "copying"
      /\ current' = current /\ reader' = reader /\ trace' = trace /\ overtaken' = overtaken
      /\ buffer' = [buffer EXCEPT ![s] = i]
      /\ lap' = [lap EXCEPT ![s] = MaxLap(writers[w].prev, GetLap(i))]
  BY <1>1 DEF ReleaseWritten
<1>4. /\ writers' = [writers EXCEPT ![w].at = "idle"]
      /\ writers'[w].at = "idle" /\ writers'[w].i = i
      /\ \A v \in Writers : v # w => writers'[v] = writers[v]
  BY <1>1 DEF ReleaseWritten, TraceTypeOK
<1>5. /\ buffer'[s] = i /\ lap'[s] = MaxLap(writers[w].prev, GetLap(i))
      /\ \A slot \in BufferSlots : slot # s => lap'[slot] = lap[slot] /\ buffer'[slot] = buffer[slot]
  BY <1>2, <1>3 DEF TraceTypeOK
<1>6. Placed(w) /\ i < current
  BY <1>1, <1>3 DEF Positions, Placed
<1>7. /\ \A v \in Writers : Placed(v) /\ v # w => writers[v].i # i
      /\ \A v \in Writers : WriterCopies(v) /\ v # w => SlotOf(writers[v].i) # s
      /\ ReaderCopies => SlotOf(reader.it) # s
  BY <1>1, <1>3, <1>6 DEF Positions
<1>8. TraceTypeOK'
  <2>1. buffer' \in [BufferSlots -> Int]
    BY <1>2, <1>3 DEF TraceTypeOK
  <2>2. MaxLap(writers[w].prev, GetLap(i)) \in 0..LapMask
    BY <1>2, LapType DEF MaxLap
  <2>3. lap' \in [BufferSlots -> {kBusy} \cup 0..LapMask]
    BY <1>3, <2>2 DEF TraceTypeOK
  <2>4. writers' \in [Writers -> [at : {"idle", "placed", "copying"}, i : Nat, prev : 0..LapMask]]
    BY <1>4 DEF TraceTypeOK
  <2> QED
    BY <1>3, <2>1, <2>3, <2>4 DEF TraceTypeOK, BufferSlots, buffer_size, kBusy
<1>9. \A v \in Writers : (Placed(v)' => Placed(v)) /\ writers'[v].i = writers[v].i
  BY <1>1, <1>4 DEF Placed
<1>10. Positions'
  <2>1. /\ \A v \in Writers : Placed(v)' => writers'[v].i < current'
        /\ \A u, v \in Writers : Placed(u)' /\ Placed(v)' /\ u # v => writers'[u].i # writers'[v].i
    BY <1>3, <1>9 DEF Positions
  <2>2. \A v \in Writers : writers'[v].at = "copying" => WriterCopies(v) /\ v # w
    BY <1>4
  <2>3. \A u, v \in Writers :
          WriterCopies(u)' /\ WriterCopies(v)' /\ u # v => SlotOf(writers'[u].i) # SlotOf(writers'[v].i)
    BY <1>9, <2>2 DEF Positions
  <2>4. \A v \in Writers : WriterCopies(v)' => lap'[SlotOf(writers'[v].i)] = kBusy
    BY <1>5, <1>7, <1>9, <2>2, WriterTypes DEF Positions
  <2>5. ReaderCopies => lap'[SlotOf(reader.it)] = kBusy
    BY <1>5, <1>7, ReaderTypes DEF Positions
  <2>6. \A v \in Writers : WriterCopies(v)' /\ ReaderCopies => SlotOf(writers'[v].i) # SlotOf(reader.it)
    BY <1>9, <2>2 DEF Positions
  <2> QED
    BY <1>3, <2>1, <2>3, <2>4, <2>5, <2>6 DEF Positions, SlotOf, kBusy, buffer_size
<1>11. ASSUME NEW slot, slot # s
       PROVE  StillHeld(slot)
  <2>1. ASSUME NEW j \in 0..current - 1, SlotOf(j) = slot,
               \E v \in Writers : Placed(v) /\ writers[v].i = j
        PROVE  \E v \in Writers : Placed(v)' /\ writers'[v].i = j
    <3>1. PICK v \in Writers : Placed(v) /\ writers[v].i = j
      BY <2>1
    <3>2. v # w
      BY <1>1, <1>11, <2>1, <3>1
    <3> QED
      BY <1>4, <3>1, <3>2 DEF Placed
  <2> QED
    BY <1>2, <1>3, <2>1 DEF StillHeld
<1>12. \E top \in Tops' : IsNewest(top, s, lap[s])' /\ Keeps(s, top)'
  <2>1. PICK l : l = writers[w].prev
    OBVIOUS
  <2>2. PICK top \in Tops : IsNewest(top, s, l) /\ (top <= i \/ top \in overtaken)
    BY <1>1, <1>3, <2>1 DEF WrittenSlots
  <2>3. PICK new : new = IF top <= i THEN i ELSE top
    OBVIOUS
  <2>4. top \in Int /\ top < current /\ new \in Tops' /\ new \in Int /\ i <= new /\ top <= new
    BY <1>2, <1>3, <1>6, <2>2, <2>3, SizeFacts DEF Tops
  <2>5. lap'[s] = GetLap(new)
    BY <1>1, <1>5, <1>6, <2>1, <2>2, <2>3, ReleasedLap
  <2>6. SlotOf(new) = s
    BY <1>1, <2>2, <2>3 DEF IsNewest
  <2>7. ASSUME NEW j \in 0..current' - 1, SlotOf(j) = s, new < j
        PROVE  \E v \in Writers : Placed(v)' /\ writers'[v].i = j
    <3>1. top < j /\ j # i
      BY <1>2, <1>3, <2>4, <2>7
    <3>2. PICK v \in Writers : Placed(v) /\ writers[v].i = j
      BY <1>3, <2>2, <2>7, <3>1 DEF IsNewest
    <3>3. v # w
      BY <1>1, <3>1, <3>2
    <3> QED
      BY <1>4, <3>2, <3>3 DEF Placed
  <2>8. IsNewest(new, s, lap[s])'
    BY <2>4, <2>5, <2>6, <2>7 DEF IsNewest, SlotOf, GetLap
  <2>9. Keeps(s, new)'
    <3>1. CASE top <= i
      BY <1>2, <1>5, <2>3, <3>1 DEF Keeps
    <3>2. CASE ~(top <= i)
      <4>1. new = top /\ top \in overtaken' /\ i \in 0..top
        BY <1>2, <1>3, <2>2, <2>3, <2>4, <3>2
      <4> QED
        BY <1>1, <1>5, <4>1 DEF Keeps, SlotOf
    <3> QED
      BY <3>1, <3>2
  <2> QED
    BY <2>4, <2>8, <2>9
<1>13. FreeSlots'
  <2> SUFFICES ASSUME NEW slot \in BufferSlots, lap'[slot] # kBusy, slot # s
               PROVE  \E top \in Tops' : IsNewest(top, slot, lap[slot])' /\ Keeps(slot, top)'
    BY <1>12 DEF FreeSlots, Free, BufferSlots, buffer_size, kBusy
  <2>1. Free(slot) /\ lap'[slot] = lap[slot] /\ buffer'[slot] = buffer[slot]
    BY <1>5 DEF Free
  <2> QED
    BY <1>11, <2>1, FreeSlotKept
<1>14. WrittenSlots'
  <2> SUFFICES ASSUME NEW v \in Writers, writers'[v].at = "copying"
               PROVE  \E top \in Tops' : /\ IsNewest(top, SlotOf(writers[v].i), writers[v].prev)'
                                         /\ top <= writers'[v].i \/ top \in overtaken'
    BY DEF WrittenSlots
  <2>1. v # w /\ writers'[v] = writers[v] /\ WriterCopies(v)
    BY <1>4
  <2>2. PICK slot : slot = SlotOf(writers[v].i)
    OBVIOUS
  <2>3. StillHeld(slot)
    BY <1>7, <1>11, <2>1, <2>2
  <2> QED
    BY <2>1, <2>2, <2>3, WrittenSlotKept
<1>15. ReadSlot'
  <2>1. CASE ReaderCopies
    <3>1. PICK slot : slot = SlotOf(reader.it)
      OBVIOUS
    <3>2. slot # s /\ buffer'[slot] = buffer[slot]
      BY <1>5, <1>7, <2>1, <3>1, ReaderTypes
    <3> QED
      BY <1>3, <1>11, <3>1, <3>2, ReadSlotKept
  <2>2. CASE ~ReaderCopies
    BY <1>3, <2>2 DEF ReadSlot
  <2> QED
    BY <2>1, <2>2
<1>16. Iterators'
  BY <1>3 DEF Iterators
<1>17. TraceHolds'
  BY <1>2, <1>3, TraceHoldsKept
<1> QED
  BY <1>8, <1>10, <1>13, <1>14, <1>15, <1>16, <1>17

-----------------------------------------------------------------------------
(* The steps of GetTrace.                                                  *)

\* While the iterators are read no slot changes.
LEMMA SlotsUnread ==
  ASSUME TraceInv, ~ReaderCopies, ~ReaderCopies', UNCHANGED <<current, lap, buffer, writers, overtaken>>
  PROVE  Positions' /\ FreeSlots' /\ WrittenSlots' /\ ReadSlot'
<1>1. Positions'
  BY DEF TraceInv, Positions, Placed, WriterCopies, SlotOf, buffer_size, kBusy
<1>2. \A slot : StillHeld(slot)
  BY AllStillHeld DEF TraceInv, Placed
<1>3. FreeSlots'
  BY <1>2, FreeSlotKept DEF TraceInv, FreeSlots, Free, BufferSlots, buffer_size, kBusy
<1>4. WrittenSlots'
  <2> SUFFICES ASSUME NEW v \in Writers, WriterCopies(v)
               PROVE  \E top \in Tops' : /\ IsNewest(top, SlotOf(writers[v].i), writers[v].prev)'
                                         /\ top <= writers'[v].i \/ top \in overtaken'
    BY DEF WrittenSlots, WriterCopies
  <2>1. PICK slot : slot = SlotOf(writers[v].i)
    OBVIOUS
  <2> QED
    BY <1>2, <2>1, WrittenSlotKept DEF TraceInv
<1>5. ReadSlot'
  BY DEF ReadSlot
<1> QED
  BY <1>1, <1>3, <1>4, <1>5

LEMMA ReadEndKeeps ==
  ASSUME TraceInv, ReadEnd
  PROVE  TraceInv'
<1>1. /\ UNCHANGED <<current, lap, buffer, writers, overtaken>> /\ trace' = trace
      /\ reader.at = "idle" /\ reader' = [reader EXCEPT !.at = "ended", !.end = current]
  BY DEF ReadEnd
<1>2. /\ reader'.at = "ended" /\ reader'.end = current /\ reader'.it = reader.it
      /\ current \in Nat
  BY <1>1 DEF TraceInv, TraceTypeOK
<1>3. TraceTypeOK'
  <2>1. reader' \in [at : {"idle", "ended", "reading", "copying"}, it : Nat, end : Nat,
                     prev : 0..LapMask]
    BY <1>1, <1>2 DEF TraceInv, TraceTypeOK
  <2> QED
    BY <1>1, <2>1 DEF TraceInv, TraceTypeOK, BufferSlots, buffer_size, kBusy
<1>4. Positions' /\ FreeSlots' /\ WrittenSlots' /\ ReadSlot'
  BY <1>1, <1>2, SlotsUnread DEF ReaderCopies
<1>5. trace = <<>>
  BY <1>1 DEF TraceInv, Iterators
<1>6. Iterators'
  BY <1>1, <1>2, <1>5 DEF Iterators
<1>7. TraceHolds'
  BY <1>1, <1>2, TraceHoldsKept DEF TraceInv
<1> QED
  BY <1>3, <1>4, <1>6, <1>7 DEF TraceInv

LEMMA ReadBeginKeeps ==
  ASSUME TraceInv, ReadBegin
  PROVE  TraceInv'
<1>1. /\ UNCHANGED <<current, lap, buffer, writers, overtaken>> /\ trace' = trace
      /\ reader.at = "ended" /\ reader' = [reader EXCEPT !.at = "reading", !.it = Begin]
  BY DEF ReadBegin
<1>2. current \in Nat /\ reader.end \in Nat /\ TraceCapacity \in Nat
  BY TraceAssumption DEF TraceInv, TraceTypeOK
<1>3. Begin \in Nat /\ ((Begin = 0 /\ current <= TraceCapacity) \/ current - Begin = TraceCapacity)
  BY <1>2 DEF Begin
<1>4. reader'.at = "reading" /\ reader'.end = reader.end /\ reader'.it = Begin
  BY <1>1 DEF TraceInv, TraceTypeOK
<1>5. TraceTypeOK'
  <2>1. reader' \in [at : {"idle", "ended", "reading", "copying"}, it : Nat, end : Nat,
                     prev : 0..LapMask]
    BY <1>1, <1>3 DEF TraceInv, TraceTypeOK
  <2> QED
    BY <1>1, <2>1 DEF TraceInv, TraceTypeOK, BufferSlots, buffer_size, kBusy
<1>6. Positions' /\ FreeSlots' /\ WrittenSlots' /\ ReadSlot'
  BY <1>1, <1>4, SlotsUnread DEF ReaderCopies
<1>7. trace = <<>> /\ Len(trace) = 0 /\ reader.end <= current
  BY <1>1 DEF TraceInv, Iterators
<1>8. Iterators'
  BY <1>1, <1>2, <1>3, <1>4, <1>7 DEF Iterators
<1>9. TraceHolds'
  BY <1>1, <1>7 DEF TraceHolds
<1> QED
  BY <1>5, <1>6, <1>8, <1>9 DEF TraceInv

\* A slot that has reached the lap of a position holds nothing older.
LEMMA ReachedIsNotOlder ==
  ASSUME TraceTypeOK, NobodyLapped, reader.it < current,
         NEW s, s = SlotOf(reader.it), Reached(s), NEW top \in Tops, IsNewest(top, s, lap[s])
  PROVE  reader.it <= top
<1>1. reader.it \in Int /\ top \in Int /\ reader.it \in 0..current - 1
  BY ReaderTypes, SizeFacts DEF TraceTypeOK, Tops
<1>2. SlotOf(top) = s /\ lap[s] = GetLap(top)
  BY DEF IsNewest
<1>3. ASSUME top < reader.it
      PROVE  FALSE
  <2>1. LapsApart(reader.it, top) <= Half
    BY <1>1, <1>3, AheadWithinHalf
  <2>2. /\ MaxLap(GetLap(top), GetLap(reader.it)) = GetLap(reader.it)
        /\ GetLap(reader.it) # GetLap(top)
    BY <1>1, <1>2, <1>3, <2>1, LapsCompared
  <2> QED
    BY <1>2, <2>2 DEF Reached
<1> QED
  BY <1>1, <1>3

LEMMA AcquireForReadKeeps ==
  ASSUME TraceInv, NobodyLapped, AcquireForRead
  PROVE  TraceInv'
<1> USE DEF TraceInv, WriterCopies, ReaderCopies
<1>1. PICK s : s = SlotOf(reader.it)
  OBVIOUS
<1>2. s \in BufferSlots /\ reader.it \in Nat /\ current \in Nat /\ reader.end \in Nat
  BY <1>1, ReaderTypes DEF TraceTypeOK
<1>3. /\ reader.at = "reading" /\ reader.it < reader.end /\ Reached(s) /\ Free(s)
      /\ reader' = [reader EXCEPT !.at = "copying", !.prev = lap[s]]
      /\ lap' = [lap EXCEPT ![s] = kBusy]
      /\ current' = current /\ buffer' = buffer /\ writers' = writers /\ trace' = trace
      /\ overtaken' = overtaken
  BY <1>1 DEF AcquireForRead, Reached
<1>4. lap[s] \in 0..LapMask
  BY <1>2, <1>3 DEF TraceTypeOK, Free
<1>5. /\ reader'.at = "copying" /\ reader'.it = reader.it /\ reader'.end = reader.end
      /\ reader'.prev = lap[s]
      /\ lap'[s] = kBusy /\ \A slot \in BufferSlots : slot # s => lap'[slot] = lap[slot]
  BY <1>2, <1>3 DEF TraceTypeOK
<1>6. TraceTypeOK'
  <2>1. reader' \in [at : {"idle", "ended", "reading", "copying"}, it : Nat, end : Nat,
                     prev : 0..LapMask]
    BY <1>3, <1>4 DEF TraceTypeOK
  <2>2. lap' \in [BufferSlots -> {kBusy} \cup 0..LapMask]
    BY <1>3 DEF TraceTypeOK
  <2> QED
    BY <1>3, <2>1, <2>2 DEF TraceTypeOK, BufferSlots, buffer_size, kBusy
<1>7. \A v \in Writers : WriterCopies(v) => SlotOf(writers[v].i) # s
  BY <1>3 DEF Positions, Free
<1>8. \A slot : StillHeld(slot)
  BY <1>3, AllStillHeld DEF Placed
<1>9. Positions'
  <2>1. \A v \in Writers : WriterCopies(v) => lap'[SlotOf(writers[v].i)] = kBusy
    BY <1>5, <1>7, WriterTypes DEF Positions
  <2> QED
    BY <1>1, <1>3, <1>5, <1>7, <2>1 DEF Positions, Placed, SlotOf, kBusy, buffer_size
<1>10. FreeSlots'
  <2> SUFFICES ASSUME NEW slot \in BufferSlots, lap'[slot] # kBusy
               PROVE  \E top \in Tops' : IsNewest(top, slot, lap[slot])' /\ Keeps(slot, top)'
    BY DEF FreeSlots, Free, BufferSlots, buffer_size, kBusy
  <2>1. Free(slot) /\ lap'[slot] = lap[slot]
    BY <1>5 DEF Free
  <2> QED
    BY <1>3, <1>8, <2>1, FreeSlotKept
<1>11. WrittenSlots'
  <2> SUFFICES ASSUME NEW v \in Writers, writers[v].at = "copying"
               PROVE  \E top \in Tops' : /\ IsNewest(top, SlotOf(writers[v].i), writers[v].prev)'
                                         /\ top <= writers'[v].i \/ top \in overtaken'
    BY <1>3 DEF WrittenSlots
  <2>1. PICK slot : slot = SlotOf(writers[v].i)
    OBVIOUS
  <2> QED
    BY <1>3, <1>8, <2>1, WrittenSlotKept
<1>12. ReadSlot'
  <2>1. PICK top \in Tops : IsNewest(top, s, lap[s]) /\ Keeps(s, top)
    BY <1>2, <1>3 DEF FreeSlots
  <2>2. reader.it < current
    BY <1>2, <1>3 DEF Iterators
  <2>3. reader.it <= top
    BY <1>1, <1>3, <2>1, <2>2, ReachedIsNotOlder
  <2>4. PICK l : l = lap[s]
    OBVIOUS
  <2>5. top \in Tops' /\ IsNewest(top, s, l)'
    BY <1>8, <2>1, <2>4, NewestKept
  <2>6. IsNewest(top, SlotOf(reader.it), reader.prev)'
    BY <1>1, <1>5, <2>4, <2>5 DEF IsNewest, SlotOf
  <2>7. Keeps(SlotOf(reader.it), top)'
    BY <1>1, <1>3, <1>5, <2>1 DEF Keeps, SlotOf
  <2> QED
    BY <1>5, <2>3, <2>5, <2>6, <2>7 DEF ReadSlot
<1>13. Iterators'
  BY <1>2, <1>3, <1>5 DEF Iterators
<1>14. TraceHolds'
  BY <1>2, <1>3, <1>5, TraceHoldsKept
<1> QED
  BY <1>6, <1>9, <1>10, <1>11, <1>12, <1>13, <1>14

LEMMA ReleaseReadKeeps ==
  ASSUME TraceInv, ReleaseRead
  PROVE  TraceInv'
<1> USE DEF TraceInv, WriterCopies, ReaderCopies
<1> DEFINE entry == [asked |-> reader.it, event |-> buffer[SlotOf(reader.it)]]
<1>1. PICK s : s = SlotOf(reader.it)
  OBVIOUS
<1>2. /\ s \in BufferSlots /\ reader.it \in Nat /\ reader.end \in Nat /\ reader.prev \in 0..LapMask
      /\ current \in Nat /\ trace \in Seq([asked : Nat, event : Int]) /\ Len(trace) \in Nat
  BY <1>1, ReaderTypes DEF TraceTypeOK
<1>3. /\ reader.at = "copying" /\ trace' = Append(trace, entry)
      /\ lap' = [lap EXCEPT ![s] = reader.prev]
      /\ reader' = [reader EXCEPT !.at = "reading", !.it = @ + 1]
      /\ current' = current /\ buffer' = buffer /\ writers' = writers /\ overtaken' = overtaken
  BY <1>1 DEF ReleaseRead
<1>4. /\ reader'.at = "reading" /\ reader'.it = reader.it + 1 /\ reader'.end = reader.end
      /\ lap'[s] = reader.prev /\ \A slot \in BufferSlots : slot # s => lap'[slot] = lap[slot]
  BY <1>2, <1>3 DEF TraceTypeOK
<1>5. entry \in [asked : Nat, event : Int] /\ entry.asked = reader.it /\ entry.event = buffer[s]
  BY <1>1, <1>2 DEF TraceTypeOK
<1> HIDE DEF entry
<1> DEFINE n == Len(trace)
<1>6. /\ n \in Nat /\ Len(trace') = n + 1 /\ DOMAIN trace = 1..n /\ DOMAIN trace' = 1..n + 1
      /\ trace' \in Seq([asked : Nat, event : Int])
      /\ trace'[n + 1] = entry
      /\ \A k \in 1..n : trace'[k] = trace[k]
  BY <1>2, <1>3, <1>5
<1>7. TraceTypeOK'
  <2>1. reader' \in [at : {"idle", "ended", "reading", "copying"}, it : Nat, end : Nat,
                     prev : 0..LapMask]
    <3>1. reader \in [at : {"idle", "ended", "reading", "copying"}, it : Nat, end : Nat,
                      prev : 0..LapMask]
      BY DEF TraceTypeOK
    <3>2. reader.it + 1 \in Nat
      BY <1>2
    <3> QED
      BY <1>3, <3>1, <3>2
  <2>2. lap' \in [BufferSlots -> {kBusy} \cup 0..LapMask]
    BY <1>2, <1>3 DEF TraceTypeOK
  <2> QED
    BY <1>3, <1>6, <2>1, <2>2 DEF TraceTypeOK, BufferSlots, buffer_size, kBusy
<1>8. \A v \in Writers : WriterCopies(v) => SlotOf(writers[v].i) # s
  BY <1>1, <1>3 DEF Positions
<1>9. \A slot : StillHeld(slot)
  BY <1>3, AllStillHeld DEF Placed
<1>10. Positions'
  <2>1. \A v \in Writers : WriterCopies(v) => lap'[SlotOf(writers[v].i)] = kBusy
    BY <1>4, <1>8, WriterTypes DEF Positions
  <2> QED
    BY <1>3, <1>4, <2>1 DEF Positions, Placed, SlotOf, kBusy, buffer_size
<1>11. PICK top \in Tops : IsNewest(top, s, reader.prev) /\ Keeps(s, top) /\ reader.it <= top
  BY <1>1, <1>3 DEF ReadSlot
<1>12. FreeSlots'
  <2> SUFFICES ASSUME NEW slot \in BufferSlots, lap'[slot] # kBusy
               PROVE  \E t \in Tops' : IsNewest(t, slot, lap[slot])' /\ Keeps(slot, t)'
    BY DEF FreeSlots, Free, BufferSlots, buffer_size, kBusy
  <2>1. CASE slot # s
    <3>1. Free(slot) /\ lap'[slot] = lap[slot]
      BY <1>4, <2>1 DEF Free
    <3> QED
      BY <1>3, <1>9, <3>1, FreeSlotKept
  <2>2. CASE slot = s
    <3>1. PICK l : l = reader.prev
      OBVIOUS
    <3>2. top \in Tops' /\ IsNewest(top, s, l)'
      BY <1>9, <1>11, <3>1, NewestKept
    <3>3. IsNewest(top, slot, lap[slot])'
      BY <1>4, <2>2, <3>1, <3>2 DEF IsNewest
    <3>4. Keeps(slot, top)'
      BY <1>3, <1>11, <2>2 DEF Keeps
    <3> QED
      BY <3>2, <3>3, <3>4
  <2> QED
    BY <2>1, <2>2
<1>13. WrittenSlots'
  <2> SUFFICES ASSUME NEW v \in Writers, writers[v].at = "copying"
               PROVE  \E t \in Tops' : /\ IsNewest(t, SlotOf(writers[v].i), writers[v].prev)'
                                       /\ t <= writers'[v].i \/ t \in overtaken'
    BY <1>3 DEF WrittenSlots
  <2>1. PICK slot : slot = SlotOf(writers[v].i)
    OBVIOUS
  <2> QED
    BY <1>3, <1>9, <2>1, WrittenSlotKept
<1>14. ReadSlot'
  BY <1>4 DEF ReadSlot
<1>15. Iterators'
  <2>1. reader.it < reader.end /\ reader.end <= current
        /\ reader.end - (reader.it - n) <= TraceCapacity
    BY <1>3 DEF Iterators
  <2>2. TraceCapacity \in Nat
    BY TraceAssumption
  <2> HIDE DEF n
  <2>3. reader.end - ((reader.it + 1) - (n + 1)) <= TraceCapacity /\ reader.it + 1 <= reader.end
    <3>1. n \in Int /\ reader.it \in Int /\ reader.end \in Int
      BY <1>2, <1>6
    <3> QED
      BY <2>1, <2>2, <3>1
  <2>4. reader'.end - (reader'.it - Len(trace')) <= TraceCapacity /\ reader'.it <= reader'.end
    BY <1>4, <1>6, <2>3
  <2>5. reader'.end <= current'
    BY <1>3, <1>4, <2>1
  <2> QED
    BY <1>4, <2>4, <2>5 DEF Iterators
<1>16. TraceHolds'
  <2>1. /\ buffer[s] \in 0..current - 1 /\ SlotOf(buffer[s]) = s
        /\ buffer[s] < reader.it =>
             \E newer \in overtaken : newer >= reader.it /\ SlotOf(newer) = s
    <3>1. top \in Int /\ top < current /\ SlotOf(top) = s
      BY <1>2, <1>11, SizeFacts DEF Tops, IsNewest
    <3> QED
      BY <1>2, <1>11, <3>1 DEF Keeps
  <2>2. ASSUME NEW k \in 1..n
        PROVE  /\ trace[k].asked = reader.it - n + k - 1
               /\ trace[k].event \in 0..current - 1 /\ SlotOf(trace[k].event) = SlotOf(trace[k].asked)
               /\ trace[k].event < trace[k].asked =>
                    \E newer \in overtaken :
                      newer >= trace[k].asked /\ SlotOf(newer) = SlotOf(trace[k].asked)
    BY <1>6 DEF TraceHolds
  <2> HIDE DEF n
  <2>3. (reader.it + 1) - (n + 1) = reader.it - n /\ (reader.it - n) + (n + 1) - 1 = reader.it
    <3>1. n \in Int /\ reader.it \in Int
      BY <1>2, <1>6
    <3> QED
      BY <3>1
  <2> SUFFICES ASSUME NEW k \in 1..n + 1
               PROVE  /\ trace'[k].asked = (reader.it + 1) - (n + 1) + k - 1
                      /\ trace'[k].event \in 0..current - 1
                      /\ SlotOf(trace'[k].event) = SlotOf(trace'[k].asked)
                      /\ trace'[k].event < trace'[k].asked =>
                           \E newer \in overtaken :
                             newer >= trace'[k].asked /\ SlotOf(newer) = SlotOf(trace'[k].asked)
    BY <1>3, <1>4, <1>6 DEF TraceHolds, SlotOf, buffer_size
  <2>4. CASE k = n + 1
    BY <1>1, <1>5, <1>6, <2>1, <2>3, <2>4
  <2>5. CASE k # n + 1
    <3>1. k \in 1..n /\ trace'[k] = trace[k]
      BY <1>6, <2>5
    <3> QED
      BY <2>2, <2>3, <3>1
  <2> QED
    BY <2>4, <2>5
<1> QED
  BY <1>7, <1>10, <1>12, <1>13, <1>14, <1>15, <1>16

-----------------------------------------------------------------------------
LEMMA TraceInvInit == TraceInit => TraceInv
<1> SUFFICES ASSUME TraceInit
             PROVE  TraceInv
  OBVIOUS
<1>1. buffer_size \in Nat \ {0} /\ current = 0 /\ overtaken = {} /\ trace = <<>>
  BY SizeFacts DEF TraceInit
<1>2. /\ \A w \in Writers : writers[w].at = "idle"
      /\ reader = [at |-> "idle", it |-> 0, end |-> 0, prev |-> 0]
      /\ \A slot \in BufferSlots : lap[slot] = 0 /\ buffer[slot] = EmptySlot
  BY DEF TraceInit
<1>3. TraceTypeOK
  <2>1. 0 \in 0..LapMask /\ EmptySlot \in Int
    BY TraceAssumption DEF EmptySlot
  <2>2. reader \in [at : {"idle", "ended", "reading", "copying"}, it : Nat, end : Nat,
                    prev : 0..LapMask]
    BY <1>2, <2>1
  <2>3. writers \in [Writers -> [at : {"idle", "placed", "copying"}, i : Nat, prev : 0..LapMask]]
    BY <2>1 DEF TraceInit
  <2>4. lap \in [BufferSlots -> {kBusy} \cup 0..LapMask] /\ buffer \in [BufferSlots -> Int]
    BY <2>1 DEF TraceInit
  <2> QED
    BY <1>1, <2>2, <2>3, <2>4 DEF TraceTypeOK
<1>4. Positions /\ WrittenSlots
  BY <1>2 DEF Positions, WrittenSlots, Placed, WriterCopies, ReaderCopies
<1>5. FreeSlots
  <2> SUFFICES ASSUME NEW slot \in BufferSlots
               PROVE  \E top \in Tops : IsNewest(top, slot, lap[slot]) /\ Keeps(slot, top)
    BY DEF FreeSlots
  <2> DEFINE top == slot - buffer_size
             n == buffer_size
  <2>1. slot \in 0..n - 1 /\ top \in Tops /\ top < 0 /\ top \in Int
    BY <1>1 DEF BufferSlots, Tops
  <2>2. SlotOf(top) = slot /\ top \div n = -1
    <3>1. n * (-1) = -n /\ -1 \in Int
      BY <1>1
    <3>2. top = n * (-1) + slot
      BY <1>1, <2>1, <3>1
    <3> HIDE DEF n, top
    <3>3. (n * (-1) + slot) % n = slot /\ (n * (-1) + slot) \div n = -1
      BY <1>1, <2>1, <3>1, Remainder DEF n
    <3> QED
      BY <3>2, <3>3 DEF SlotOf, n
  <2>3. GetLap(top) = 0
    <3>1. (-1 + 1) % (LapMask + 1) = 0
      BY TraceAssumption
    <3> QED
      BY <2>2, <3>1 DEF GetLap
  <2>4. IsNewest(top, slot, lap[slot])
    BY <1>1, <1>2, <2>1, <2>2, <2>3 DEF IsNewest
  <2>5. Keeps(slot, top)
    BY <1>2, <2>1 DEF Keeps
  <2> QED
    BY <2>1, <2>4, <2>5
<1>6. ReadSlot /\ Iterators /\ TraceHolds
  BY <1>1, <1>2 DEF ReadSlot, ReaderCopies, Iterators, TraceHolds
<1> QED
  BY <1>3, <1>4, <1>5, <1>6 DEF TraceInv

LEMMA TraceInvNext == TraceInv /\ NobodyLapped /\ [TraceNext]_traceVars => TraceInv'
<1> SUFFICES ASSUME TraceInv, NobodyLapped, [TraceNext]_traceVars
             PROVE  TraceInv'
  OBVIOUS
<1>1. ASSUME NEW w \in Writers, TakePosition(w) \/ AcquireForWrite(w) \/ ReleaseWritten(w)
      PROVE  TraceInv'
  BY <1>1, TakePositionKeeps, AcquireForWriteKeeps, ReleaseWrittenKeeps
<1>2. ReadEnd \/ ReadBegin \/ AcquireForRead \/ ReleaseRead => TraceInv'
  BY ReadEndKeeps, ReadBeginKeeps, AcquireForReadKeeps, ReleaseReadKeeps
<1>3. ASSUME UNCHANGED traceVars
      PROVE  TraceInv'
  BY <1>3 DEF traceVars, TraceInv, TraceTypeOK, Positions, FreeSlots, WrittenSlots, ReadSlot,
       Iterators, TraceHolds, Placed, WriterCopies, ReaderCopies, Tops, IsNewest, Keeps, Free,
       SlotOf, GetLap, buffer_size, BufferSlots, kBusy, EmptySlot
<1> QED
  BY <1>1, <1>2, <1>3 DEF TraceNext

LEMMA TraceInvReads == TraceInv => TraceReads
<1> SUFFICES ASSUME TraceInv
             PROVE  TraceReads
  OBVIOUS
<1>1. /\ reader.it \in Nat /\ reader.end \in Nat /\ current \in Nat
      /\ Len(trace) \in Nat /\ DOMAIN trace = 1..Len(trace)
      /\ TraceCapacity <= buffer_size /\ buffer_size \in Nat \ {0} /\ TraceCapacity \in Nat
  BY ReaderTypes, SizeFacts, TraceAssumption DEF TraceInv, TraceTypeOK
<1>2. \A k \in DOMAIN trace :
        /\ trace[k].asked = reader.it - Len(trace) + k - 1
        /\ trace[k].event \in 0..current - 1 /\ SlotOf(trace[k].event) = SlotOf(trace[k].asked)
        /\ trace[k].event < trace[k].asked =>
             \E newer \in overtaken : newer >= trace[k].asked /\ SlotOf(newer) = SlotOf(trace[k].asked)
  BY DEF TraceInv, TraceHolds
<1>3. ASSUME NEW k \in DOMAIN trace, NEW l \in DOMAIN trace, k < l
      PROVE  trace[k].event # trace[l].event
  <2>1. reader.at \in {"reading", "copying"} /\ trace # <<>>
    <3>1. reader.at \in {"idle", "ended", "reading", "copying"}
      BY DEF TraceInv, TraceTypeOK
    <3>2. trace # <<>>
      BY <1>1, <1>3
    <3> QED
      BY <3>1, <3>2 DEF TraceInv, Iterators
  <2>2. reader.it <= reader.end /\ reader.end - (reader.it - Len(trace)) <= TraceCapacity
    BY <2>1 DEF TraceInv, Iterators
  <2>3. PICK i, j : i = trace[k].asked /\ j = trace[l].asked
    OBVIOUS
  <2>4. i \in Int /\ j \in Int /\ i < j /\ j < i + buffer_size
    <3>1. k \in 1..Len(trace) /\ l \in 1..Len(trace)
      BY <1>1
    <3>2. i = reader.it - Len(trace) + k - 1 /\ j = reader.it - Len(trace) + l - 1
      BY <1>2, <2>3
    <3>3. PICK n, it : n = Len(trace) /\ it = reader.it
      OBVIOUS
    <3>4. /\ n \in Nat /\ it \in Nat /\ k \in 1..n /\ l \in 1..n
          /\ i = it - n + k - 1 /\ j = it - n + l - 1
      BY <1>1, <3>1, <3>2, <3>3
    <3>5. n <= buffer_size
      BY <1>1, <2>2, <3>3
    <3>6. buffer_size \in Nat
      BY <1>1
    <3> QED
      BY <1>3, <3>4, <3>5, <3>6
  <2>5. SlotOf(i) # SlotOf(j)
    BY <1>1, <2>4, SameSlot
  <2> QED
    BY <1>2, <2>3, <2>5
<1>4. ASSUME NEW k \in DOMAIN trace, NEW l \in DOMAIN trace, k # l
      PROVE  trace[k].event # trace[l].event
  <2>1. k < l \/ l < k
    BY <1>1, <1>4
  <2> QED
    BY <1>3, <2>1
<1> QED
  BY <1>2, <1>4 DEF TraceReads

(* While no thread is overtaken by half of the circle of laps between      *)
(* taking a position and releasing its slot, GetTrace reads whole events,  *)
(* each once, and at the place of an event that one or a newer one, for    *)
(* every capacity, every set of threads and every width of the lap.        *)
THEOREM TraceReadsWholeEvents == TraceSpec /\ []NobodyLapped => []TraceReads
<1>1. TraceInit => TraceInv
  BY TraceInvInit
<1>2. TraceInv /\ NobodyLapped /\ [TraceNext]_traceVars => TraceInv'
  BY TraceInvNext
<1>3. TraceInv => TraceReads
  BY TraceInvReads
<1> QED
  BY <1>1, <1>2, <1>3, PTL DEF TraceSpec
=============================================================================
