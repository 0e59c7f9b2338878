--------------------------- MODULE PipelineControl ---------------------------
(***************************************************************************)
(* The life of an easysa::Pipeline: construction with its message thread,  *)
(* Start with its early failures, Stop, and the destructor, together with  *)
(* the event bus and the threads that call into the pipeline meanwhile.    *)
(* Frames and conveyors are in the module Pipeline; here a task thread is  *)
(* only alive or ended.                                                    *)
(***************************************************************************)
EXTENDS EventBus, PipelineGraph

CONSTANTS
  Graphs,       (* the graphs the application may have put together         *)
  Callers,      (* the modules with threads of their own, which call in     *)
  MaxStarts,    (* bound: calls of Start                                    *)
  Updates       (* bound: events and messages the modules produce           *)

(* A graph knows the attributes of its modules; some watcher may be added. *)
ASSUME ControlAssumption ==
  /\ \A g \in Graphs : /\ g.parallelism \in [g.modules -> Nat]
                       /\ g.conveyors \in [g.modules -> Nat]
  /\ MaxStarts \in Nat /\ Posts \in Nat /\ MaxWatchers \in Nat /\ Updates \in Nat

(* StreamMsgType; the other members of the enumeration are treated alike.  *)
MessageTypes == {"EOS_MSG", "ERROR_MSG", "STREAM_ERR_MSG", "USER_MSG"}
NoMessage == "none"

VARIABLES
  graph,        (* modules_ and modules_map_                                *)
  running,      (* Pipeline::running_                                       *)
  ctl,          (* where the application thread is                          *)
  todo,         (* the modules its loop has still to visit                  *)
  opened,       (* the modules that are open                                *)
  threads,      (* threads_: "running" or "ended" for <<module, conveyor>>  *)
  stopped,      (* the modules whose connector is stopped                   *)
  starts,       (* calls of Start so far                                    *)
  contained,    (* the modules whose container_ is this pipeline            *)
  calling,      (* the modules in a call that holds container_lock_ shared  *)
  msg_queue,    (* msgq_                                                    *)
  msg_thread,   (* smsg_thread_: "polling", "popped" or "ended"             *)
  msg,          (* the message it popped                                    *)
  exit_msg_loop,
  updates       (* messages modules pushed so far                           *)

startVars == <<graph, running, ctl, todo, opened, threads, stopped, starts>>
callVars == <<contained, calling>>
msgVars == <<msg_queue, msg_thread, msg, exit_msg_loop, updates>>
vars == <<busVars, startVars, callVars, msgVars>>

Connected(g) == {m \in g.modules : g.conveyors[m] > 0}
ThreadsOf(g, m) == {<<m, i>> : i \in 0..g.parallelism[m] - 1}

(* Pipeline::Pipeline, and a graph put together afterwards. *)
Init ==
  /\ graph \in Graphs
  /\ running = FALSE
  /\ ctl = "idle"
  /\ todo = {}
  /\ opened = {}
  /\ threads = <<>>
  /\ stopped = {}
  /\ starts = 0
  /\ contained = graph.modules
  /\ calling = {}
  /\ msg_queue = EmptyQueue
  /\ msg_thread = "polling"
  /\ msg = NoMessage
  /\ exit_msg_loop = FALSE
  /\ updates = 0
  /\ BusInit(<<"pipeline">>)

(***************************************************************************)
(* Messages to the observer                                                *)
(***************************************************************************)

(* Pipeline::UpdateByStreamMsg *)
UpdateByStreamMsg(m) ==
  /\ msg_queue' = Pushed(msg_queue, m)
  /\ UNCHANGED <<msg_thread, msg, exit_msg_loop>>

MsgUnchanged == UNCHANGED <<msg_queue, exit_msg_loop, updates, busVars, startVars, callVars>>

(* StreamMsgHandleFunc: a type outside the enumeration is NoMessage. *)
MsgPop ==
  /\ msg_thread = "polling"
  /\ ~exit_msg_loop
  /\ WaitAndTryPop(msg_queue)
  /\ msg' \in FrontOf(msg_queue, {"USER_MSG", NoMessage})
  /\ msg_queue' = Popped(msg_queue)
  /\ msg_thread' = "popped"
  /\ UNCHANGED <<exit_msg_loop, updates, busVars, startVars, callVars>>

(* Variant: the flag is read only after a pop, as with WaitAndPop. *)
MsgLeaveAfterPop ==
  /\ msg_thread = "popped"
  /\ exit_msg_loop
  /\ msg_thread' = "ended"
  /\ msg' = NoMessage
  /\ MsgUnchanged

MsgLeave ==
  /\ msg_thread \in {"polling", "popped"}
  /\ exit_msg_loop
  /\ msg_thread' = "ended"
  /\ msg' = NoMessage
  /\ MsgUnchanged

(* The switch: the observer (there is one, set before Start) is told of a  *)
(* known type; the call may take its time.                                 *)
MsgHandle ==
  /\ msg_thread = "popped"
  /\ ~exit_msg_loop
  /\ msg_thread' = IF msg \in MessageTypes THEN "updating" ELSE "polling"
  /\ UNCHANGED msg
  /\ MsgUnchanged

MsgUpdated ==
  /\ msg_thread = "updating"
  /\ msg_thread' = "polling"
  /\ UNCHANGED msg
  /\ MsgUnchanged

(***************************************************************************)
(* Watchers                                                                *)
(***************************************************************************)

(* Pipeline::DefaultBusWatch: its answer, and the message it forwards. *)
DefaultFlag(type) ==
  CASE type \in {"ERROR", "STOP"} -> "STOP"
    [] type \in {"WARNING", "EOS", "STREAM_ERROR"} -> "SYNCED"
    [] OTHER -> "NULL"
DefaultMessage(type) ==
  CASE type = "ERROR" -> "ERROR_MSG"
    [] type = "STREAM_ERROR" -> "STREAM_ERR_MSG"
    [] OTHER -> NoMessage

DefaultBusWatch ==
  /\ bus_thread = "informing"
  /\ bus_watchers[watcher] = "pipeline"
  /\ Informed(DefaultFlag(event.type))
  /\ IF DefaultMessage(event.type) = NoMessage
       THEN UNCHANGED <<msg_queue, msg_thread, msg, exit_msg_loop>>
       ELSE UpdateByStreamMsg(DefaultMessage(event.type))
  /\ UNCHANGED <<updates, startVars, callVars>>

(* A watcher of the application answers as it likes. *)
UserWatch ==
  /\ bus_thread = "informing"
  /\ bus_watchers[watcher] # "pipeline"
  /\ \E flag \in {"NULL", "INTERCEPTION", "SYNCED", "STOP"} : Informed(flag)
  /\ UNCHANGED <<startVars, callVars, msgVars>>

BusThread ==
  \/ (PollPop \/ PollStopped \/ EventPolled) /\ UNCHANGED <<startVars, callVars, msgVars>>
  \/ DefaultBusWatch
  \/ UserWatch

AddUserWatch ==
  /\ ctl = "idle" /\ starts = 0
  /\ AddBusWatch("user")
  /\ UNCHANGED <<startVars, callVars, msgVars>>

(***************************************************************************)
(* Calls of modules into their container.  Module::PostEvent and           *)
(* DoTransmitData hold container_lock_ shared while they use the pipeline. *)
(***************************************************************************)

EnterContainer(m) ==
  /\ ctl # "destroyed"
  /\ m \in (Callers \cap contained) \ calling
  /\ calling' = calling \cup {m}
  /\ UNCHANGED <<contained, busVars, startVars, msgVars>>

ModulePosts(m) ==
  /\ m \in calling
  /\ posts + updates < Updates
  /\ \E e \in PostedEvents : PostEvent(e)
  /\ UNCHANGED <<startVars, callVars, msgVars>>

ModuleMessage(m) ==
  /\ m \in calling
  /\ posts + updates < Updates
  /\ updates' = updates + 1
  /\ UpdateByStreamMsg("EOS_MSG")
  /\ UNCHANGED <<busVars, startVars, callVars>>

LeaveContainer(m) ==
  /\ m \in calling
  /\ calling' = calling \ {m}
  /\ UNCHANGED <<contained, busVars, startVars, msgVars>>

(***************************************************************************)
(* Pipeline::Start                                                         *)
(***************************************************************************)
RestUnchanged == UNCHANGED <<graph, callVars, msgVars>>

StartBegin ==
  /\ ctl = "idle" /\ contained = graph.modules
  /\ ~running
  /\ starts < MaxStarts
  /\ starts' = starts + 1
  /\ ctl' = "opening"
  /\ todo' = graph.modules
  /\ UNCHANGED <<running, opened, threads, stopped, busVars>> /\ RestUnchanged

(* One module after the other; the first that fails closes the ones before *)
(* it, and Start returns false.                                            *)
OpenModule(m) ==
  /\ ctl = "opening"
  /\ m \in todo
  /\ \/ opened' = opened \cup {m} /\ todo' = todo \ {m} /\ UNCHANGED ctl
     \/ opened' = {} /\ todo' = {} /\ ctl' = "idle"
  /\ UNCHANGED <<running, threads, stopped, starts, busVars>> /\ RestUnchanged

(* running_, the event bus and the connectors. *)
StartRunning ==
  /\ ctl = "opening"
  /\ todo = {}
  /\ running' = TRUE
  /\ BusStart
  /\ stopped' = {}
  /\ ctl' = "spawning"
  /\ todo' = graph.modules
  /\ UNCHANGED <<opened, threads, starts>> /\ RestUnchanged

(* Variant: the error path returns without calling Stop. *)
GiveUpStart == ctl' = "idle" /\ todo' = {} /\ UNCHANGED threads

RefuseModule == ctl' = "stopping" /\ todo' = {} /\ UNCHANGED threads

(* The threads of a module, or Stop() when it is not configured as the     *)
(* first or as an inner module has to be.                                  *)
SpawnThreads(m) ==
  /\ ctl = "spawning"
  /\ m \in todo
  /\ \/ /\ StartAccepts(graph, m)
        /\ threads' = [t \in DOMAIN threads \cup ThreadsOf(graph, m) |->
                         IF t \in ThreadsOf(graph, m) THEN "running" ELSE threads[t]]
        /\ todo' = todo \ {m}
        /\ UNCHANGED ctl
     \/ ~StartAccepts(graph, m) /\ RefuseModule
  /\ UNCHANGED <<running, opened, stopped, starts, busVars>> /\ RestUnchanged

Started ==
  /\ ctl = "spawning"
  /\ todo = {}
  /\ ctl' = "idle"
  /\ UNCHANGED <<running, todo, opened, threads, stopped, starts, busVars>> /\ RestUnchanged

(***************************************************************************)
(* Pipeline::Stop                                                          *)
(***************************************************************************)

StopBegin ==
  /\ ctl = "idle"
  /\ running
  /\ ctl' = "stopping"
  /\ UNCHANGED <<running, todo, opened, threads, stopped, starts, busVars>> /\ RestUnchanged

(* Connectors first, then running_.  (One connector at a time, with what   *)
(* is left in its conveyors, in the module Pipeline.)                      *)
StopConnectors ==
  /\ ctl = "stopping"
  /\ stopped' = Connected(graph)
  /\ running' = FALSE
  /\ ctl' = "joining"
  /\ UNCHANGED <<todo, opened, threads, starts, busVars>> /\ RestUnchanged

(* TaskLoop ends when the connector of its module is stopped. *)
TaskLoopEnds(t) ==
  /\ threads[t] = "running"
  /\ t[1] \in stopped
  /\ threads' = [threads EXCEPT ![t] = "ended"]
  /\ UNCHANGED <<running, ctl, todo, opened, stopped, starts, busVars>> /\ RestUnchanged

(* All threads joined; event_bus_->Stop() joins if the bus is running. *)
JoinThreads ==
  /\ ctl = "joining"
  /\ \A t \in DOMAIN threads : threads[t] = "ended"
  /\ threads' = <<>>
  /\ \/ bus_running /\ BusStop /\ ctl' = "joining bus"
     \/ ~bus_running /\ UNCHANGED busVars /\ ctl' = "closing"
  /\ UNCHANGED <<running, todo, opened, stopped, starts>> /\ RestUnchanged

BusJoined ==
  /\ ctl = "joining bus"
  /\ BusJoin
  /\ ctl' = "closing"
  /\ UNCHANGED <<running, todo, opened, threads, stopped, starts>> /\ RestUnchanged

CloseModules ==
  /\ ctl = "closing"
  /\ opened' = {}
  /\ ctl' = "idle"
  /\ UNCHANGED <<running, todo, threads, stopped, starts, busVars>> /\ RestUnchanged

(***************************************************************************)
(* Pipeline::~Pipeline, of a pipeline that was stopped (the destructor of  *)
(* threads_ ends the process otherwise).                                   *)
(***************************************************************************)

DestroyBegin ==
  /\ ctl = "idle" /\ ~running
  /\ ctl' = "detaching"
  /\ todo' = graph.modules
  /\ UNCHANGED <<running, opened, threads, stopped, starts, busVars>> /\ RestUnchanged

(* Variant: container_ is cleared without the lock. *)
DetachUnlocked(m) ==
  /\ ctl = "detaching"
  /\ m \in todo
  /\ contained' = contained \ {m}
  /\ todo' = todo \ {m}
  /\ UNCHANGED <<graph, running, ctl, opened, threads, stopped, starts, calling, busVars, msgVars>>

(* Module::SetContainer(nullptr) waits for the calls that hold the lock. *)
Detach(m) ==
  /\ ctl = "detaching"
  /\ m \in todo
  /\ m \notin calling
  /\ contained' = contained \ {m}
  /\ todo' = todo \ {m}
  /\ UNCHANGED <<graph, running, ctl, opened, threads, stopped, starts, calling, busVars, msgVars>>

EndMessageThread ==
  /\ ctl = "detaching"
  /\ todo = {}
  /\ exit_msg_loop' = TRUE
  /\ ctl' = "joining messages"
  /\ UNCHANGED <<msg_queue, msg_thread, msg, updates>>
  /\ UNCHANGED <<graph, running, todo, opened, threads, stopped, starts, callVars, busVars>>

(* The join, and `delete event_bus_'. *)
Destroyed ==
  /\ ctl = "joining messages"
  /\ msg_thread = "ended"
  /\ ctl' = "destroyed"
  /\ UNCHANGED <<running, todo, opened, threads, stopped, starts, busVars>> /\ RestUnchanged

(***************************************************************************)
(* The whole                                                               *)
(***************************************************************************)
MsgThread == MsgPop \/ MsgLeave \/ MsgHandle \/ MsgUpdated

StopStep ==
  \/ StopConnectors \/ JoinThreads \/ BusJoined \/ CloseModules
  \/ \E t \in DOMAIN threads : TaskLoopEnds(t)
DestroyStep ==
  \/ \E m \in graph.modules : Detach(m)
  \/ EndMessageThread \/ Destroyed
ModuleCall(m) == EnterContainer(m) \/ ModulePosts(m) \/ ModuleMessage(m)

Next ==
  \/ StartBegin \/ StartRunning \/ Started \/ StopBegin \/ DestroyBegin
  \/ \E m \in graph.modules : OpenModule(m) \/ SpawnThreads(m)
  \/ \E m \in graph.modules : ModuleCall(m) \/ LeaveContainer(m)
  \/ StopStep \/ DestroyStep
  \/ BusThread \/ MsgThread
  \/ AddUserWatch

Spec == Init /\ [][Next]_vars

(* Threads are scheduled, calls begun go on, calls of modules and of the   *)
(* observer return; nobody has to start, stop, post or destroy.            *)
Fairness ==
  /\ WF_vars(BusThread) /\ WF_vars(MsgThread)
  /\ WF_vars(StopStep) /\ WF_vars(DestroyStep)
  /\ \A g \in Graphs : \A m \in g.modules : WF_vars(LeaveContainer(m))
FairSpec == Spec /\ Fairness
=============================================================================
