-------------------------- MODULE ControlProperties --------------------------
(***************************************************************************)
(* What the life cycle of a pipeline and its event bus should keep to.     *)
(***************************************************************************)
EXTENDS PipelineControl

QueueOK(q, elements) ==
  /\ q.items \in Seq(elements)
  /\ q.debt \in 0..1
  /\ q.debt > 0 => q.items = <<>>

(* Types.  A queue never owes more than one element: with a size of -1 the *)
(* predicate of WaitAndTryPop is false until somebody pushes again.        *)
ControlTypeOK ==
  /\ graph \in Graphs /\ running \in BOOLEAN
  /\ todo \subseteq graph.modules /\ opened \subseteq graph.modules
  /\ stopped \subseteq Connected(graph)
  /\ contained \subseteq graph.modules /\ calling \subseteq graph.modules
  /\ \A t \in DOMAIN threads : threads[t] \in {"running", "ended"}
  /\ QueueOK(bus_queue, PostedEvents) /\ QueueOK(msg_queue, MessageTypes)
  /\ bus_thread \in {"none", "polling", "polled", "informing", "ended"}
  /\ watcher \in 0..Len(bus_watchers)
  /\ msg_thread \in {"polling", "popped", "updating", "ended"}
  /\ event \in PostedEvents \cup GarbageEvents

(* Whatever way Start and Stop ended (a module that did not open, a module *)
(* that is configured wrongly after threads of others were created, an     *)
(* event loop that ended by itself), a pipeline that is not running has no *)
(* module open and no thread left: the next Start assigns event_thread_,   *)
(* and must not meet a thread that was not joined.                         *)
QuietWhenStopped ==
  ctl \in {"idle", "detaching", "joining messages", "destroyed"} /\ ~running =>
    /\ opened = {}
    /\ DOMAIN threads = {}
    /\ ~bus_running /\ bus_thread = "none"

(* A pipeline that is up is whole: every module open, a thread for every   *)
(* conveyor of every inner module and none for a root, and a bus whose     *)
(* thread Stop can join.                                                   *)
RunningIsWhole ==
  ctl = "idle" /\ running =>
    /\ opened = graph.modules
    /\ DOMAIN threads = UNION {ThreadsOf(graph, m) : m \in graph.modules \ RootsOf(graph)}
    /\ \A m \in graph.modules : Cardinality(ThreadsOf(graph, m)) = graph.conveyors[m]
    /\ bus_running /\ bus_thread # "none"

(* The destructor deletes the event bus and the index manager.  No module  *)
(* is inside the pipeline then, and no thread that would use them is left. *)
NoCallIntoDestroyed ==
  ctl = "destroyed" => calling = {} /\ bus_thread = "none" /\ msg_thread = "ended"

(* Stop, called by the application or by a Start that fails, returns: task *)
(* threads and the event thread leave whatever they were waiting for.      *)
StopReturns == ctl = "stopping" ~> ctl = "idle"

(* The destructor, once it has the modules detached, does not wait for the *)
(* message thread for ever.  (How long it waits for container_lock_, which *)
(* modules may take shared again and again, std::shared_mutex leaves open.) *)
DestroyReturns == ctl = "joining messages" ~> ctl = "destroyed"

(* "This function is blocked until an event or bus is stopped"             *)
(* (easysa_eventbus.hpp): an event that PollEvent hands to the watchers is *)
(* one that was posted.                                                    *)
InformedOfPosted == bus_thread = "informing" => event.posted
=============================================================================
