--------------------------- MODULE ControlInvariant ---------------------------
(***************************************************************************)
(* What holds in every state of PipelineControl, at each place where the   *)
(* application thread may be: the invariant from which the properties of   *)
(* ControlProperties follow.                                               *)
(***************************************************************************)
EXTENDS ControlProperties

(* Where Start, Stop and the destructor are in the hands of nobody.        *)
Destroying == {"detaching", "joining messages", "destroyed"}
Stopping == {"stopping", "joining", "joining bus", "closing"}
Places == {"idle", "opening", "spawning"} \cup Stopping \cup Destroying

AllThreadsOf(modules) == UNION {ThreadsOf(graph, m) : m \in modules}
BusDown == ~bus_running /\ bus_thread = "none"
BusUp == bus_running /\ bus_thread # "none"

(* ControlTypeOK in parts, with what it leaves to its reader.              *)
QueueType(elements) == {q \in [items : Seq(elements), debt : 0..1] : QueueOK(q, elements)}
BusTypes ==
  /\ bus_running \in BOOLEAN
  /\ bus_thread \in {"none", "polling", "polled", "informing", "ended"}
  /\ bus_queue \in QueueType(PostedEvents)
  /\ bus_watchers \in Seq({"pipeline", "user"})
  /\ event \in PostedEvents \cup GarbageEvents
  /\ watcher \in 0..Len(bus_watchers)
  /\ bus_watchers # <<>>
  /\ posts \in Nat
MsgTypes ==
  /\ msg_queue \in QueueType(MessageTypes)
  /\ msg_thread \in {"polling", "popped", "updating", "ended"}
  /\ exit_msg_loop \in BOOLEAN
  /\ updates \in Nat
StartTypes ==
  /\ graph \in Graphs /\ running \in BOOLEAN
  /\ ctl \in Places
  /\ todo \subseteq graph.modules /\ opened \subseteq graph.modules
  /\ stopped \subseteq Connected(graph)
  /\ \A t \in DOMAIN threads : threads[t] \in {"running", "ended"}
  /\ contained \subseteq graph.modules /\ calling \subseteq graph.modules
ControlTypes == BusTypes /\ MsgTypes /\ StartTypes

(* A pipeline that does not run and is neither starting nor stopping.      *)
DownInv ==
  ctl \in {"idle"} \cup Destroying /\ ~running =>
    opened = {} /\ DOMAIN threads = {} /\ BusDown

(* One that is up; Start ends here when every module has its threads.      *)
UpInv ==
  ctl = "idle" /\ running =>
    /\ opened = graph.modules
    /\ DOMAIN threads = AllThreadsOf(graph.modules)
    /\ \A m \in graph.modules : StartAccepts(graph, m)
    /\ BusUp

(* Start: the modules it has visited are open, then have their threads.    *)
StartInv ==
  /\ ctl = "opening" =>
       ~running /\ opened = graph.modules \ todo /\ DOMAIN threads = {} /\ BusDown
  /\ ctl = "spawning" =>
       /\ running /\ opened = graph.modules
       /\ DOMAIN threads = AllThreadsOf(graph.modules \ todo)
       /\ \A m \in graph.modules \ todo : StartAccepts(graph, m)
       /\ BusUp

(* Stop: the bus still has its thread until it is joined.                  *)
StopInv ==
  /\ ctl = "stopping" => BusUp
  /\ ctl = "joining" => ~running /\ BusUp
  /\ ctl = "joining bus" =>
       ~running /\ DOMAIN threads = {} /\ ~bus_running /\ bus_thread # "none"
  /\ ctl = "closing" => ~running /\ DOMAIN threads = {} /\ BusDown

(* The destructor: a call holds container_lock_ of a module that still has *)
(* its container.                                                          *)
DestroyInv ==
  /\ ctl \in Destroying => ~running
  /\ calling \subseteq contained
  /\ ctl \notin Destroying => contained = graph.modules
  /\ ctl = "detaching" => contained = todo
  /\ ctl \in {"joining messages", "destroyed"} => contained = {}
  /\ ctl = "destroyed" => msg_thread = "ended"

ControlInv == DownInv /\ UpInv /\ StartInv /\ StopInv /\ DestroyInv
=============================================================================
