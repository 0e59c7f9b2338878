------------------------------- MODULE EventBus -------------------------------
(***************************************************************************)
(* easysa::EventBus: the queue of posted events, the list of watchers and  *)
(* the thread that informs them.  Who may call Start and Stop, and when,   *)
(* is the business of the pipeline that owns the bus (PipelineControl).    *)
(*                                                                         *)
(* An event is a record of its type and of whether a module posted it; the *)
(* second field is what the properties ask about and no part of the code.  *)
(***************************************************************************)
EXTENDS ThreadSafeQueue

CONSTANTS
  Posts,        (* bound: how many events the modules post                  *)
  MaxWatchers   (* bound: how many watchers are ever in the list            *)

(* EventType; a warning is treated as EOS is, and what lies outside the    *)
(* enumeration as EVENT_TYPE_END.                                          *)
EventTypes == {"INVALID", "ERROR", "EOS", "STOP", "STREAM_ERROR", "TYPE_END"}
NoEvent == [type |-> "INVALID", posted |-> FALSE]
(* What the framework posts: EOS from TransmitData, stream errors from     *)
(* source handlers.                                                        *)
PostedEvents == {[type |-> t, posted |-> TRUE] : t \in {"EOS", "STREAM_ERROR"}}
GarbageEvents == {[type |-> t, posted |-> FALSE] : t \in EventTypes}

VARIABLES
  bus_running,  (* running_                                                 *)
  bus_thread,   (* event_thread_: not joinable ("none"), in PollEvent, with *)
                (* a polled event, informing watchers, or ended             *)
  bus_queue,    (* queue_                                                   *)
  bus_watchers, (* bus_watchers_, the front first                           *)
  event,        (* the event the thread is at                               *)
  watcher,      (* the position of the watcher it calls next                *)
  posts         (* events posted so far                                     *)

busVars == <<bus_running, bus_thread, bus_queue, bus_watchers, event, watcher, posts>>

BusInit(watchers) ==
  /\ bus_running = FALSE
  /\ bus_thread = "none"
  /\ bus_queue = EmptyQueue
  /\ bus_watchers = watchers
  /\ event = NoEvent
  /\ watcher = 0
  /\ posts = 0

(* EventBus::Start.  Assigning to a thread that is joinable ends the       *)
(* process; the properties say that it does not happen.                    *)
BusStart ==
  /\ bus_running' = TRUE
  /\ bus_thread' = "polling"
  /\ UNCHANGED <<bus_queue, bus_watchers, event, watcher, posts>>

(* EventBus::Stop, up to the join, and the join. *)
BusStop ==
  /\ bus_running' = FALSE
  /\ UNCHANGED <<bus_thread, bus_queue, bus_watchers, event, watcher, posts>>
BusJoin ==
  /\ bus_thread = "ended"
  /\ bus_thread' = "none"
  /\ UNCHANGED <<bus_running, bus_queue, bus_watchers, event, watcher, posts>>

(* AddBusWatch pushes to the front, under the mutex that the thread holds  *)
(* while it informs.                                                       *)
AddBusWatch(w) ==
  /\ bus_thread # "informing"
  /\ Len(bus_watchers) < MaxWatchers
  /\ bus_watchers' = <<w>> \o bus_watchers
  /\ UNCHANGED <<bus_running, bus_thread, bus_queue, event, watcher, posts>>

(* PostEvent; it returns false when the bus is not running. *)
PostEvent(e) ==
  /\ bus_running
  /\ posts < Posts
  /\ posts' = posts + 1
  /\ bus_queue' = Pushed(bus_queue, e)
  /\ UNCHANGED <<bus_running, bus_thread, bus_watchers, event, watcher>>

(* PollEvent, the pop.  One that waits 100 ms in vain changes nothing. *)
PollPop ==
  /\ bus_thread = "polling"
  /\ bus_running
  /\ WaitAndTryPop(bus_queue)
  /\ event' \in FrontOf(bus_queue, GarbageEvents)
  /\ bus_queue' = Popped(bus_queue)
  /\ bus_thread' = "polled"
  /\ UNCHANGED <<bus_running, bus_watchers, watcher, posts>>

(* Variant: the thread that leaves clears running_ behind itself. *)
LeaveAndClear ==
  /\ bus_thread' = "ended"
  /\ bus_running' = FALSE
  /\ event' = NoEvent
  /\ watcher' = 0

(* The end of EventLoop: running_ is left as it is. *)
LeaveLoop ==
  /\ bus_thread' = "ended"
  /\ UNCHANGED bus_running
  /\ event' = NoEvent
  /\ watcher' = 0

(* Variant: a wait without a timeout, which ends with its predicate only. *)
PollStoppedUntimed ==
  /\ bus_thread = "polling"
  /\ ~bus_running
  /\ WaitAndTryPop(bus_queue)
  /\ LeaveLoop
  /\ UNCHANGED <<bus_queue, bus_watchers, posts>>

(* The loop is left when running_ is false... *)
PollStopped ==
  /\ bus_thread = "polling"
  /\ ~bus_running
  /\ LeaveLoop
  /\ UNCHANGED <<bus_queue, bus_watchers, posts>>

(* ...which PollEvent reads once more after a pop, and for an invalid or a *)
(* stop event.  Any other event goes to the watchers, under the mutex.     *)
EventPolled ==
  /\ bus_thread = "polled"
  /\ \/ /\ ~bus_running \/ event.type \in {"INVALID", "STOP"}
        /\ LeaveLoop
     \/ /\ bus_running /\ event.type \notin {"INVALID", "STOP"}
        /\ bus_thread' = "informing"
        /\ watcher' = 1
        /\ UNCHANGED <<bus_running, event>>
  /\ UNCHANGED <<bus_queue, bus_watchers, posts>>

(* The watcher at the position answers with flag: the next one is informed *)
(* unless the event is intercepted or stopped; EVENT_HANDLE_STOP ends the  *)
(* loop.  The list is never empty: the pipeline put its own watcher there. *)
Informed(flag) ==
  /\ bus_thread = "informing"
  /\ \/ /\ flag = "STOP"
        /\ LeaveLoop
     \/ /\ flag \in {"NULL", "SYNCED"} /\ watcher < Len(bus_watchers)
        /\ watcher' = watcher + 1
        /\ UNCHANGED <<bus_running, bus_thread, event>>
     \/ /\ \/ flag = "INTERCEPTION"
           \/ flag \in {"NULL", "SYNCED"} /\ watcher = Len(bus_watchers)
        /\ bus_thread' = "polling"
        /\ event' = NoEvent
        /\ watcher' = 0
        /\ UNCHANGED bus_running
  /\ UNCHANGED <<bus_queue, bus_watchers, posts>>
=============================================================================
