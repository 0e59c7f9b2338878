------------------------------- MODULE Pipeline -------------------------------
(***************************************************************************)
(* The data path of easysa::Pipeline: source handler threads that send     *)
(* frames into the root modules, one TaskLoop thread per conveyor of every *)
(* other module, the bounded conveyors between them, and the application   *)
(* thread that calls Pipeline::Start and Pipeline::Stop.                   *)
(*                                                                         *)
(* A frame is a pair <<stream, number>>; the last number of a stream is    *)
(* its EOS frame.  A frame object is shared by all branches of the graph:  *)
(* only its modules mask is mutable, so the conveyors hold the pair.       *)
(***************************************************************************)
EXTENDS Naturals, Sequences

CONSTANTS
  Modules,      (* the modules added to the pipeline                        *)
  Links,        (* pairs <<up, down>> made by Pipeline::LinkModules         *)
  Streams,      (* the stream ids                                           *)
  Origin,       (* the source module each stream is added to                *)
  StreamIndex,  (* the index IdxManager gave each stream                    *)
  Parallelism,  (* threads, and conveyors, of each module                   *)
  Capacity,     (* the conveyor capacity of each module's connector         *)
  Rank,         (* the order of the names in std::set down_nodes            *)
  Visit,        (* the order in which the loops over modules_ meet them     *)
  LastFrame,    (* frames of stream s are 1..LastFrame[s], the last its EOS *)
  MaxStarts,    (* bound: how often the application calls Start             *)
  None          (* no frame: a null shared_ptr                              *)

Frames == UNION {{<<s, n>> : n \in 1..LastFrame[s]} : s \in Streams}
StreamOf(f) == f[1]
IsEos(f) == f[2] = LastFrame[StreamOf(f)]

(* f is an earlier frame than g of the same stream. *)
Before(f, g) == StreamOf(f) = StreamOf(g) /\ f[2] < g[2]

(* Module::GetModulesMask as a set: the modules linked to the input of m. *)
Parents(m) == {p \in Modules : <<p, m>> \in Links}
DownNodes(m) == {d \in Modules : <<m, d>> \in Links}
IsRootNode(m) == Parents(m) = {}
Roots == {m \in Modules : IsRootNode(m)}
Inner == Modules \ Roots

(* Pipeline::Start refuses a root with threads and an inner module with    *)
(* none; the pipelines modelled here are the ones it accepts.              *)
ASSUME PipelineAssumption ==
  /\ Links \subseteq Modules \X Modules
  /\ Origin \in [Streams -> Roots]
  /\ StreamIndex \in [Streams -> Nat]
  /\ Parallelism \in [Modules -> Nat]
  /\ \A m \in Modules : IsRootNode(m) <=> Parallelism[m] = 0
  /\ Capacity \in [Modules -> Nat \ {0}]
  /\ Rank \in [Modules -> Nat]
  /\ Visit \in [Modules -> Nat]
  /\ LastFrame \in [Streams -> Nat \ {0}]
  /\ MaxStarts \in Nat
  /\ None \notin Frames

(* Pipeline::GenerateRouteMask: all modules but those the breadth-first    *)
(* search from r visits.  What it visits is the least set that holds r and *)
(* is closed under Links.                                                  *)
Reachable(r) ==
  {m \in Modules : \A S \in SUBSET Modules :
     (r \in S /\ \A l \in Links : l[1] \in S => l[2] \in S) => m \in S}
RouteMask(r) == Modules \ Reachable(r)

(* Variant: no module counts as passed beforehand. *)
no_route_masks == [r \in Roots |-> {}]

route_masks == [r \in Roots |-> RouteMask(r)]

(* Variant for testing the properties: one passed parent is enough. *)
ShouldTransmitAny(passedMask, m) == Parents(m) \cap passedMask # {}

(* ShouldTransmit(passed_modules_mask, m) *)
ShouldTransmit(passedMask, m) == Parents(m) \subseteq passedMask

(***************************************************************************)
(* Threads.  The TaskLoop thread <<m, i>> owns conveyor i of module m; the *)
(* handler thread <<Origin[s], s>> sends the frames of stream s.           *)
(***************************************************************************)
Workers == UNION {{<<m, i>> : i \in 0..Parallelism[m] - 1} : m \in Inner}
Handler(s) == <<Origin[s], s>>
Threads == Workers \cup {Handler(s) : s \in Streams}
ModuleOf(t) == t[1]

(* Variant: spread the frames of a stream over the conveyors. *)
ConveyorByFrame(m, f) == <<m, f[2] % Parallelism[m]>>

(* data->GetStreamIndex() % connector->GetConveyorCount() *)
ConveyorFor(m, f) == <<m, StreamIndex[StreamOf(f)] % Parallelism[m]>>

VARIABLES
  dataq,      (* Conveyor::dataq_ of each conveyor                          *)
  stop,       (* Connector::stop_ of each inner module                      *)
  mask,       (* FrameInfo::modules_mask_ of each frame, as a set           *)
  pc,         (* where each thread is                                       *)
  cur,        (* the frame it holds                                         *)
  changed,    (* its changed_mask: the mask as it was when it marked cur    *)
  todo,       (* down nodes its push loop has still to serve                *)
  sent,       (* how many frames the source created, per stream             *)
  removed,    (* the streams IsStreamRemoved() is true of                   *)
  invalid,    (* frames flagged FRAME_FLAG_INVALID                          *)
  eosMsg,     (* how many EOS_MSG were pushed to the message queue          *)
  ctl,        (* where the application thread is in Start or Stop           *)
  ctlTodo,    (* modules its current loop has still to visit                *)
  draining,   (* conveyors EmptyDataQueue has still to empty                *)
  starts      (* calls of Start so far                                      *)

dataVars == <<dataq, stop, mask>>
threadVars == <<pc, cur, changed, todo>>
sourceVars == <<sent, removed, invalid>>
ctlVars == <<ctl, ctlTodo, draining, starts>>
vars == <<dataVars, threadVars, sourceVars, eosMsg, ctlVars>>

Init ==
  /\ dataq = [w \in Workers |-> <<>>]
  /\ stop = [m \in Inner |-> FALSE]
  /\ mask = [f \in Frames |-> {}]
  /\ pc = [t \in Threads |-> IF t \in Workers THEN "off" ELSE "idle"]
  /\ cur = [t \in Threads |-> None]
  /\ changed = [t \in Threads |-> {}]
  /\ todo = [t \in Threads |-> {}]
  /\ sent = [s \in Streams |-> 0]
  /\ removed = {}
  /\ invalid = {}
  /\ eosMsg = [s \in Streams |-> 0]
  /\ ctl = "down"
  /\ ctlTodo = {}
  /\ draining = {}
  /\ starts = 0

Goto(t, label) == pc' = [pc EXCEPT ![t] = label]

(* The thread lets go of its frame and goes on at label. *)
Release(t, label) ==
  /\ Goto(t, label)
  /\ cur' = [cur EXCEPT ![t] = None]
  /\ changed' = [changed EXCEPT ![t] = {}]
  /\ todo' = [todo EXCEPT ![t] = {}]

(***************************************************************************)
(* Sources                                                                 *)
(***************************************************************************)

(* A handler creates the next frame and calls SourceModule::SendData,      *)
(* which refuses data frames of a removed stream.  A decoder may mark a    *)
(* data frame invalid.  Handlers run between Open and Close of the module. *)
Send(s) ==
  LET t == Handler(s)
      f == <<s, sent[s] + 1>>
  IN
  /\ ctl # "down"
  /\ pc[t] = "idle"
  /\ sent[s] < LastFrame[s]
  /\ sent' = [sent EXCEPT ![s] = @ + 1]
  /\ \/ /\ ~IsEos(f) /\ s \in removed
        /\ UNCHANGED <<threadVars, invalid>>
     \/ /\ IsEos(f) \/ s \notin removed
        /\ Goto(t, "mark")
        /\ cur' = [cur EXCEPT ![t] = f]
        /\ \/ UNCHANGED invalid
           \/ ~IsEos(f) /\ invalid' = invalid \cup {f}
        /\ UNCHANGED <<changed, todo>>
  /\ UNCHANGED <<dataVars, removed, eosMsg, ctlVars>>

(* SetStreamRemoved, called by SourceModule::RemoveSource on any thread. *)
SetStreamRemoved(s) ==
  /\ removed' \in {removed \cup {s}, removed \ {s}}
  /\ UNCHANGED <<dataVars, threadVars, sent, invalid, eosMsg, ctlVars>>

(***************************************************************************)
(* Pipeline::TaskLoop                                                      *)
(***************************************************************************)

(* The wait loop ends when the connector is stopped. *)
TaskLoopExit(t) ==
  /\ pc[t] = "idle"
  /\ stop[ModuleOf(t)]
  /\ Goto(t, "done")
  /\ UNCHANGED <<dataVars, cur, changed, todo, sourceVars, eosMsg, ctlVars>>

(* The loop reads the stop flag and then waits up to 20 ms for a frame, so *)
(* a pop may also follow a Stop; a pop that times out changes nothing.     *)
PopDataBuffer(t) ==
  /\ pc[t] = "idle"
  /\ dataq[t] # <<>>
  /\ cur' = [cur EXCEPT ![t] = Head(dataq[t])]
  /\ dataq' = [dataq EXCEPT ![t] = Tail(@)]
  /\ Goto(t, "popped")
  /\ UNCHANGED <<stop, mask, changed, todo, sourceVars, eosMsg, ctlVars>>

(* The stop flag is read again: a frame popped after Stop is dropped with  *)
(* the loop.  Otherwise Module::DoProcess: Process() of a data frame may   *)
(* return non-zero, which ends the frame here; an EOS frame, and a frame   *)
(* of a removed stream, are passed on without calling it.                  *)
DoProcess(t) ==
  /\ pc[t] = "popped"
  /\ \/ stop[ModuleOf(t)] /\ Release(t, "done")
     \/ /\ ~stop[ModuleOf(t)]
        /\ ~IsEos(cur[t]) /\ StreamOf(cur[t]) \notin removed
        /\ Release(t, "idle")
     \/ /\ ~stop[ModuleOf(t)]
        /\ Goto(t, "mark") /\ UNCHANGED <<cur, changed, todo>>
  /\ UNCHANGED <<dataVars, sourceVars, eosMsg, ctlVars>>

(***************************************************************************)
(* Pipeline::TransmitData                                                  *)
(***************************************************************************)

(* Variant: ask the frame again instead of using changed_mask. *)
RereadMask(t) == mask[cur[t]]

(* The mask the push loop and the EOS test use: the local changed_mask. *)
TransmitMask(t) == changed[t]

(* Variant: the early return does not spare EOS frames. *)
StopsAnyFrame(f) == StreamOf(f) \in removed \/ f \in invalid

(* The early returns: a data frame of a removed stream, an invalid frame. *)
StopsHere(f) == ~IsEos(f) /\ (StreamOf(f) \in removed \/ f \in invalid)

(* SetModulesMask (roots only) and MarkPassed. *)
MarkPassed(t) ==
  LET m == ModuleOf(t)
      f == cur[t]
      base == IF IsRootNode(m) THEN route_masks[m] ELSE mask[f]
  IN
  /\ pc[t] = "mark"
  /\ mask' = [mask EXCEPT ![f] = base \cup {m}]
  /\ changed' = [changed EXCEPT ![t] = base \cup {m}]
  /\ Goto(t, "check")
  /\ UNCHANGED <<dataq, stop, cur, todo, sourceVars, eosMsg, ctlVars>>

(* The push loop has the down nodes in rest still to serve; after the last *)
(* one TransmitData returns and the thread lets go of the frame.           *)
PushLoop(t, rest) ==
  \/ rest = {} /\ Release(t, "idle")
  \/ /\ rest # {}
     /\ Goto(t, "gate")
     /\ todo' = [todo EXCEPT ![t] = rest]
     /\ UNCHANGED <<cur, changed>>

(* EOS_MSG for an EOS frame that all modules have passed; the early        *)
(* returns for removed streams and invalid frames (FRAME_ERR_MSG).  What   *)
(* goes on has to be pushed to the down nodes this frame is complete for.  *)
TransmitCheck(t) ==
  LET f == cur[t]
      downs == {d \in DownNodes(ModuleOf(t)) : ShouldTransmit(TransmitMask(t), d)}
  IN
  /\ pc[t] = "check"
  /\ eosMsg' = IF IsEos(f) /\ TransmitMask(t) = Modules
                 THEN [eosMsg EXCEPT ![StreamOf(f)] = @ + 1] ELSE eosMsg
  /\ \/ StopsHere(f) /\ Release(t, "idle")
     \/ ~StopsHere(f) /\ PushLoop(t, downs)
  /\ UNCHANGED <<dataVars, sourceVars, ctlVars>>

(* The next down node of the loop, in the order of std::set. *)
NextDown(t, d) == d \in todo[t] /\ \A e \in todo[t] : Rank[d] <= Rank[e]

(* Variant: the push loop does not look at the stop flag. *)
NeverGivesUp(d) == FALSE

GivesUp(d) == stop[d]

(* while (!connector->IsStopped() && ...): the stop flag is read here and  *)
(* the push follows as a step of its own.                                  *)
PushGate(t) ==
  /\ pc[t] = "gate"
  /\ \E d \in Inner :
       /\ NextDown(t, d)
       /\ IF GivesUp(d)
            THEN PushLoop(t, todo[t] \ {d})
            ELSE Goto(t, "push") /\ UNCHANGED <<cur, changed, todo>>
  /\ UNCHANGED <<dataVars, sourceVars, eosMsg, ctlVars>>

(* Variant: off by one at the capacity. *)
HasRoomOrFull(c) == Len(dataq[c]) <= Capacity[ModuleOf(c)]

HasRoom(c) == Len(dataq[c]) < Capacity[ModuleOf(c)]

(* Conveyor::PushDataBuffer; a full conveyor is retried after 20 ms. *)
PushDataBuffer(t) ==
  /\ pc[t] = "push"
  /\ \E d \in Inner :
       LET c == ConveyorFor(d, cur[t]) IN
       /\ NextDown(t, d)
       /\ IF HasRoom(c)
            THEN /\ dataq' = [dataq EXCEPT ![c] = Append(@, cur[t])]
                 /\ PushLoop(t, todo[t] \ {d})
            ELSE /\ Goto(t, "gate")
                 /\ UNCHANGED <<dataq, cur, changed, todo>>
  /\ UNCHANGED <<stop, mask, sourceVars, eosMsg, ctlVars>>

TransmitData(t) ==
  MarkPassed(t) \/ TransmitCheck(t) \/ PushGate(t) \/ PushDataBuffer(t)

TaskLoop(t) ==
  TaskLoopExit(t) \/ PopDataBuffer(t) \/ DoProcess(t)

(***************************************************************************)
(* Pipeline::Start                                                         *)
(***************************************************************************)

(* The loop over modules_ that ctlTodo is left of goes on with m. *)
NextModule(m) == m \in ctlTodo /\ \A e \in ctlTodo : Visit[m] <= Visit[e]

(* All modules opened (or one failed, and those opened were closed again). *)
StartOpen ==
  /\ ctl = "down"
  /\ starts < MaxStarts
  /\ starts' = starts + 1
  /\ \/ ctl' = "starting" /\ ctlTodo' = Inner
     \/ UNCHANGED <<ctl, ctlTodo>>
  /\ UNCHANGED <<dataVars, threadVars, sourceVars, eosMsg, draining>>

StartConnector(m) ==
  /\ ctl = "starting"
  /\ NextModule(m)
  /\ stop' = [stop EXCEPT ![m] = FALSE]
  /\ ctlTodo' = ctlTodo \ {m}
  /\ UNCHANGED <<dataq, mask, threadVars, sourceVars, eosMsg, ctl, draining, starts>>

ConnectorsStarted ==
  /\ ctl = "starting"
  /\ ctlTodo = {}
  /\ ctl' = "spawning"
  /\ ctlTodo' = Inner
  /\ UNCHANGED <<dataVars, threadVars, sourceVars, eosMsg, draining, starts>>

SpawnThreads(m) ==
  /\ ctl = "spawning"
  /\ NextModule(m)
  /\ pc' = [t \in Threads |-> IF t \in Workers /\ ModuleOf(t) = m THEN "idle" ELSE pc[t]]
  /\ ctlTodo' = ctlTodo \ {m}
  /\ UNCHANGED <<dataVars, cur, changed, todo, sourceVars, eosMsg, ctl, draining, starts>>

Started ==
  /\ ctl = "spawning"
  /\ ctlTodo = {}
  /\ ctl' = "up"
  /\ UNCHANGED <<dataVars, threadVars, sourceVars, eosMsg, ctlTodo, draining, starts>>

(***************************************************************************)
(* Pipeline::Stop                                                          *)
(***************************************************************************)

StopBegin ==
  /\ ctl = "up"
  /\ ctl' = "stopping"
  /\ ctlTodo' = Inner
  /\ UNCHANGED <<dataVars, threadVars, sourceVars, eosMsg, draining, starts>>

(* connector->Stop(), then EmptyDataQueue() conveyor by conveyor. *)
StopConnector(m) ==
  /\ ctl = "stopping"
  /\ draining = {}
  /\ NextModule(m)
  /\ stop' = [stop EXCEPT ![m] = TRUE]
  /\ ctlTodo' = ctlTodo \ {m}
  /\ draining' = {w \in Workers : ModuleOf(w) = m}
  /\ UNCHANGED <<dataq, mask, threadVars, sourceVars, eosMsg, ctl, starts>>

EmptyDataQueue(w) ==
  /\ ctl = "stopping"
  /\ w \in draining
  /\ dataq' = [dataq EXCEPT ![w] = <<>>]
  /\ draining' = draining \ {w}
  /\ UNCHANGED <<stop, mask, threadVars, sourceVars, eosMsg, ctl, ctlTodo, starts>>

ConnectorsStopped ==
  /\ ctl = "stopping"
  /\ ctlTodo = {} /\ draining = {}
  /\ ctl' = "joining"
  /\ UNCHANGED <<dataVars, threadVars, sourceVars, eosMsg, ctlTodo, draining, starts>>

JoinThreads ==
  /\ ctl = "joining"
  /\ \A w \in Workers : pc[w] = "done"
  /\ pc' = [t \in Threads |-> IF t \in Workers THEN "off" ELSE pc[t]]
  /\ ctl' = "closing"
  /\ UNCHANGED <<dataVars, cur, changed, todo, sourceVars, eosMsg, ctlTodo, draining, starts>>

(* Module::Close of a source joins its handler threads. *)
CloseModules ==
  /\ ctl = "closing"
  /\ \A s \in Streams : pc[Handler(s)] = "idle"
  /\ ctl' = "down"
  /\ UNCHANGED <<dataVars, threadVars, sourceVars, eosMsg, ctlTodo, draining, starts>>

ThreadStep(t) == (t \in Workers /\ TaskLoop(t)) \/ TransmitData(t)

ControlStep ==
  \/ \E m \in Inner : StartConnector(m) \/ SpawnThreads(m) \/ StopConnector(m)
  \/ \E w \in Workers : EmptyDataQueue(w)
  \/ ConnectorsStarted \/ Started \/ ConnectorsStopped \/ JoinThreads \/ CloseModules

Next ==
  \/ \E s \in Streams : Send(s) \/ SetStreamRemoved(s)
  \/ \E t \in Threads : ThreadStep(t)
  \/ StartOpen \/ StopBegin \/ ControlStep

Spec == Init /\ [][Next]_vars

(* The scheduler runs every thread; the application need not call Start or *)
(* Stop, nor a source send, but a call once begun goes on.                 *)
Fairness ==
  /\ \A t \in Threads : WF_vars(ThreadStep(t))
  /\ WF_vars(ControlStep)

FairSpec == Spec /\ Fairness
=============================================================================
