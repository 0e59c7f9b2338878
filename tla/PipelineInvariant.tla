-------------------------- MODULE PipelineInvariant --------------------------
(***************************************************************************)
(* The inductive invariant behind PipelineProperties.  It is local: it     *)
(* speaks of a frame, a module and the threads that hold frames, never of  *)
(* paths through the graph.                                                *)
(***************************************************************************)
EXTENDS PipelineProperties

(* The frames that thread t has still to mark: queued, popped or created.  *)
Waiting(t) ==
  (IF t \in Workers THEN Queued(t) ELSE {})
    \cup (IF pc[t] \in BeforeMark THEN {cur[t]} ELSE {})

(* t is in TransmitData with f and has marked it. *)
Passing(t, f) == pc[t] \in AfterMark /\ cur[t] = f

(* t will, unless stopped, push its frame to d. *)
Pending(t, d) ==
  \/ /\ pc[t] = "check"
     /\ d \in DownNodes(ModuleOf(t))
     /\ Parents(d) \subseteq changed[t]
  \/ pc[t] \in {"gate", "push"} /\ d \in todo[t]

(* The thread of module m that handles the frames of f's stream. *)
ThreadFor(m, f) == IF m \in Inner THEN ConveyorFor(m, f) ELSE Handler(StreamOf(f))

(* Workers run only between the spawning and the joining of their threads. *)
CtlInv ==
  /\ ctl \in {"down", "starting", "closing"} => \A w \in Workers : pc[w] = "off"
  /\ ctl = "spawning" => \A w \in Workers : ModuleOf(w) \in ctlTodo => pc[w] = "off"

(* A stream has one thread per module, and enters no module of its mask. *)
PlacedInv ==
  \A t \in Threads : \A f \in Frames :
    f \in Waiting(t) \/ Passing(t, f) =>
      /\ t = ThreadFor(ModuleOf(t), f)
      /\ ModuleOf(t) \notin RouteMask(Origin[StreamOf(f)])

(* What waits at a module has been passed by the modules before it, and    *)
(* neither it nor any later frame of its stream has passed the module.     *)
WaitingInv ==
  \A t \in Threads : \A f \in Waiting(t) :
    /\ Parents(ModuleOf(t)) \subseteq mask[f]
    /\ ModuleOf(t) \notin mask[f]
    /\ \A g \in Frames : Before(f, g) => ModuleOf(t) \notin mask[g]

(* What is being transmitted has been marked; no later frame has been, and *)
(* the snapshot of the mask is a lower bound of it.                        *)
PassingInv ==
  \A t \in Threads : pc[t] \in AfterMark =>
    /\ ModuleOf(t) \in changed[t]
    /\ changed[t] \subseteq mask[cur[t]]
    /\ \A g \in Frames : Before(cur[t], g) => ModuleOf(t) \notin mask[g]

(* Masks are closed under Parents, and empty for frames still to be sent. *)
MaskInv ==
  \A f \in Frames :
    /\ \A m \in mask[f] : Parents(m) \subseteq mask[f]
    /\ f[2] > sent[StreamOf(f)] => mask[f] = {}

(* A handler that is about to mark holds the last frame it created. *)
HandlerInv ==
  \A s \in Streams : pc[Handler(s)] \in BeforeMark =>
    /\ cur[Handler(s)] = <<s, sent[s]>>
    /\ mask[cur[Handler(s)]] = {}

(* The frames of a stream wait in the order they were created. *)
Sorted(w) ==
  /\ \A i, j \in 1..Len(dataq[w]) :
       i < j /\ StreamOf(dataq[w][i]) = StreamOf(dataq[w][j]) => dataq[w][i][2] < dataq[w][j][2]
  /\ pc[w] \in BeforeMark =>
       \A f \in Queued(w) : StreamOf(f) = StreamOf(cur[w]) => Before(cur[w], f)

SortedInv == \A w \in Workers : Sorted(w)

(* A pending push will be the first arrival of the frame at that module.   *)
PendingInv ==
  \A t \in Threads : \A d \in Inner : Pending(t, d) =>
    /\ d \in DownNodes(ModuleOf(t))
    /\ Parents(d) \subseteq changed[t]
    /\ d \notin mask[cur[t]]
    /\ \A w \in Workers : ModuleOf(w) = d => cur[t] \notin Waiting(w)

(* Of two threads that transmit the same frame, the one that marked first  *)
(* has a snapshot without the other.                                       *)
ChainInv ==
  \A t, u \in Threads :
    t # u /\ pc[t] \in AfterMark /\ pc[u] \in AfterMark /\ cur[t] = cur[u] =>
      ModuleOf(t) \notin changed[u] \/ ModuleOf(u) \notin changed[t]

(* An announced stream has its EOS frame through all modules, and nobody   *)
(* is left to announce it again.                                           *)
EosInv ==
  \A s \in Streams : eosMsg[s] > 0 =>
    /\ eosMsg[s] = 1
    /\ mask[<<s, LastFrame[s]>>] = Modules
    /\ \A t \in Threads :
         ~(pc[t] = "check" /\ cur[t] = <<s, LastFrame[s]>> /\ changed[t] = Modules)

DataInv ==
  /\ PlacedInv /\ WaitingInv /\ PassingInv /\ MaskInv /\ HandlerInv
  /\ SortedInv /\ PendingInv /\ ChainInv /\ EosInv

IInv == TypeOK /\ CtlInv /\ DataInv
=============================================================================
