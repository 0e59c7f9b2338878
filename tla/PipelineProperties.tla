-------------------------- MODULE PipelineProperties --------------------------
(***************************************************************************)
(* What is checked, and proved in PipelineProof, of the data path.         *)
(***************************************************************************)
EXTENDS Pipeline

Pcs == {"off", "idle", "popped", "mark", "check", "gate", "push", "done"}
BeforeMark == {"popped", "mark"}   \* holds a frame its module has not marked
AfterMark == {"check", "gate", "push"}        \* holds a frame its module has marked
Holding == BeforeMark \cup AfterMark

(* Types, and what ties the pc of a thread to what it holds: no conveyor   *)
(* ever exceeds the capacity its connector was made with, and a thread has *)
(* a frame exactly from the pop (or the send) to the end of TransmitData.  *)
TypeOK ==
  /\ dataq \in [Workers -> Seq(Frames)]
  /\ \A w \in Workers : Len(dataq[w]) <= Capacity[ModuleOf(w)]
  /\ stop \in [Inner -> BOOLEAN]
  /\ mask \in [Frames -> SUBSET Modules]
  /\ pc \in [Threads -> Pcs]
  /\ cur \in [Threads -> Frames \cup {None}]
  /\ \A t \in Threads : pc[t] \in Holding <=> cur[t] # None
  /\ changed \in [Threads -> SUBSET Modules]
  /\ todo \in [Threads -> SUBSET Inner]
  /\ sent \in [Streams -> Nat] /\ \A s \in Streams : sent[s] <= LastFrame[s]
  /\ removed \subseteq Streams
  /\ invalid \subseteq Frames
  /\ eosMsg \in [Streams -> Nat]
  /\ ctl \in {"down", "starting", "spawning", "up", "stopping", "joining", "closing"}
  /\ ctlTodo \subseteq Inner
  /\ draining \subseteq Workers
  /\ starts \in 0..MaxStarts

(* The frames that wait in the conveyor of a worker. *)
Queued(w) == {dataq[w][i] : i \in 1..Len(dataq[w])}

(* The assert of TaskLoop: a frame reaches a module only when all the      *)
(* modules linked to its input have passed it, whatever join it went       *)
(* through and however the branches interleaved.                           *)
OnlyCompleteFramesArrive ==
  \A w \in Workers :
    /\ \A f \in Queued(w) : Parents(ModuleOf(w)) \subseteq mask[f]
    /\ pc[w] \in BeforeMark => Parents(ModuleOf(w)) \subseteq mask[cur[w]]

(* EOS_MSG, "the stream has received EOS message in all modules", ends the *)
(* stream: no frame of it waits in a conveyor or is in a thread's hands on *)
(* its way to be processed, also when frames were left over by a Stop.     *)
EosMsgIsLast ==
  \A s \in Streams : eosMsg[s] > 0 =>
    /\ \A w \in Workers : \A f \in Queued(w) : StreamOf(f) # s
    /\ \A t \in Threads : pc[t] \in Holding /\ StreamOf(cur[t]) = s => IsEos(cur[t])

(* The promise to users: frames pass each module at most once, after all   *)
(* the modules upstream of it and in the order of their stream, and EOS is *)
(* announced once, after every module; across stops and restarts.          *)
Flow == INSTANCE FrameFlow WITH passed <- mask, announced <- eosMsg
ImplementsFlow == Flow!FlowSpec

(* The comment in Pipeline::Stop: "push data will be rejected after Stop() *)
(* stop first to ensure connector will be empty".                          *)
ConveyorsEmptyAfterStop ==
  ctl \in {"joining", "closing"} => \A w \in Workers : dataq[w] = <<>>

(* Pipeline::Stop returns: no thread it joins, handler or TaskLoop, stays  *)
(* in a push loop on a conveyor nobody empties any more.                   *)
StopTerminates == ctl = "stopping" ~> ctl = "down"

(* Backpressure never wedges the graph: unless the pipeline is stopped, an *)
(* EOS frame sent into a running pipeline is in the end announced: it gets *)
(* through every full conveyor and every join, behind whatever is dropped. *)
EosGetsThrough ==
  \A s \in Streams :
    (ctl = "up" /\ pc[Handler(s)] = "mark" /\ IsEos(cur[Handler(s)]))
      ~> (eosMsg[s] = 1 \/ ctl # "up")
=============================================================================
