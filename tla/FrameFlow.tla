------------------------------ MODULE FrameFlow ------------------------------
(***************************************************************************)
(* What a pipeline promises its users about the frames of a stream, with   *)
(* no thread, conveyor or lock in sight.  A frame enters at the source     *)
(* module of its stream and is then passed by the modules one at a time:   *)
(* by a module only when all the modules linked to its input have passed   *)
(* it, at most once, and never after a later frame of the same stream.     *)
(* The end of a stream is announced once, when every module has passed it. *)
(* A frame may also stop anywhere: frames are dropped by design.           *)
(***************************************************************************)
EXTENDS Naturals

CONSTANTS
  Modules,    (* the modules of the pipeline                                *)
  Links,      (* pairs <<up, down>> made by Pipeline::LinkModules           *)
  Streams,    (* the ids of the streams                                     *)
  Origin,     (* the source module each stream is added to                  *)
  LastFrame   (* frames of stream s are 1..LastFrame[s], the last its EOS   *)

VARIABLES
  passed,     (* for each frame, the modules it counts as passed by         *)
  announced   (* for each stream, how often its end was announced           *)

flowVars == <<passed, announced>>

Frames == UNION {{<<s, n>> : n \in 1..LastFrame[s]} : s \in Streams}
StreamOf(f) == f[1]
EosFrame(s) == <<s, LastFrame[s]>>

(* f is an earlier frame than g of the same stream. *)
Before(f, g) == StreamOf(f) = StreamOf(g) /\ f[2] < g[2]

Parents(m) == {p \in Modules : <<p, m>> \in Links}

(* The modules no frame entering at r can reach: every set of modules that *)
(* holds r and is closed under Links holds the reachable ones.             *)
Reachable(r) ==
  {m \in Modules : \A S \in SUBSET Modules :
     (r \in S /\ \A l \in Links : l[1] \in S => l[2] \in S) => m \in S}
RouteMask(r) == Modules \ Reachable(r)

FlowInit ==
  /\ passed = [f \in Frames |-> {}]
  /\ announced = [s \in Streams |-> 0]

(* The source module of the stream sends f; modules it cannot reach from   *)
(* there count as passed, so that joins do not wait for them.              *)
Enter(f) ==
  LET r == Origin[StreamOf(f)] IN
  /\ passed[f] = {}
  /\ \A g \in Frames : Before(f, g) => passed[g] = {}
  /\ passed' = [passed EXCEPT ![f] = RouteMask(r) \cup {r}]
  /\ UNCHANGED announced

Pass(f, m) ==
  /\ Parents(m) # {}
  /\ Parents(m) \subseteq passed[f]
  /\ m \notin passed[f]
  /\ \A g \in Frames : Before(f, g) => m \notin passed[g]
  /\ passed' = [passed EXCEPT ![f] = @ \cup {m}]
  /\ UNCHANGED announced

AnnounceEos(s) ==
  /\ passed[EosFrame(s)] = Modules
  /\ announced[s] = 0
  /\ announced' = [announced EXCEPT ![s] = 1]
  /\ UNCHANGED passed

FlowNext ==
  \/ \E f \in Frames : Enter(f) \/ \E m \in Modules : Pass(f, m)
  \/ \E s \in Streams : AnnounceEos(s)

FlowSpec == FlowInit /\ [][FlowNext]_flowVars
=============================================================================
