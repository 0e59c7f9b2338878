--------------------------- MODULE RemovalInvariant ---------------------------
(***************************************************************************)
(* What removals rely on when one application thread adds and removes: the *)
(* invariants from which RunningIsMapped and ForcedRemoveWaits follow.     *)
(***************************************************************************)
EXTENDS LifecycleProperties

(* With several callers RunningIsMapped fails, see LifecycleRace.          *)
OneCaller == \A a, b \in Apps : a = b

(* The threads of handlers are those Stop can find, and the ones a removal *)
(* has closed and joined stay off until it erases them.                    *)
Quiet(h) == ~running[h] /\ hpc[h] = "off"
ThreadsMapped ==
  \A h \in Handlers : running[h] \/ hpc[h] # "off" => source_map[StreamId[h]] = h
JoinedBy(a) ==
  /\ apc[a] = "join" => source_map[target[a]] # None /\ ~running[source_map[target[a]]]
  /\ apc[a] \in {"wait", "unmark", "erase"} =>
       target[a] \in Mapped /\ Quiet(source_map[target[a]])
  /\ apc[a] \in {"closeEach", "joinOne"} =>
       /\ todo[a] \subseteq Mapped
       /\ \A s \in Mapped \ todo[a] : s # target[a] => Quiet(source_map[s])
  /\ apc[a] = "joinOne" => target[a] \in Mapped \ todo[a] /\ ~running[source_map[target[a]]]
  /\ apc[a] \in {"waitAll", "waitEach"} => \A s \in Mapped : Quiet(source_map[s])
  /\ apc[a] = "waitEach" => todo[a] \subseteq Mapped
JoinedInv == \A a \in Apps : JoinedBy(a)

(* A call that removes a careful stream does it by force.                  *)
ForceInv ==
  \A a \in Apps :
    /\ apc[a] \in Removing => force[a] \in Forces(target[a])
    /\ apc[a] \in Clearing => \A s \in Mapped : force[a] \in Forces(s)

FlightOf(s) == {f \in flight : StreamId[f.from] = s}

(* The frames of a careful stream are those of its handler, and the EOS    *)
(* frame is the last of them.  Between two handlers there is no frame and  *)
(* no entry in the EOS map.                                                *)
FreshInv == \A h \in Handlers : handler[h] \in {"unborn", "new"} => ~eos_sent[h]
StreamInv(s) ==
  LET h == source_map[s] IN
  /\ \A f \in FlightOf(s) : f.from = h /\ f.no <= sent[s]
  /\ h = None => stream_eos[s] = "absent"
  /\ h # None /\ ~eos_sent[h] =>
       /\ stream_eos[s] = "absent"
       /\ \A f \in FlightOf(s) : ~f.eos
       /\ hpc[h] \in {"off", "prepare", "ended"} => FlightOf(s) = {}
  /\ h # None /\ eos_sent[h] =>
       /\ hpc[h] \in {"off", "ended"}
       /\ \A e, f \in FlightOf(s) : e.eos /\ f # e => f.no < e.no
       /\ stream_eos[s] # "false" => FlightOf(s) = {}
CarefulInv == FreshInv /\ \A s \in Careful : StreamInv(s)

(* A forced removal that has waited left nothing behind.                   *)
Drained(s) == FlightOf(s) = {} /\ stream_eos[s] = "absent"
WaitedBy(a) ==
  /\ apc[a] \in {"unmark", "erase"} /\ target[a] \in Careful => Drained(target[a])
  /\ apc[a] = "waitEach" => \A s \in (Mapped \ todo[a]) \cap Careful : Drained(s)
WaitedInv == \A a \in Apps : WaitedBy(a)

RemovalInv == ThreadsMapped /\ JoinedInv /\ ForceInv /\ CarefulInv /\ WaitedInv
=============================================================================
