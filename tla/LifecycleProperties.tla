------------------------- MODULE LifecycleProperties -------------------------
(***************************************************************************)
(* What is checked of the life of a stream.                                *)
(***************************************************************************)
EXTENDS StreamLifecycle

Frames == [from : Handlers, no : Nat, eos : BOOLEAN]
Removing == {"close", "join", "wait", "unmark", "erase"}
Clearing == {"closeAll", "closeEach", "joinOne", "waitAll", "waitEach"}

(* Types; the mutex is held exactly by the thread whose pc says so, and a  *)
(* thread has a stream to remove exactly while it removes one.             *)
TypeOK ==
  /\ stream_idx_map \in [Streams -> Indices \cup {None}]
  /\ stream_bitset \subseteq Indices
  /\ handler \in [Handlers -> {"unborn", "new", "opened", "destroyed"}]
  /\ index \in [Handlers -> Indices \cup {None}]
  /\ held \subseteq Handlers
  /\ source_map \in [Streams -> Handlers \cup {None}]
  /\ mtx \in Apps \cup {None}
  /\ \A a \in Apps : mtx = a <=> apc[a] \in {"join", "closeEach", "joinOne", "waitEach"}
  /\ running \in [Handlers -> BOOLEAN]
  /\ hpc \in [Handlers -> {"off", "prepare", "loop", "clear", "ended"}]
  /\ eos_sent \in [Handlers -> BOOLEAN]
  /\ sent \in [Streams -> Nat]
  /\ flight \subseteq Frames
  /\ removed \subseteq Streams
  /\ stream_eos \in [Streams -> {"absent", "false", "true"}]
  /\ apc \in [Apps -> {"idle"} \cup Removing \cup Clearing]
  /\ target \in [Apps -> Streams \cup {None}]
  /\ \A a \in Apps : target[a] # None <=> apc[a] \in Removing \cup {"joinOne"}
  /\ force \in [Apps -> BOOLEAN]
  /\ todo \in [Apps -> SUBSET Streams]

(* IdxManager: the bitset holds exactly the indices in the map, no two     *)
(* streams have the same one, and none is lost: a stream that has an index *)
(* has a handler object whose destructor will return it.                   *)
IndexInv ==
  /\ stream_bitset = {stream_idx_map[s] : s \in Streams} \ {None}
  /\ \A s, r \in Streams :
       stream_idx_map[s] = stream_idx_map[r] /\ stream_idx_map[s] # None => s = r
  /\ \A s \in Streams : stream_idx_map[s] # None =>
       \E h \in Handlers : Live(h) /\ StreamId[h] = s

(* The pointers that exist point to handlers: what the application holds is *)
(* alive, source_map_ holds opened handlers under their own stream id, and *)
(* the only handler of a stream used with care has the stream's index.     *)
HandlerInv ==
  /\ \A h \in held : Live(h)
  /\ \A s \in Mapped : handler[source_map[s]] = "opened" /\ StreamId[source_map[s]] = s
  /\ \A h \in Handlers : Live(h) /\ StreamId[h] \in Careful =>
       /\ index[h] = stream_idx_map[StreamId[h]]
       /\ \A g \in Handlers : Live(g) /\ StreamId[g] = StreamId[h] => g = h

(* IdxManager and the handler objects agree.  The destructor of a handler  *)
(* returns the index of its stream, whoever else counts on it: that it     *)
(* loses none takes what HandlerInv says of the handlers that are alive.   *)
ObjectInv == IndexInv /\ HandlerInv

(* "Number to identify stream": the index of a live handler is given to no *)
(* other stream, whatever the application does to those, as long as its    *)
(* own stream has one handler object at a time.                            *)
UniqueIndex ==
  \A h \in Handlers : Live(h) /\ StreamId[h] \in Careful /\ index[h] # None =>
    \A s \in Streams : s # StreamId[h] => stream_idx_map[s] # index[h]

(* An entry that a removal waits on has an EOS frame that will change it.  *)
EosPending ==
  \A s \in Streams : stream_eos[s] = "false" =>
    \E f \in flight : f.eos /\ StreamId[f.from] = s

(* When the forced removal of stream s is past its wait, none of the       *)
(* frames of the handler it removes exists any more.                       *)
WaitedFor(s) ==
  \A a \in Apps :
    (apc[a] = "erase" /\ force[a] /\ target[a] = s /\ source_map[s] # None) =>
      \A f \in flight : f.from # source_map[s]

(* "wait for eos reached": so it is for a stream with one handler object   *)
(* at a time, that is never added again and always removed by force.       *)
ForcedRemoveWaits == \A s \in Careful : WaitedFor(s)

(* The comment of RemoveSource, for every stream. *)
AlwaysWaits == \A s \in Streams : WaitedFor(s)

(* A handler that was opened and not closed is in source_map_, where       *)
(* Pipeline::Stop finds it to close it and join its thread.                *)
RunningIsMapped == \A h \in Handlers : running[h] => source_map[StreamId[h]] = h

(* "Close handler first": what RemoveSource erases in its second critical  *)
(* section has been closed, whatever other calls did between the two.      *)
ClosedFirst ==
  \A a \in Apps : apc[a] = "erase" /\ mtx = None /\ source_map[target[a]] # None =>
    ~running[source_map[target[a]]]

(* The frames of a stream that has a handler are refused only while some   *)
(* call removes it: no call leaves the flag behind for the next handler.   *)
RefusedOnlyWhileRemoved ==
  \A s \in removed : source_map[s] # None =>
    \E a \in Apps : \/ apc[a] \in Removing \ {"erase"} /\ target[a] = s
                    \/ apc[a] \in Clearing

(* A removal returns: it joins a thread, and a forced one waits for a flag *)
(* that only the destructor of an EOS frame sets.                          *)
RemovalReturns == \A a \in Apps : apc[a] # "idle" ~> apc[a] = "idle"
=============================================================================
