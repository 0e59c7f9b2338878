--------------------------- MODULE StreamLifecycle ---------------------------
(***************************************************************************)
(* The life of a stream: handler objects that take a stream index from     *)
(* IdxManager, SourceModule::AddSource, RemoveSource and RemoveSources on  *)
(* application threads, the thread of each handler, and the two global     *)
(* maps of easysa_frame.cpp that say which streams are being removed and   *)
(* which EOS frames have left the pipeline.  The pipeline itself is a bag  *)
(* of frames that are destroyed some time after they were sent.            *)
(***************************************************************************)
EXTENDS Naturals, FiniteSets

CONSTANTS
  Streams,
  Handlers,    (* handler objects, each created at most once                *)
  StreamId,    (* the stream each handler is made for                       *)
  MaxStreams,  (* GetMaxStreamNumber(), the width of stream_bitset          *)
  Apps,        (* application threads                                       *)
  Habits,      (* how the application uses a stream, see Habit              *)
  MaxFrames,   (* bound: the data frames of each stream                     *)
  None

(* "overlap": a handler object is made while another of its stream exists, *)
(* "reopen": a handler that was removed is added again, "unforced": the    *)
(* stream is removed without waiting for its EOS frame.                    *)
Habit == {"overlap", "reopen", "unforced"}
Careful == {s \in Streams : Habits[s] = {}}
Forces(s) == IF "unforced" \in Habits[s] THEN BOOLEAN ELSE {TRUE}

ASSUME LifecycleAssumption ==
  /\ StreamId \in [Handlers -> Streams]
  /\ MaxStreams \in Nat
  /\ Habits \in [Streams -> SUBSET Habit]
  /\ MaxFrames \in [Streams -> Nat]
  /\ None \notin Nat \cup Streams \cup Handlers \cup Apps

Indices == 0..MaxStreams - 1

VARIABLES
  stream_idx_map,   (* IdxManager: the index of each stream, or None        *)
  stream_bitset,    (* IdxManager: the indices in use                       *)
  handler,          (* "unborn", "new", "opened" or "destroyed"             *)
  index,            (* SourceHandler::stream_index_                         *)
  held,             (* the handlers the application holds a pointer to      *)
  source_map,       (* SourceModule::source_map_                            *)
  mtx,              (* who holds SourceModule::mtx_ across steps            *)
  running,          (* FileHandlerImpl::running_: not closed since Open     *)
  hpc,              (* where the thread of a handler is                     *)
  eos_sent,         (* SourceRender::eos_sent_                              *)
  sent,             (* the frames sent so far, per stream                   *)
  flight,           (* the frames that exist                                *)
  removed,          (* s_stream_removed_map_                                *)
  stream_eos,       (* s_stream_eos_map_: "absent", "false" or "true"       *)
  apc,              (* where an application thread is                       *)
  target,           (* the stream it removes                                *)
  force,            (* its force parameter                                  *)
  todo              (* streams the loop of its RemoveSources has left       *)

indexVars == <<stream_idx_map, stream_bitset>>
objectVars == <<handler, index, held>>
threadVars == <<hpc, eos_sent, sent, flight, stream_eos>>
appVars == <<apc, target, force, todo>>
vars == <<indexVars, objectVars, source_map, mtx, running, threadVars, removed, appVars>>

Init ==
  /\ stream_idx_map = [s \in Streams |-> None]
  /\ stream_bitset = {}
  /\ handler = [h \in Handlers |-> "unborn"]
  /\ index = [h \in Handlers |-> None]
  /\ held = {}
  /\ source_map = [s \in Streams |-> None]
  /\ mtx = None
  /\ running = [h \in Handlers |-> FALSE]
  /\ hpc = [h \in Handlers |-> "off"]
  /\ eos_sent = [h \in Handlers |-> FALSE]
  /\ sent = [s \in Streams |-> 0]
  /\ flight = {}
  /\ removed = {}
  /\ stream_eos = [s \in Streams |-> "absent"]
  /\ apc = [a \in Apps |-> "idle"]
  /\ target = [a \in Apps |-> None]
  /\ force = [a \in Apps |-> FALSE]
  /\ todo = [a \in Apps |-> {}]

Live(h) == handler[h] \in {"new", "opened"}
Mapped == {s \in Streams : source_map[s] # None}

(***************************************************************************)
(* IdxManager                                                              *)
(***************************************************************************)

(* Variant: the indices are counted from one. *)
FreeIndicesFromOne == (1..MaxStreams) \ stream_bitset

FreeIndices == Indices \ stream_bitset
LowestFree == CHOOSE i \in FreeIndices : \A j \in FreeIndices : i <= j

(* Variant: hand out an index that is in use. *)
SharedIndex(s) == IF stream_idx_map[s] # None THEN stream_idx_map[s] ELSE 0

(* The index of the stream, the lowest free one, or INVALID_STREAM_IDX. *)
GrantedIndex(s) ==
  IF stream_idx_map[s] # None THEN stream_idx_map[s]
  ELSE IF FreeIndices # {} THEN LowestFree ELSE None

(* Variant: the map does not learn of the index. *)
UnrecordedIndex(h) ==
  /\ index' = [index EXCEPT ![h] = GrantedIndex(StreamId[h])]
  /\ UNCHANGED indexVars

GetStreamIndex(h) ==
  LET s == StreamId[h]
      i == GrantedIndex(s)
  IN
  /\ index' = [index EXCEPT ![h] = i]
  /\ stream_idx_map' = [stream_idx_map EXCEPT ![s] = i]
  /\ stream_bitset' = IF i = None THEN stream_bitset ELSE stream_bitset \cup {i}

ReturnStreamIndex(returned) ==
  /\ stream_idx_map' = [s \in Streams |-> IF s \in returned THEN None ELSE stream_idx_map[s]]
  /\ stream_bitset' = stream_bitset \ {stream_idx_map[s] : s \in returned}

(* The last pointers to these handlers are gone: ~SourceHandler.  A thread *)
(* that was not joined would end the process (std::terminate); a handler   *)
(* of which RunningIsMapped holds has none.                                *)
Destroy(gone) ==
  /\ handler' = [h \in Handlers |-> IF h \in gone THEN "destroyed" ELSE handler[h]]
  /\ ReturnStreamIndex({StreamId[h] : h \in gone})

(***************************************************************************)
(* The application: handler objects and SourceModule::AddSource            *)
(***************************************************************************)

CreateHandler(h) ==
  /\ handler[h] = "unborn"
  /\ "overlap" \notin Habits[StreamId[h]] =>
       \A g \in Handlers : StreamId[g] = StreamId[h] => ~Live(g)
  /\ handler' = [handler EXCEPT ![h] = "new"]
  /\ held' = held \cup {h}
  /\ GetStreamIndex(h)
  /\ UNCHANGED <<source_map, mtx, running, threadVars, removed, appVars>>

(* The application drops its pointer. *)
DropHandler(h) ==
  /\ h \in held
  /\ held' = held \ {h}
  /\ IF source_map[StreamId[h]] = h
       THEN UNCHANGED <<handler, indexVars>>
       ELSE Destroy({h})
  /\ UNCHANGED <<index, source_map, mtx, running, threadVars, removed, appVars>>

(* Refused for a stream that has a handler and when the map is full; Open  *)
(* fails without an index, after the removed flag was cleared.             *)
AddSource(a, h) ==
  LET s == StreamId[h] IN
  /\ apc[a] = "idle"
  /\ mtx = None
  /\ h \in held
  /\ "reopen" \notin Habits[s] => handler[h] = "new"
  /\ source_map[s] = None
  /\ Cardinality(Mapped) < MaxStreams
  /\ removed' = removed \ {s}
  /\ IF index[h] = None
       THEN UNCHANGED <<handler, running, hpc, source_map>>
       ELSE /\ handler' = [handler EXCEPT ![h] = "opened"]
            /\ running' = [running EXCEPT ![h] = TRUE]
            /\ hpc' = [hpc EXCEPT ![h] = "prepare"]
            /\ source_map' = [source_map EXCEPT ![s] = h]
  /\ UNCHANGED <<indexVars, index, held, mtx, eos_sent, sent, flight, stream_eos, appVars>>

(***************************************************************************)
(* The thread of a FileHandler                                             *)
(***************************************************************************)

Goto(h, label) == hpc' = [hpc EXCEPT ![h] = label]

(* PrepareResources may fail with or without a decoder to be flushed. *)
Prepare(h) ==
  /\ hpc[h] = "prepare"
  /\ \E label \in {"loop", "clear", "ended"} : Goto(h, label)
  /\ UNCHANGED <<indexVars, objectVars, source_map, mtx, running, eos_sent, sent, flight,
                 stream_eos, removed, appVars>>

Frame(h, eos) == [from |-> h, no |-> sent[StreamId[h]] + 1, eos |-> eos]

(* OnDecodeFrame; SendData refuses the frames of a removed stream.  A      *)
(* decoder that is flushed still delivers frames.                          *)
SendFrame(h) ==
  LET s == StreamId[h] IN
  /\ hpc[h] \in {"loop", "clear"}
  /\ s \notin removed
  /\ sent[s] < MaxFrames[s]
  /\ flight' = flight \cup {Frame(h, FALSE)}
  /\ sent' = [sent EXCEPT ![s] = @ + 1]
  /\ UNCHANGED <<indexVars, objectVars, source_map, mtx, running, hpc, eos_sent, stream_eos,
                 removed, appVars>>

(* The file ends, decoding fails, or running_ is found cleared. *)
LeaveLoop(h) ==
  /\ hpc[h] = "loop"
  /\ Goto(h, "clear")
  /\ UNCHANGED <<indexVars, objectVars, source_map, mtx, running, eos_sent, sent, flight,
                 stream_eos, removed, appVars>>

(* Decoder::Destroy, OnDecodeEos and SendFlowEos: a handler sends one EOS  *)
(* frame in its life, whose creation sets s_stream_eos_map_ to false.      *)
SendFlowEos(h) ==
  LET s == StreamId[h] IN
  /\ hpc[h] = "clear"
  /\ Goto(h, "ended")
  /\ IF eos_sent[h]
       THEN UNCHANGED <<eos_sent, sent, flight, stream_eos>>
       ELSE /\ eos_sent' = [eos_sent EXCEPT ![h] = TRUE]
            /\ sent' = [sent EXCEPT ![s] = @ + 1]
            /\ flight' = flight \cup {Frame(h, TRUE)}
            /\ stream_eos' = [stream_eos EXCEPT ![s] = "false"]
  /\ UNCHANGED <<indexVars, objectVars, source_map, mtx, running, removed, appVars>>

(* The pipeline lets go of a frame: a data frame at any time, an EOS frame *)
(* after the frames sent before it to the same conveyors.                  *)
Follows(f, g) ==
  /\ StreamId[f.from] = StreamId[g.from]
  /\ index[f.from] = index[g.from]
  /\ g.no < f.no

(* Variant: the destructor of an EOS frame does not say so. *)
EosForgotten(s) == stream_eos

EosDestroyed(s) == [stream_eos EXCEPT ![s] = "true"]

DestroyFrame(f) ==
  /\ f \in flight
  /\ f.eos => \A g \in flight : ~Follows(f, g)
  /\ flight' = flight \ {f}
  /\ stream_eos' = IF f.eos THEN EosDestroyed(StreamId[f.from]) ELSE stream_eos
  /\ UNCHANGED <<indexVars, objectVars, source_map, mtx, running, hpc, eos_sent, sent, removed,
                 appVars>>

(***************************************************************************)
(* SourceModule::RemoveSource                                              *)
(***************************************************************************)

At(a, label) == apc' = [apc EXCEPT ![a] = label]

(* The call returns; its parameters are gone. *)
Return(a) ==
  /\ At(a, "idle")
  /\ target' = [target EXCEPT ![a] = None]
  /\ force' = [force EXCEPT ![a] = FALSE]

(* Variant: SetStreamRemoved(stream_id, false) is forgotten. *)
KeepMarked(s) == removed' = removed

Unmark(s) == removed' = removed \ {s}

RemoveBegin(a, s, f) ==
  /\ apc[a] = "idle"
  /\ f \in Forces(s)
  /\ removed' = IF f THEN removed \cup {s} ELSE removed \ {s}
  /\ At(a, "close")
  /\ target' = [target EXCEPT ![a] = s]
  /\ force' = [force EXCEPT ![a] = f]
  /\ UNCHANGED <<indexVars, objectVars, source_map, mtx, running, threadVars, todo>>

(* Variant: Close leaves running_ set. *)
LeaveRunning(h) == UNCHANGED running

StopHandler(h) == running' = [running EXCEPT ![h] = FALSE]

(* First critical section.  An unknown stream ends the call here.          *)
RemoveClose(a) ==
  LET h == source_map[target[a]] IN
  /\ apc[a] = "close"
  /\ mtx = None
  /\ IF h = None
       THEN Return(a) /\ UNCHANGED <<mtx, running>>
       ELSE /\ At(a, "join")
            /\ mtx' = a
            /\ StopHandler(h)
            /\ UNCHANGED <<target, force>>
  /\ UNCHANGED <<indexVars, objectVars, source_map, threadVars, removed, todo>>

(* Close joins the thread, under the mutex.  In RemoveSources the loop     *)
(* goes on.                                                                *)
RemoveJoin(a) ==
  LET h == source_map[target[a]] IN
  /\ apc[a] \in {"join", "joinOne"}
  /\ hpc[h] \in {"off", "ended"}
  /\ Goto(h, "off")
  /\ IF apc[a] = "join"
       THEN At(a, "wait") /\ mtx' = None /\ UNCHANGED target
       ELSE At(a, "closeEach") /\ target' = [target EXCEPT ![a] = None] /\ UNCHANGED mtx
  /\ UNCHANGED <<indexVars, objectVars, source_map, running, eos_sent, sent, flight, stream_eos,
                 removed, force, todo>>

(* Variant: a forced removal does not wait either. *)
NeverWaits(s, f) == TRUE

(* CheckStreamEosReached returns: forced, when the entry is true or there  *)
(* is none; otherwise at once.                                             *)
EosReached(s, f) == stream_eos[s] # "false" \/ ~f

(* ... and it erases an entry that is true. *)
CheckStreamEosReached(s, f) ==
  /\ EosReached(s, f)
  /\ stream_eos' = IF stream_eos[s] = "true" THEN [stream_eos EXCEPT ![s] = "absent"] ELSE stream_eos

RemoveWait(a) ==
  /\ apc[a] = "wait"
  /\ CheckStreamEosReached(target[a], force[a])
  /\ At(a, "unmark")
  /\ UNCHANGED <<indexVars, objectVars, source_map, mtx, running, hpc, eos_sent, sent, flight,
                 removed, target, force, todo>>

RemoveUnmark(a) ==
  /\ apc[a] = "unmark"
  /\ Unmark(target[a])
  /\ At(a, "erase")
  /\ UNCHANGED <<indexVars, objectVars, source_map, mtx, running, threadVars, target, force, todo>>

(* The handlers of these streams leave the map; those the application has  *)
(* no pointer to are destroyed.                                            *)
Erase(streams) ==
  /\ source_map' = [s \in Streams |-> IF s \in streams THEN None ELSE source_map[s]]
  /\ Destroy({source_map[s] : s \in streams} \ (held \cup {None}))

(* Second critical section: it erases what the map holds by now. *)
RemoveErase(a) ==
  /\ apc[a] = "erase"
  /\ mtx = None
  /\ Erase({target[a]})
  /\ Return(a)
  /\ UNCHANGED <<index, held, mtx, running, threadVars, removed, todo>>

(***************************************************************************)
(* SourceModule::RemoveSources: three critical sections, each a loop over  *)
(* the map.                                                                *)
(***************************************************************************)

ClearMark(a, f) ==
  /\ apc[a] = "idle"
  /\ mtx = None
  /\ \A s \in Mapped : f \in Forces(s)
  /\ removed' = IF f THEN removed \cup Mapped ELSE removed \ Mapped
  /\ At(a, "closeAll")
  /\ force' = [force EXCEPT ![a] = f]
  /\ UNCHANGED <<indexVars, objectVars, source_map, mtx, running, threadVars, target, todo>>

(* The second and the third section take the mutex and start their loop.   *)
ClearLock(a) ==
  /\ apc[a] \in {"closeAll", "waitAll"}
  /\ mtx = None
  /\ mtx' = a
  /\ todo' = [todo EXCEPT ![a] = Mapped]
  /\ At(a, IF apc[a] = "closeAll" THEN "closeEach" ELSE "waitEach")
  /\ UNCHANGED <<indexVars, objectVars, source_map, running, threadVars, removed, target, force>>

ClearClose(a) ==
  /\ apc[a] = "closeEach"
  /\ \E s \in todo[a] :
       /\ StopHandler(source_map[s])
       /\ target' = [target EXCEPT ![a] = s]
       /\ todo' = [todo EXCEPT ![a] = @ \ {s}]
  /\ At(a, "joinOne")
  /\ UNCHANGED <<indexVars, objectVars, source_map, mtx, threadVars, removed, force>>

ClearClosed(a) ==
  /\ apc[a] = "closeEach"
  /\ todo[a] = {}
  /\ mtx' = None
  /\ At(a, "waitAll")
  /\ UNCHANGED <<indexVars, objectVars, source_map, running, threadVars, removed, target, force, todo>>

ClearWait(a) ==
  /\ apc[a] = "waitEach"
  /\ \E s \in todo[a] :
       /\ CheckStreamEosReached(s, force[a])
       /\ Unmark(s)
       /\ todo' = [todo EXCEPT ![a] = @ \ {s}]
  /\ UNCHANGED <<indexVars, objectVars, source_map, mtx, running, hpc, eos_sent, sent, flight,
                 apc, target, force>>

ClearMap(a) ==
  /\ apc[a] = "waitEach"
  /\ todo[a] = {}
  /\ Erase(Mapped)
  /\ mtx' = None
  /\ Return(a)
  /\ UNCHANGED <<index, held, running, threadVars, removed, todo>>

(***************************************************************************)
(* The specification                                                       *)
(***************************************************************************)

HandlerThread(h) == Prepare(h) \/ SendFrame(h) \/ LeaveLoop(h) \/ SendFlowEos(h)

(* What a call that has begun does next. *)
Removal(a) ==
  \/ RemoveClose(a) \/ RemoveJoin(a) \/ RemoveWait(a) \/ RemoveUnmark(a) \/ RemoveErase(a)
  \/ ClearLock(a) \/ ClearClose(a) \/ ClearClosed(a) \/ ClearWait(a) \/ ClearMap(a)

Call(a) ==
  \/ \E h \in Handlers : AddSource(a, h)
  \/ \E f \in BOOLEAN : ClearMark(a, f) \/ \E s \in Streams : RemoveBegin(a, s, f)

Next ==
  \/ \E h \in Handlers : CreateHandler(h) \/ DropHandler(h) \/ HandlerThread(h)
  \/ \E f \in flight : DestroyFrame(f)
  \/ \E a \in Apps : Call(a) \/ Removal(a)

Spec == Init /\ [][Next]_vars

(* Threads run, a handler that finds running_ cleared leaves its loop, and *)
(* a running pipeline gets every frame through (EosGetsThrough).           *)
Fairness ==
  /\ \A h \in Handlers : WF_vars(Prepare(h) \/ SendFlowEos(h) \/ (~running[h] /\ LeaveLoop(h)))
  /\ WF_vars(\E f \in flight : DestroyFrame(f))
  /\ \A a \in Apps : WF_vars(Removal(a))

FairSpec == Spec /\ Fairness
=============================================================================
