---------------------------- MODULE LifecycleProof ----------------------------
(***************************************************************************)
(* Proofs, for every set of streams, handlers and application threads and  *)
(* every way the application uses them, that the handlers and IdxManager   *)
(* agree on the indices and that nobody waits for an EOS frame that does   *)
(* not exist; what a removal leaves of the flag that refuses frames; and,  *)
(* when one application thread adds and removes, that it closes and waits  *)
(* for the handler it removes.                                             *)
(***************************************************************************)
EXTENDS RemovalInvariant, WellFoundedInduction, TLAPS

(***************************************************************************)
(* IdxManager                                                              *)
(***************************************************************************)

(* The search of GetStreamIndex ends at a free index when there is one. *)
LEMMA LowestFreeIsFree ==
  ASSUME FreeIndices # {}
  PROVE  LowestFree \in FreeIndices
<1>1. FreeIndices \subseteq Nat
  BY LifecycleAssumption DEF FreeIndices, Indices
<1>2. PICK i \in FreeIndices : \A j \in FreeIndices : <<j, i>> \notin OpToRel(<, Nat)
  BY <1>1, WFMin, NatLessThanWellFounded, Zenon
<1>3. \A j \in FreeIndices : ~(j < i)
  BY <1>1, <1>2, Zenon DEF OpToRel
<1>4. \A j \in FreeIndices : i <= j
  BY <1>1, <1>3
<1> QED BY <1>4 DEF LowestFree

LEMMA GrantedIndexType ==
  ASSUME stream_idx_map \in [Streams -> Indices \cup {None}], NEW s \in Streams
  PROVE  GrantedIndex(s) \in Indices \cup {None}
BY LowestFreeIsFree DEF GrantedIndex, FreeIndices

(***************************************************************************)
(* Types                                                                   *)
(***************************************************************************)

LEMMA TypeInit == Init => TypeOK
BY LifecycleAssumption DEF Init, TypeOK, Removing, Clearing


LEMMA ReturnStreamIndexTypes ==
  ASSUME TypeOK, NEW returned, ReturnStreamIndex(returned)
  PROVE  /\ stream_idx_map' \in [Streams -> Indices \cup {None}]
         /\ stream_bitset' \subseteq Indices
BY DEF TypeOK, ReturnStreamIndex

LEMMA DestroyTypes ==
  ASSUME TypeOK, NEW gone, Destroy(gone)
  PROVE  /\ handler' \in [Handlers -> {"unborn", "new", "opened", "destroyed"}]
         /\ stream_idx_map' \in [Streams -> Indices \cup {None}]
         /\ stream_bitset' \subseteq Indices
BY ReturnStreamIndexTypes DEF TypeOK, Destroy

LEMMA CallTypes ==
  ASSUME TypeOK, NEW a \in Apps, Call(a)
  PROVE  TypeOK'
<1> USE LifecycleAssumption
<1>1. ASSUME NEW h \in Handlers, AddSource(a, h) PROVE TypeOK'
  <2>1. StreamId[h] \in Streams /\ removed' \subseteq Streams
    BY <1>1 DEF TypeOK, AddSource
  <2>2. CASE index[h] = None
    BY <1>1, <2>1, <2>2 DEF TypeOK, AddSource, indexVars, appVars
  <2>3. CASE index[h] # None
    <3>1. /\ handler' = [handler EXCEPT ![h] = "opened"]
          /\ running' = [running EXCEPT ![h] = TRUE]
          /\ hpc' = [hpc EXCEPT ![h] = "prepare"]
          /\ source_map' = [source_map EXCEPT ![StreamId[h]] = h]
      BY <1>1, <2>3 DEF AddSource
    <3>2. UNCHANGED <<indexVars, index, held, mtx, eos_sent, sent, flight, stream_eos, appVars>>
      BY <1>1 DEF AddSource
    <3> QED BY <2>1, <3>1, <3>2 DEF TypeOK, indexVars, appVars
  <2> QED BY <2>2, <2>3
<1>2. ASSUME NEW f \in BOOLEAN, ClearMark(a, f) PROVE TypeOK'
  BY <1>2 DEF TypeOK, ClearMark, At, Mapped, Removing, Clearing, indexVars, objectVars, threadVars
<1>3. ASSUME NEW f \in BOOLEAN, NEW s \in Streams, RemoveBegin(a, s, f) PROVE TypeOK'
  BY <1>3 DEF TypeOK, RemoveBegin, At, Removing, Clearing, indexVars, objectVars, threadVars
<1> QED BY <1>1, <1>2, <1>3 DEF Call

LEMMA RemovalTypes ==
  ASSUME TypeOK, NEW a \in Apps, Removal(a)
  PROVE  TypeOK'
<1> USE LifecycleAssumption DEF TypeOK, At, Removing, Clearing
<1>1. CASE RemoveClose(a)
  <2>1. CASE source_map[target[a]] = None
    <3>1. /\ apc[a] = "close"
          /\ apc' = [apc EXCEPT ![a] = "idle"]
          /\ target' = [target EXCEPT ![a] = None]
          /\ force' = [force EXCEPT ![a] = FALSE]
          /\ UNCHANGED <<mtx, running>>
      BY <1>1, <2>1 DEF RemoveClose, Return
    <3> QED BY <1>1, <3>1 DEF RemoveClose, indexVars, objectVars, threadVars
  <2>2. CASE source_map[target[a]] # None
    <3>1. running' \in [Handlers -> BOOLEAN]
      BY <1>1, <2>2 DEF RemoveClose, StopHandler
    <3> QED BY <1>1, <2>2, <3>1 DEF RemoveClose, indexVars, objectVars, threadVars
  <2> QED BY <2>1, <2>2
<1>2. CASE RemoveJoin(a)
  <2>1. hpc' \in [Handlers -> {"off", "prepare", "loop", "clear", "ended"}]
    BY <1>2 DEF RemoveJoin, Goto
  <2>2. CASE apc[a] = "join"
    BY <1>2, <2>1, <2>2 DEF RemoveJoin, indexVars, objectVars
  <2>3. CASE apc[a] = "joinOne"
    BY <1>2, <2>1, <2>3 DEF RemoveJoin, indexVars, objectVars
  <2> QED BY <1>2, <2>2, <2>3 DEF RemoveJoin
<1>3. CASE RemoveWait(a)
  BY <1>3 DEF RemoveWait, CheckStreamEosReached, indexVars, objectVars
<1>4. CASE RemoveUnmark(a)
  BY <1>4 DEF RemoveUnmark, Unmark, indexVars, objectVars, threadVars
<1>5. CASE RemoveErase(a)
  <2>1. /\ handler' \in [Handlers -> {"unborn", "new", "opened", "destroyed"}]
        /\ stream_idx_map' \in [Streams -> Indices \cup {None}]
        /\ stream_bitset' \subseteq Indices
    BY <1>5, DestroyTypes DEF RemoveErase, Erase
  <2> QED BY <1>5, <2>1 DEF RemoveErase, Erase, Return, threadVars
<1>6. CASE ClearLock(a)
  BY <1>6 DEF ClearLock, Mapped, indexVars, objectVars, threadVars
<1>7. CASE ClearClose(a)
  <2>1. PICK s \in todo[a] :
          /\ StopHandler(source_map[s])
          /\ target' = [target EXCEPT ![a] = s]
          /\ todo' = [todo EXCEPT ![a] = @ \ {s}]
    BY <1>7 DEF ClearClose
  <2>2. s \in Streams /\ running' \in [Handlers -> BOOLEAN]
    BY <2>1 DEF StopHandler
  <2> QED BY <1>7, <2>1, <2>2 DEF ClearClose, indexVars, objectVars, threadVars
<1>8. CASE ClearClosed(a)
  BY <1>8 DEF ClearClosed, indexVars, objectVars, threadVars
<1>9. CASE ClearWait(a)
  BY <1>9 DEF ClearWait, CheckStreamEosReached, Unmark, indexVars, objectVars
<1>10. CASE ClearMap(a)
  <2>1. /\ handler' \in [Handlers -> {"unborn", "new", "opened", "destroyed"}]
        /\ stream_idx_map' \in [Streams -> Indices \cup {None}]
        /\ stream_bitset' \subseteq Indices
    BY <1>10, DestroyTypes DEF ClearMap, Erase
  <2> QED BY <1>10, <2>1 DEF ClearMap, Erase, Return, threadVars
<1> QED BY <1>1, <1>2, <1>3, <1>4, <1>5, <1>6, <1>7, <1>8, <1>9, <1>10 DEF Removal

LEMMA TypeStep == TypeOK /\ [Next]_vars => TypeOK'
<1> SUFFICES ASSUME TypeOK, [Next]_vars PROVE TypeOK'
  OBVIOUS
<1> USE LifecycleAssumption
<1>1. ASSUME NEW h \in Handlers, CreateHandler(h) PROVE TypeOK'
  <2>1. GrantedIndex(StreamId[h]) \in Indices \cup {None}
    BY GrantedIndexType DEF TypeOK
  <2> QED BY <1>1, <2>1 DEF TypeOK, CreateHandler, GetStreamIndex, threadVars, appVars
<1>2. ASSUME NEW h \in Handlers, DropHandler(h) PROVE TypeOK'
  <2>1. /\ handler' \in [Handlers -> {"unborn", "new", "opened", "destroyed"}]
        /\ stream_idx_map' \in [Streams -> Indices \cup {None}]
        /\ stream_bitset' \subseteq Indices
    BY <1>2, DestroyTypes DEF DropHandler, TypeOK, indexVars
  <2> QED BY <1>2, <2>1 DEF TypeOK, DropHandler, threadVars, appVars
<1>3. ASSUME NEW h \in Handlers, HandlerThread(h) PROVE TypeOK'
  <2> USE DEF TypeOK, Goto, indexVars, objectVars, appVars
  <2>1. CASE Prepare(h)
    BY <2>1 DEF Prepare
  <2>2. CASE SendFrame(h)
    <3>1. Frame(h, FALSE) \in Frames
      BY DEF Frame, Frames
    <3>2. /\ flight' = flight \cup {Frame(h, FALSE)}
          /\ sent' = [sent EXCEPT ![StreamId[h]] = @ + 1]
          /\ UNCHANGED <<indexVars, objectVars, source_map, mtx, running, hpc, eos_sent,
                         stream_eos, removed, appVars>>
      BY <2>2, Zenon DEF SendFrame
    <3>3. flight' \subseteq Frames
      BY <3>1, <3>2
    <3>4. sent' \in [Streams -> Nat]
      BY <3>2
    <3> QED BY <3>2, <3>3, <3>4
  <2>3. CASE LeaveLoop(h)
    BY <2>3 DEF LeaveLoop
  <2>4. CASE SendFlowEos(h)
    <3>1. Frame(h, TRUE) \in Frames
      BY DEF Frame, Frames
    <3>2. CASE eos_sent[h]
      BY <2>4, <3>2 DEF SendFlowEos
    <3>3. CASE ~eos_sent[h]
      <4>1. /\ eos_sent' = [eos_sent EXCEPT ![h] = TRUE]
            /\ sent' = [sent EXCEPT ![StreamId[h]] = @ + 1]
            /\ flight' = flight \cup {Frame(h, TRUE)}
            /\ stream_eos' = [stream_eos EXCEPT ![StreamId[h]] = "false"]
        BY <2>4, <3>3, Zenon DEF SendFlowEos
      <4>2. sent' \in [Streams -> Nat] /\ eos_sent' \in [Handlers -> BOOLEAN]
        BY <4>1
      <4>3. flight' \subseteq Frames /\ stream_eos' \in [Streams -> {"absent", "false", "true"}]
        BY <3>1, <4>1
      <4>4. /\ hpc' = [hpc EXCEPT ![h] = "ended"]
            /\ UNCHANGED <<indexVars, objectVars, source_map, mtx, running, removed, appVars>>
        BY <2>4, Zenon DEF SendFlowEos
      <4> QED BY <4>2, <4>3, <4>4
    <3> QED BY <3>2, <3>3
  <2> QED BY <1>3, <2>1, <2>2, <2>3, <2>4 DEF HandlerThread
<1>4. ASSUME NEW f \in flight, DestroyFrame(f) PROVE TypeOK'
  <2>1. StreamId[f.from] \in Streams
    BY DEF TypeOK, Frames
  <2> QED
    BY <1>4, <2>1 DEF TypeOK, DestroyFrame, EosDestroyed, indexVars, objectVars, appVars
<1>5. CASE UNCHANGED vars
  BY <1>5 DEF TypeOK, vars, indexVars, objectVars, threadVars, appVars
<1> QED BY <1>1, <1>2, <1>3, <1>4, <1>5, CallTypes, RemovalTypes DEF Next

(* Every reachable state has its type: the mutex of SourceModule belongs   *)
(* to the thread that is inside one of its critical sections.              *)
THEOREM LifecycleTypes == Spec => []TypeOK
BY TypeInit, TypeStep, PTL DEF Spec

(***************************************************************************)
(* Indices.  IndexInv alone is not inductive: that the destructor of a     *)
(* handler frees an index that no other handler of the stream counts on    *)
(* needs HandlerInv.                                                       *)
(***************************************************************************)

LEMMA ObjectInit == Init => ObjectInv
BY LifecycleAssumption DEF Init, ObjectInv, IndexInv, HandlerInv, Mapped, Live

LEMMA ObjectStutter ==
  ASSUME ObjectInv, UNCHANGED <<stream_idx_map, stream_bitset, handler, index, held, source_map>>
  PROVE  ObjectInv'
BY DEF ObjectInv, IndexInv, HandlerInv, Mapped, Live

(* ~SourceHandler, for handlers that are alive and that no pointer is left *)
(* to: the entries it returns are those of no surviving careful handler.   *)
LEMMA DestroyKeeps ==
  ASSUME TypeOK, ObjectInv,
         NEW gone \in SUBSET {h \in Handlers : Live(h)}, Destroy(gone),
         UNCHANGED index,
         held' \subseteq held \ gone,
         \A s \in Streams : source_map'[s] = None \/ source_map'[s] = source_map[s],
         \A s \in Streams : source_map'[s] \notin gone
  PROVE  ObjectInv'
<1> USE LifecycleAssumption
<1> DEFINE returned == {StreamId[h] : h \in gone}
<1>1. /\ stream_idx_map' = [s \in Streams |-> IF s \in returned THEN None ELSE stream_idx_map[s]]
      /\ stream_bitset' = stream_bitset \ {stream_idx_map[s] : s \in returned}
      /\ returned \subseteq Streams
  BY DEF Destroy, ReturnStreamIndex
<1>2. \A h \in Handlers : handler'[h] = IF h \in gone THEN "destroyed" ELSE handler[h]
  BY DEF Destroy
<1>3. \A h \in Handlers : Live(h)' <=> Live(h) /\ h \notin gone
  BY <1>2 DEF Live
<1>4. IndexInv'
  <2>1. stream_bitset' = {stream_idx_map'[s] : s \in Streams} \ {None}
    BY <1>1 DEF ObjectInv, IndexInv
  <2>2. \A s, r \in Streams :
          stream_idx_map'[s] = stream_idx_map'[r] /\ stream_idx_map'[s] # None => s = r
    BY <1>1 DEF ObjectInv, IndexInv
  <2>3. ASSUME NEW s \in Streams, stream_idx_map'[s] # None
        PROVE  \E h \in Handlers : Live(h)' /\ StreamId[h] = s
    <3>1. s \notin returned /\ stream_idx_map[s] # None
      BY <1>1, <2>3
    <3>2. PICK h \in Handlers : Live(h) /\ StreamId[h] = s
      BY <3>1 DEF ObjectInv, IndexInv
    <3> QED BY <1>3, <3>1, <3>2
  <2> QED BY <2>1, <2>2, <2>3 DEF IndexInv
<1>5. HandlerInv'
  <2>1. \A h \in held' : Live(h)'
    BY <1>3 DEF ObjectInv, HandlerInv, TypeOK
  <2>2. \A s \in Streams : source_map'[s] # None =>
          handler'[source_map'[s]] = "opened" /\ StreamId[source_map'[s]] = s
    BY <1>2 DEF ObjectInv, HandlerInv, Mapped, TypeOK
  <2>3. ASSUME NEW h \in Handlers, Live(h)', StreamId[h] \in Careful
        PROVE  /\ index'[h] = stream_idx_map'[StreamId[h]]
               /\ \A g \in Handlers : Live(g)' /\ StreamId[g] = StreamId[h] => g = h
    <3>1. Live(h) /\ h \notin gone
      BY <1>3, <2>3
    <3>2. /\ index[h] = stream_idx_map[StreamId[h]]
          /\ \A g \in Handlers : Live(g) /\ StreamId[g] = StreamId[h] => g = h
      BY <2>3, <3>1 DEF ObjectInv, HandlerInv
    <3>3. StreamId[h] \notin returned
      BY <3>1, <3>2
    <3> QED BY <1>1, <1>3, <3>2, <3>3
  <2> QED BY <2>1, <2>2, <2>3 DEF HandlerInv, Mapped
<1> QED BY <1>4, <1>5 DEF ObjectInv

LEMMA CreateKeeps ==
  ASSUME TypeOK, ObjectInv, NEW h \in Handlers, CreateHandler(h)
  PROVE  ObjectInv'
<1> USE LifecycleAssumption
<1> DEFINE s == StreamId[h]
           i == GrantedIndex(s)
<1>1. /\ handler[h] = "unborn"
      /\ handler' = [handler EXCEPT ![h] = "new"]
      /\ held' = held \cup {h}
      /\ index' = [index EXCEPT ![h] = i]
      /\ stream_idx_map' = [stream_idx_map EXCEPT ![s] = i]
      /\ stream_bitset' = IF i = None THEN stream_bitset ELSE stream_bitset \cup {i}
      /\ source_map' = source_map
  BY DEF CreateHandler, GetStreamIndex
<1>2. s \in Streams /\ ~Live(h)
  BY <1>1 DEF Live
<1>3. \A g \in Handlers : Live(g)' <=> Live(g) \/ g = h
  BY <1>1 DEF Live, TypeOK
<1>4. \/ i = stream_idx_map[s]
      \/ stream_idx_map[s] = None /\ i # None /\ i \notin stream_bitset
  BY LowestFreeIsFree DEF GrantedIndex, FreeIndices
<1>5. IndexInv'
  <2>1. stream_bitset' = {stream_idx_map'[r] : r \in Streams} \ {None}
    BY <1>1, <1>2, <1>4 DEF ObjectInv, IndexInv, TypeOK
  <2>2. \A q, r \in Streams :
          stream_idx_map'[q] = stream_idx_map'[r] /\ stream_idx_map'[q] # None => q = r
    BY <1>1, <1>2, <1>4 DEF ObjectInv, IndexInv, TypeOK
  <2>3. \A r \in Streams : stream_idx_map'[r] # None =>
          \E g \in Handlers : Live(g)' /\ StreamId[g] = r
    BY <1>1, <1>2, <1>3 DEF ObjectInv, IndexInv, TypeOK
  <2> QED BY <2>1, <2>2, <2>3 DEF IndexInv
<1>6. HandlerInv'
  <2>1. \A g \in held' : Live(g)'
    BY <1>1, <1>3 DEF ObjectInv, HandlerInv, TypeOK
  <2>2. \A r \in Streams : source_map'[r] # None =>
          handler'[source_map'[r]] = "opened" /\ StreamId[source_map'[r]] = r
    BY <1>1 DEF ObjectInv, HandlerInv, Mapped, TypeOK
  <2>3. ASSUME NEW g \in Handlers, Live(g)', StreamId[g] \in Careful
        PROVE  /\ index'[g] = stream_idx_map'[StreamId[g]]
               /\ \A k \in Handlers : Live(k)' /\ StreamId[k] = StreamId[g] => k = g
    <3>1. StreamId[g] = s => g = h
      <4>1. "overlap" \notin Habits[StreamId[g]]
        BY <2>3 DEF Careful
      <4>2. StreamId[g] = s => ~Live(g)
        BY <4>1 DEF CreateHandler
      <4> QED BY <1>3, <2>3, <4>2
    <3>2. CASE g = h
      <4>1. \A k \in Handlers : StreamId[k] = s => ~Live(k)
        BY <2>3, <3>2 DEF Careful, CreateHandler
      <4> QED BY <1>1, <1>2, <1>3, <3>2, <4>1 DEF TypeOK
    <3>3. CASE g # h
      <4>1. Live(g) /\ StreamId[g] # s /\ StreamId[g] \in Streams
        BY <1>3, <2>3, <3>1, <3>3
      <4>2. /\ index[g] = stream_idx_map[StreamId[g]]
            /\ \A k \in Handlers : Live(k) /\ StreamId[k] = StreamId[g] => k = g
        BY <2>3, <4>1 DEF ObjectInv, HandlerInv
      <4> QED BY <1>1, <1>3, <3>3, <4>1, <4>2 DEF TypeOK
    <3> QED BY <3>2, <3>3
  <2> QED BY <2>1, <2>2, <2>3 DEF HandlerInv, Mapped
<1> QED BY <1>5, <1>6 DEF ObjectInv

LEMMA AddKeeps ==
  ASSUME TypeOK, ObjectInv, NEW a \in Apps, NEW h \in Handlers, AddSource(a, h)
  PROVE  ObjectInv'
<1> USE LifecycleAssumption
<1>1. CASE index[h] = None
  BY <1>1, ObjectStutter DEF AddSource, indexVars
<1>2. CASE index[h] # None
  <2>1. /\ handler' = [handler EXCEPT ![h] = "opened"]
        /\ source_map' = [source_map EXCEPT ![StreamId[h]] = h]
        /\ h \in held
        /\ UNCHANGED <<stream_idx_map, stream_bitset, index, held>>
    BY <1>2 DEF AddSource, indexVars
  <2>2. \A g \in Handlers : Live(g)' <=> Live(g)
    BY <2>1 DEF ObjectInv, HandlerInv, Live, TypeOK
  <2>3. IndexInv'
    BY <2>1, <2>2 DEF ObjectInv, IndexInv
  <2>4. \A s \in Streams : source_map'[s] # None =>
          handler'[source_map'[s]] = "opened" /\ StreamId[source_map'[s]] = s
    BY <2>1 DEF ObjectInv, HandlerInv, Mapped, TypeOK
  <2>5. HandlerInv'
    BY <2>1, <2>2, <2>4 DEF ObjectInv, HandlerInv, Mapped, TypeOK
  <2> QED BY <2>3, <2>5 DEF ObjectInv
<1> QED BY <1>1, <1>2

LEMMA EraseKeeps ==
  ASSUME TypeOK, ObjectInv, NEW streams \in SUBSET Streams, Erase(streams),
         UNCHANGED <<index, held>>
  PROVE  ObjectInv'
<1> DEFINE gone == {source_map[s] : s \in streams} \ (held \cup {None})
<1>1. gone \subseteq {h \in Handlers : Live(h)}
  BY DEF ObjectInv, HandlerInv, Mapped, Live, TypeOK
<1>2. /\ source_map' = [s \in Streams |-> IF s \in streams THEN None ELSE source_map[s]]
      /\ Destroy(gone)
  BY DEF Erase
<1>3. held' \subseteq held \ gone
  OBVIOUS
<1>4. \A s \in Streams : source_map'[s] = None \/ source_map'[s] = source_map[s]
  BY <1>2
<1>5. \A s \in Streams : source_map'[s] \notin gone
  BY <1>2 DEF ObjectInv, HandlerInv, Mapped
<1> HIDE DEF gone
<1> QED BY <1>1, <1>2, <1>3, <1>4, <1>5, DestroyKeeps

LEMMA ObjectStep == TypeOK /\ ObjectInv /\ [Next]_vars => ObjectInv'
<1> SUFFICES ASSUME TypeOK, ObjectInv, [Next]_vars PROVE ObjectInv'
  OBVIOUS
<1>1. ASSUME NEW h \in Handlers, CreateHandler(h) PROVE ObjectInv'
  BY <1>1, CreateKeeps
<1>2. ASSUME NEW h \in Handlers, DropHandler(h) PROVE ObjectInv'
  <2>1. h \in held /\ held' = held \ {h} /\ UNCHANGED <<index, source_map>>
    BY <1>2 DEF DropHandler
  <2>2. CASE source_map[StreamId[h]] = h
    <3>1. UNCHANGED <<stream_idx_map, stream_bitset, handler>>
      BY <1>2, <2>2 DEF DropHandler, indexVars
    <3> QED BY <2>1, <3>1 DEF ObjectInv, IndexInv, HandlerInv, Mapped, Live
  <2>3. CASE source_map[StreamId[h]] # h
    <3>1. Destroy({h}) /\ Live(h)
      BY <1>2, <2>1, <2>3 DEF DropHandler, ObjectInv, HandlerInv
    <3>2. \A s \in Streams : source_map'[s] \notin {h}
      BY <2>1, <2>3, LifecycleAssumption DEF ObjectInv, HandlerInv, Mapped
    <3> QED BY <2>1, <3>1, <3>2, DestroyKeeps
  <2> QED BY <2>2, <2>3
<1>3. ASSUME NEW h \in Handlers, HandlerThread(h) PROVE ObjectInv'
  BY <1>3, ObjectStutter
     DEF HandlerThread, Prepare, SendFrame, LeaveLoop, SendFlowEos, indexVars, objectVars
<1>4. ASSUME NEW f \in flight, DestroyFrame(f) PROVE ObjectInv'
  BY <1>4, ObjectStutter DEF DestroyFrame, indexVars, objectVars
<1>5. ASSUME NEW a \in Apps, Call(a) PROVE ObjectInv'
  <2>1. ASSUME NEW h \in Handlers, AddSource(a, h) PROVE ObjectInv'
    BY <2>1, AddKeeps
  <2>2. ASSUME NEW f \in BOOLEAN, ClearMark(a, f) PROVE ObjectInv'
    BY <2>2, ObjectStutter DEF ClearMark, indexVars, objectVars
  <2>3. ASSUME NEW f \in BOOLEAN, NEW s \in Streams, RemoveBegin(a, s, f) PROVE ObjectInv'
    BY <2>3, ObjectStutter DEF RemoveBegin, indexVars, objectVars
  <2> QED BY <1>5, <2>1, <2>2, <2>3 DEF Call
<1>6. ASSUME NEW a \in Apps, Removal(a) PROVE ObjectInv'
  <2>1. CASE RemoveErase(a)
    <3>1. target[a] \in Streams
      BY <2>1 DEF RemoveErase, TypeOK, Removing
    <3>2. Erase({target[a]}) /\ UNCHANGED <<index, held>>
      BY <2>1 DEF RemoveErase
    <3> QED BY <3>1, <3>2, EraseKeeps
  <2>2. CASE ClearMap(a)
    <3>1. Erase(Mapped) /\ UNCHANGED <<index, held>>
      BY <2>2 DEF ClearMap
    <3>2. Mapped \in SUBSET Streams
      BY DEF Mapped
    <3> QED BY <3>1, <3>2, EraseKeeps
  <2>3. CASE \/ RemoveClose(a) \/ RemoveJoin(a) \/ RemoveWait(a) \/ RemoveUnmark(a)
            \/ ClearLock(a) \/ ClearClose(a) \/ ClearClosed(a) \/ ClearWait(a)
    BY <2>3, ObjectStutter
       DEF RemoveClose, RemoveJoin, RemoveWait, RemoveUnmark, ClearLock, ClearClose, ClearClosed,
           ClearWait, indexVars, objectVars
  <2> QED BY <1>6, <2>1, <2>2, <2>3 DEF Removal
<1>7. CASE UNCHANGED vars
  BY <1>7, ObjectStutter DEF vars, indexVars, objectVars
<1> QED BY <1>1, <1>2, <1>3, <1>4, <1>5, <1>6, <1>7 DEF Next

(* IdxManager's bitset and map agree, no index is given out twice, every   *)
(* index that is in use has a handler whose destructor returns it, and the *)
(* pointers of the application and of source_map_ lead to handlers.        *)
THEOREM ObjectsConsistent == Spec => []ObjectInv
BY LifecycleTypes, ObjectInit, ObjectStep, PTL DEF Spec

(* The frames of a stream used with care carry an index, and so take       *)
(* conveyors, that no other stream has while its handler lives.            *)
THEOREM IndexUnique == Spec => []UniqueIndex
<1>1. ObjectInv => UniqueIndex
  BY LifecycleAssumption DEF ObjectInv, IndexInv, HandlerInv, UniqueIndex
<1> QED BY <1>1, ObjectsConsistent, PTL

(***************************************************************************)
(* The EOS map                                                             *)
(***************************************************************************)

LEMMA EosInit == Init => EosPending
BY DEF Init, EosPending

LEMMA EosStutter ==
  ASSUME EosPending, flight' = flight,
         \A s \in Streams : stream_eos'[s] = stream_eos[s] \/ stream_eos'[s] = "absent"
  PROVE  EosPending'
BY DEF EosPending

LEMMA CheckKeeps ==
  ASSUME TypeOK, EosPending, NEW s, NEW f, CheckStreamEosReached(s, f), UNCHANGED flight
  PROVE  EosPending'
BY EosStutter DEF CheckStreamEosReached, TypeOK

LEMMA EosStep == TypeOK /\ EosPending /\ [Next]_vars => EosPending'
<1> SUFFICES ASSUME TypeOK, EosPending, [Next]_vars PROVE EosPending'
  OBVIOUS
<1> USE LifecycleAssumption
<1>1. CASE UNCHANGED <<flight, stream_eos>>
  BY <1>1, EosStutter
<1>2. ASSUME NEW h \in Handlers, SendFrame(h) PROVE EosPending'
  BY <1>2 DEF SendFrame, EosPending
<1>3. ASSUME NEW h \in Handlers, SendFlowEos(h) PROVE EosPending'
  <2>1. CASE eos_sent[h]
    BY <1>1, <1>3, <2>1 DEF SendFlowEos
  <2>2. CASE ~eos_sent[h]
    <3>1. /\ flight' = flight \cup {Frame(h, TRUE)}
          /\ stream_eos' = [stream_eos EXCEPT ![StreamId[h]] = "false"]
      BY <1>3, <2>2, Zenon DEF SendFlowEos
    <3>2. Frame(h, TRUE).eos /\ Frame(h, TRUE).from = h
      BY DEF Frame
    <3>3. ASSUME NEW s \in Streams, stream_eos'[s] = "false"
          PROVE  \E f \in flight' : f.eos /\ StreamId[f.from] = s
      <4>1. CASE s = StreamId[h]
        BY <3>1, <3>2, <4>1, Zenon
      <4>2. CASE s # StreamId[h]
        BY <3>1, <3>3, <4>2 DEF EosPending, TypeOK
      <4> QED BY <4>1, <4>2
    <3> QED BY <3>3 DEF EosPending
  <2> QED BY <2>1, <2>2
<1>4. ASSUME NEW f \in flight, DestroyFrame(f) PROVE EosPending'
  <2>1. flight' = flight \ {f} /\ f \in Frames
    BY <1>4 DEF DestroyFrame, TypeOK
  <2>2. CASE f.eos
    <3>1. stream_eos' = [stream_eos EXCEPT ![StreamId[f.from]] = "true"]
      BY <1>4, <2>2 DEF DestroyFrame, EosDestroyed
    <3> QED BY <2>1, <3>1 DEF EosPending, TypeOK
  <2>3. CASE ~f.eos
    BY <1>4, <2>1, <2>3 DEF DestroyFrame, EosPending
  <2> QED BY <2>2, <2>3
<1>5. ASSUME NEW a \in Apps, RemoveWait(a) PROVE EosPending'
  BY <1>5, CheckKeeps DEF RemoveWait
<1>6. ASSUME NEW a \in Apps, ClearWait(a) PROVE EosPending'
  BY <1>6, CheckKeeps DEF ClearWait
<1>7. ASSUME NEW h \in Handlers, CreateHandler(h) \/ DropHandler(h) \/ Prepare(h) \/ LeaveLoop(h)
      PROVE  EosPending'
  BY <1>1, <1>7 DEF CreateHandler, DropHandler, Prepare, LeaveLoop, threadVars
<1>8. ASSUME NEW a \in Apps, Call(a) PROVE EosPending'
  BY <1>1, <1>8 DEF Call, AddSource, ClearMark, RemoveBegin, threadVars
<1>9. ASSUME NEW a \in Apps,
             \/ RemoveClose(a) \/ RemoveJoin(a) \/ RemoveUnmark(a) \/ RemoveErase(a)
             \/ ClearLock(a) \/ ClearClose(a) \/ ClearClosed(a) \/ ClearMap(a)
      PROVE  EosPending'
  BY <1>1, <1>9 DEF RemoveClose, RemoveJoin, RemoveUnmark, RemoveErase, ClearLock, ClearClose,
                    ClearClosed, ClearMap, threadVars
<1>10. CASE UNCHANGED vars
  BY <1>1, <1>10 DEF vars, threadVars
<1> QED BY <1>2, <1>3, <1>4, <1>5, <1>6, <1>7, <1>8, <1>9, <1>10 DEF Next, HandlerThread, Removal

(* A forced removal never waits on an entry of s_stream_eos_map_ that no   *)
(* frame is left to change, whatever the handlers and callers do.          *)
THEOREM EosAlwaysPending == Spec => []EosPending
BY LifecycleTypes, EosInit, EosStep, PTL DEF Spec

(***************************************************************************)
(* The removed flag                                                        *)
(***************************************************************************)

LEMMA RefusedInit == Init => RefusedOnlyWhileRemoved
BY DEF Init, RefusedOnlyWhileRemoved

LEMMA RefusedStep == TypeOK /\ RefusedOnlyWhileRemoved /\ [Next]_vars => RefusedOnlyWhileRemoved'
<1> SUFFICES ASSUME TypeOK, RefusedOnlyWhileRemoved, [Next]_vars PROVE RefusedOnlyWhileRemoved'
  OBVIOUS
<1>1. CASE UNCHANGED <<removed, source_map, appVars>>
  BY <1>1 DEF RefusedOnlyWhileRemoved, appVars
<1>2. ASSUME NEW h \in Handlers, CreateHandler(h) \/ DropHandler(h) \/ HandlerThread(h)
      PROVE  RefusedOnlyWhileRemoved'
  BY <1>1, <1>2 DEF CreateHandler, DropHandler, HandlerThread, Prepare, SendFrame, LeaveLoop,
       SendFlowEos
<1>3. ASSUME NEW f \in flight, DestroyFrame(f) PROVE RefusedOnlyWhileRemoved'
  BY <1>1, <1>3 DEF DestroyFrame
<1>4. ASSUME NEW a \in Apps, Call(a) PROVE RefusedOnlyWhileRemoved'
  <2>1. ASSUME NEW h \in Handlers, AddSource(a, h) PROVE RefusedOnlyWhileRemoved'
    BY <2>1, LifecycleAssumption DEF AddSource, RefusedOnlyWhileRemoved, TypeOK, appVars
  <2>2. ASSUME NEW f \in BOOLEAN, ClearMark(a, f) PROVE RefusedOnlyWhileRemoved'
    BY <2>2 DEF ClearMark, At, RefusedOnlyWhileRemoved, Mapped, Clearing, TypeOK
  <2>3. ASSUME NEW f \in BOOLEAN, NEW s \in Streams, RemoveBegin(a, s, f)
        PROVE  RefusedOnlyWhileRemoved'
    BY <2>3 DEF RemoveBegin, At, RefusedOnlyWhileRemoved, Removing, Clearing, TypeOK
  <2> QED BY <1>4, <2>1, <2>2, <2>3 DEF Call
<1>5. ASSUME NEW a \in Apps, Removal(a) PROVE RefusedOnlyWhileRemoved'
  <2> USE DEF At, Removing, Clearing, TypeOK
  <2>1. CASE RemoveClose(a)
    BY <2>1 DEF RemoveClose, Return, RefusedOnlyWhileRemoved
  <2>2. CASE RemoveJoin(a)
    BY <2>2 DEF RemoveJoin, RefusedOnlyWhileRemoved
  <2>3. CASE RemoveWait(a)
    BY <2>3 DEF RemoveWait, RefusedOnlyWhileRemoved
  <2>4. CASE RemoveUnmark(a)
    BY <2>4 DEF RemoveUnmark, Unmark, RefusedOnlyWhileRemoved
  <2>5. CASE RemoveErase(a)
    BY <2>5 DEF RemoveErase, Erase, Return, RefusedOnlyWhileRemoved
  <2>6. CASE ClearLock(a)
    BY <2>6 DEF ClearLock, RefusedOnlyWhileRemoved
  <2>7. CASE ClearClose(a)
    BY <2>7 DEF ClearClose, RefusedOnlyWhileRemoved
  <2>8. CASE ClearClosed(a)
    BY <2>8 DEF ClearClosed, RefusedOnlyWhileRemoved
  <2>9. CASE ClearWait(a)
    BY <2>9 DEF ClearWait, Unmark, RefusedOnlyWhileRemoved
  <2>10. CASE ClearMap(a)
    BY <2>10 DEF ClearMap, Erase, Mapped, RefusedOnlyWhileRemoved
  <2> QED BY <1>5, <2>1, <2>2, <2>3, <2>4, <2>5, <2>6, <2>7, <2>8, <2>9, <2>10 DEF Removal
<1>6. CASE UNCHANGED vars
  BY <1>1, <1>6 DEF vars
<1> QED BY <1>2, <1>3, <1>4, <1>5, <1>6 DEF Next

(* Frames of a stream that has a handler are refused only while some call  *)
(* removes it, whatever the calls of how many threads overlap.             *)
THEOREM RefusedWhileRemoved == Spec => []RefusedOnlyWhileRemoved
BY LifecycleTypes, RefusedInit, RefusedStep, PTL DEF Spec

(***************************************************************************)
(* One application thread that adds and removes.  RunningIsMapped and      *)
(* ForcedRemoveWaits are then inductive together with what the thread has  *)
(* done so far in the call it is in.                                       *)
(***************************************************************************)

(* What the handler threads, the pipeline and the making of handlers leave *)
(* alone: which handlers are quiet, and the call that is under way.        *)
Undisturbed ==
  /\ UNCHANGED <<source_map, running, appVars>>
  /\ \A h \in Handlers : hpc[h] = "off" => hpc'[h] = "off"

LEMMA ThreadsStutter ==
  ASSUME ThreadsMapped, UNCHANGED <<source_map, running, hpc>>
  PROVE  ThreadsMapped'
BY DEF ThreadsMapped

LEMMA JoinedStutter ==
  ASSUME TypeOK, JoinedInv, Undisturbed
  PROVE  JoinedInv'
<1>1. \A h \in Handlers : Quiet(h) => Quiet(h)'
  BY DEF Undisturbed, Quiet
<1>2. Mapped' = Mapped /\ \A s \in Mapped : source_map[s] \in Handlers
  BY DEF Undisturbed, Mapped, TypeOK
<1>3. source_map' = source_map /\ running' = running /\ apc' = apc /\ target' = target
      /\ todo' = todo
  BY DEF Undisturbed, appVars
<1>4. ASSUME NEW a \in Apps PROVE JoinedBy(a)'
  <2>1. \A s \in Mapped : Quiet(source_map[s]) => Quiet(source_map[s])'
    BY <1>1, <1>2, <1>3 DEF Quiet
  <2>2. JoinedBy(a)
    BY DEF JoinedInv
  <2> QED BY <1>2, <1>3, <2>1, <2>2 DEF JoinedBy, TypeOK, Removing
<1> QED BY <1>4 DEF JoinedInv

LEMMA ThreadsInit == Init => ThreadsMapped /\ JoinedInv
BY DEF Init, ThreadsMapped, JoinedInv, JoinedBy

LEMMA ThreadsStep ==
  ASSUME TypeOK, OneCaller, ThreadsMapped, JoinedInv, [Next]_vars
  PROVE  ThreadsMapped'
<1> USE LifecycleAssumption
<1>1. ASSUME NEW h \in Handlers, CreateHandler(h) \/ DropHandler(h) \/ SendFrame(h)
      PROVE  ThreadsMapped'
  BY <1>1, ThreadsStutter DEF CreateHandler, DropHandler, SendFrame, threadVars
<1>2. ASSUME NEW h \in Handlers, Prepare(h) \/ LeaveLoop(h) \/ SendFlowEos(h)
      PROVE  ThreadsMapped'
  <2>1. hpc[h] # "off" /\ UNCHANGED <<source_map, running>>
    BY <1>2 DEF Prepare, LeaveLoop, SendFlowEos
  <2>2. \A g \in Handlers : g # h => hpc'[g] = hpc[g]
    <3>1. PICK at : hpc' = [hpc EXCEPT ![h] = at]
      BY <1>2 DEF Prepare, LeaveLoop, SendFlowEos, Goto
    <3>2. DOMAIN hpc = Handlers
      BY DEF TypeOK
    <3> QED
      BY <3>1, <3>2
  <2> QED BY <2>1, <2>2 DEF ThreadsMapped
<1>3. ASSUME NEW f \in flight, DestroyFrame(f) PROVE ThreadsMapped'
  BY <1>3, ThreadsStutter DEF DestroyFrame
<1>4. ASSUME NEW a \in Apps, Call(a) PROVE ThreadsMapped'
  <2>1. ASSUME NEW h \in Handlers, AddSource(a, h) PROVE ThreadsMapped'
    <3>1. CASE index[h] = None
      BY <2>1, <3>1, ThreadsStutter DEF AddSource
    <3>2. CASE index[h] # None
      <4>1. /\ source_map[StreamId[h]] = None
            /\ running' = [running EXCEPT ![h] = TRUE]
            /\ hpc' = [hpc EXCEPT ![h] = "prepare"]
            /\ source_map' = [source_map EXCEPT ![StreamId[h]] = h]
        BY <2>1, <3>2 DEF AddSource
      <4> QED BY <4>1 DEF ThreadsMapped, TypeOK
    <3> QED BY <3>1, <3>2
  <2>2. ASSUME NEW f \in BOOLEAN, ClearMark(a, f) PROVE ThreadsMapped'
    BY <2>2, ThreadsStutter DEF ClearMark, threadVars
  <2>3. ASSUME NEW f \in BOOLEAN, NEW s \in Streams, RemoveBegin(a, s, f) PROVE ThreadsMapped'
    BY <2>3, ThreadsStutter DEF RemoveBegin, threadVars
  <2> QED BY <1>4, <2>1, <2>2, <2>3 DEF Call
<1>5. ASSUME NEW a \in Apps, Removal(a) PROVE ThreadsMapped'
  <2>1. CASE RemoveClose(a)
    <3>1. \A h \in Handlers : running'[h] => running[h]
      BY <2>1 DEF RemoveClose, StopHandler, TypeOK
    <3>2. UNCHANGED <<source_map, hpc>>
      BY <2>1 DEF RemoveClose, threadVars
    <3> QED BY <3>1, <3>2 DEF ThreadsMapped
  <2>2. CASE RemoveJoin(a)
    <3>1. \A h \in Handlers : hpc'[h] # "off" => hpc[h] # "off"
      BY <2>2 DEF RemoveJoin, Goto, TypeOK
    <3>2. UNCHANGED <<source_map, running>>
      BY <2>2 DEF RemoveJoin
    <3> QED BY <3>1, <3>2 DEF ThreadsMapped
  <2>3. CASE RemoveWait(a) \/ RemoveUnmark(a) \/ ClearLock(a) \/ ClearClosed(a) \/ ClearWait(a)
    BY <2>3, ThreadsStutter
       DEF RemoveWait, RemoveUnmark, ClearLock, ClearClosed, ClearWait, threadVars
  <2>4. CASE ClearClose(a)
    <3>1. \A h \in Handlers : running'[h] => running[h]
      BY <2>4 DEF ClearClose, StopHandler, TypeOK
    <3>2. UNCHANGED <<source_map, hpc>>
      BY <2>4 DEF ClearClose, threadVars
    <3> QED BY <3>1, <3>2 DEF ThreadsMapped
  <2>5. CASE RemoveErase(a)
    <3>1. target[a] \in Mapped /\ Quiet(source_map[target[a]])
      BY <2>5 DEF RemoveErase, JoinedInv, JoinedBy
    <3>2. /\ source_map' = [s \in Streams |-> IF s = target[a] THEN None ELSE source_map[s]]
          /\ UNCHANGED <<running, hpc>>
      BY <2>5 DEF RemoveErase, Erase, threadVars
    <3> QED BY <3>1, <3>2 DEF ThreadsMapped, Mapped, Quiet
  <2>6. CASE ClearMap(a)
    <3>1. \A s \in Mapped : Quiet(source_map[s])
      BY <2>6 DEF ClearMap, JoinedInv, JoinedBy
    <3>2. \A h \in Handlers : ~running[h] /\ hpc[h] = "off"
      BY <3>1 DEF ThreadsMapped, Mapped, Quiet
    <3>3. UNCHANGED <<running, hpc>>
      BY <2>6 DEF ClearMap, threadVars
    <3> QED BY <3>2, <3>3 DEF ThreadsMapped
  <2> QED BY <1>5, <2>1, <2>2, <2>3, <2>4, <2>5, <2>6 DEF Removal
<1>6. CASE UNCHANGED vars
  BY <1>6, ThreadsStutter DEF vars, threadVars
<1> QED BY <1>1, <1>2, <1>3, <1>4, <1>5, <1>6 DEF Next, HandlerThread

LEMMA JoinedStep ==
  ASSUME TypeOK, OneCaller, JoinedInv, [Next]_vars
  PROVE  JoinedInv'
<1> USE LifecycleAssumption
<1>1. ASSUME NEW h \in Handlers, CreateHandler(h) \/ DropHandler(h) PROVE JoinedInv'
  BY <1>1, JoinedStutter DEF CreateHandler, DropHandler, threadVars, Undisturbed
<1>2. ASSUME NEW h \in Handlers, HandlerThread(h) PROVE JoinedInv'
  <2>1. hpc[h] # "off" /\ UNCHANGED <<source_map, running, appVars>>
    BY <1>2 DEF HandlerThread, Prepare, SendFrame, LeaveLoop, SendFlowEos
  <2>2. \A g \in Handlers : g # h => hpc'[g] = hpc[g]
    <3>1. hpc' = hpc \/ (\E at : hpc' = [hpc EXCEPT ![h] = at])
      BY <1>2 DEF HandlerThread, Prepare, SendFrame, LeaveLoop, SendFlowEos, Goto
    <3>2. DOMAIN hpc = Handlers
      BY DEF TypeOK
    <3> QED
      BY <3>1, <3>2
  <2> QED BY <2>1, <2>2, JoinedStutter DEF Undisturbed
<1>3. ASSUME NEW f \in flight, DestroyFrame(f) PROVE JoinedInv'
  BY <1>3, JoinedStutter DEF DestroyFrame, Undisturbed
<1>4. ASSUME NEW a \in Apps, Call(a) \/ Removal(a) PROVE JoinedInv'
  <2>1. SUFFICES JoinedBy(a)'
    BY DEF OneCaller, JoinedInv
  <2>2. JoinedBy(a)
    BY DEF JoinedInv
  <2> USE DEF At, Removing, Clearing
  <2>3. ASSUME NEW h \in Handlers, AddSource(a, h) PROVE JoinedBy(a)'
    BY <2>3 DEF AddSource, JoinedBy, TypeOK, appVars
  <2>4. ASSUME NEW f \in BOOLEAN, ClearMark(a, f) PROVE JoinedBy(a)'
    BY <2>4 DEF ClearMark, JoinedBy, TypeOK
  <2>5. ASSUME NEW f \in BOOLEAN, NEW s \in Streams, RemoveBegin(a, s, f) PROVE JoinedBy(a)'
    BY <2>5 DEF RemoveBegin, JoinedBy, TypeOK
  <2>6. CASE RemoveClose(a)
    <3>1. CASE source_map[target[a]] = None
      BY <2>6, <3>1 DEF RemoveClose, Return, JoinedBy, TypeOK
    <3>2. CASE source_map[target[a]] # None
      <4>1. source_map[target[a]] \in Handlers
        BY <2>6, <3>2 DEF RemoveClose, TypeOK
      <4>2. /\ apc' = [apc EXCEPT ![a] = "join"]
            /\ running' = [running EXCEPT ![source_map[target[a]]] = FALSE]
            /\ UNCHANGED <<source_map, target>>
        BY <2>6, <3>2 DEF RemoveClose, StopHandler
      <4> QED BY <3>2, <4>1, <4>2 DEF JoinedBy, TypeOK
    <3> QED BY <3>1, <3>2
  <2>7. CASE RemoveJoin(a)
    <3> DEFINE k == source_map[target[a]]
    <3>1. target[a] \in Mapped /\ k \in Handlers /\ ~running[k]
      BY <2>2, <2>7 DEF RemoveJoin, JoinedBy, Mapped, TypeOK
    <3>2. hpc' = [hpc EXCEPT ![k] = "off"] /\ UNCHANGED <<source_map, running, todo>>
      BY <2>7 DEF RemoveJoin, Goto
    <3>3. Mapped' = Mapped /\ \A s \in Mapped : source_map[s] \in Handlers
      BY <3>2 DEF Mapped, TypeOK
    <3>4. /\ ~running'[k] /\ hpc'[k] = "off"
          /\ \A s \in Mapped : Quiet(source_map[s]) => Quiet(source_map[s])'
      BY <3>1, <3>2, <3>3 DEF Quiet, TypeOK
    <3>5. CASE apc[a] = "join"
      <4>1. apc' = [apc EXCEPT ![a] = "wait"] /\ UNCHANGED target
        BY <2>7, <3>5 DEF RemoveJoin
      <4> QED BY <3>1, <3>2, <3>3, <3>4, <4>1 DEF JoinedBy, Quiet, TypeOK
    <3>6. CASE apc[a] = "joinOne"
      <4>1. apc' = [apc EXCEPT ![a] = "closeEach"]
        BY <2>7, <3>6 DEF RemoveJoin
      <4>2. \A s \in Mapped \ todo[a] : Quiet(source_map[s])'
        BY <2>2, <3>2, <3>4, <3>6 DEF JoinedBy, Quiet
      <4> QED BY <2>2, <3>2, <3>3, <3>6, <4>1, <4>2 DEF JoinedBy, TypeOK
    <3> QED BY <2>7, <3>5, <3>6 DEF RemoveJoin
  <2>8. CASE RemoveWait(a)
    BY <2>2, <2>8 DEF RemoveWait, JoinedBy, Quiet, Mapped, TypeOK
  <2>9. CASE RemoveUnmark(a)
    BY <2>2, <2>9 DEF RemoveUnmark, JoinedBy, Quiet, Mapped, TypeOK, threadVars
  <2>10. CASE RemoveErase(a)
    BY <2>10 DEF RemoveErase, Return, JoinedBy, TypeOK
  <2>11. CASE ClearLock(a)
    <3>1. UNCHANGED <<source_map, running, hpc>> /\ todo' = [todo EXCEPT ![a] = Mapped]
      BY <2>11 DEF ClearLock, threadVars
    <3>2. Mapped' = Mapped /\ todo'[a] = Mapped
      BY <3>1 DEF Mapped, TypeOK
    <3> QED BY <2>2, <2>11, <3>1, <3>2 DEF ClearLock, JoinedBy, Quiet, TypeOK
  <2>12. CASE ClearClose(a)
    <3>1. PICK s \in todo[a] :
            /\ running' = [running EXCEPT ![source_map[s]] = FALSE]
            /\ target' = [target EXCEPT ![a] = s]
            /\ todo' = [todo EXCEPT ![a] = @ \ {s}]
      BY <2>12 DEF ClearClose, StopHandler
    <3>2. /\ apc[a] = "closeEach" /\ apc' = [apc EXCEPT ![a] = "joinOne"]
          /\ UNCHANGED <<source_map, hpc>>
      BY <2>12 DEF ClearClose, threadVars
    <3>3. todo[a] \subseteq Mapped /\ target[a] = None
      BY <2>2, <3>2 DEF JoinedBy, TypeOK
    <3>4. \A r \in Mapped \ todo[a] : Quiet(source_map[r])
      BY <2>2, <3>2, <3>3 DEF JoinedBy, Mapped
    <3>5. Mapped' = Mapped /\ \A r \in Mapped : source_map[r] \in Handlers
      BY <3>2 DEF Mapped, TypeOK
    <3>6. \A r \in Mapped \ todo[a] : Quiet(source_map[r])'
      BY <3>1, <3>2, <3>4, <3>5 DEF Quiet, TypeOK
    <3>7. ~running'[source_map[s]]
      BY <3>1, <3>3, <3>5 DEF TypeOK
    <3> QED BY <3>1, <3>2, <3>3, <3>5, <3>6, <3>7 DEF JoinedBy, TypeOK
  <2>13. CASE ClearClosed(a)
    <3>1. target[a] = None /\ UNCHANGED <<source_map, running, hpc, todo>>
      BY <2>13 DEF ClearClosed, threadVars, TypeOK
    <3>2. \A s \in Mapped : Quiet(source_map[s])
      BY <2>2, <2>13, <3>1 DEF ClearClosed, JoinedBy, Mapped
    <3> QED BY <2>13, <3>1, <3>2 DEF ClearClosed, JoinedBy, Quiet, Mapped, TypeOK
  <2>14. CASE ClearWait(a)
    <3>1. apc[a] = "waitEach" /\ UNCHANGED <<source_map, running, hpc, apc>>
      BY <2>14 DEF ClearWait
    <3>2. todo'[a] \subseteq todo[a]
      BY <2>14 DEF ClearWait, TypeOK
    <3> QED BY <2>2, <3>1, <3>2 DEF JoinedBy, Quiet, Mapped
  <2>15. CASE ClearMap(a)
    BY <2>15 DEF ClearMap, Return, JoinedBy, TypeOK
  <2> QED BY <1>4, <2>3, <2>4, <2>5, <2>6, <2>7, <2>8, <2>9, <2>10, <2>11, <2>12, <2>13, <2>14,
             <2>15 DEF Call, Removal
<1>5. CASE UNCHANGED vars
  BY <1>5, JoinedStutter DEF vars, threadVars, Undisturbed
<1> QED BY <1>1, <1>2, <1>3, <1>4, <1>5 DEF Next

(* Handlers that run leave the map in no call of the one thread: Stop and  *)
(* RemoveSource find every handler that was opened and not closed.         *)
THEOREM RunningHandlersFound == OneCaller /\ Spec => []RunningIsMapped
<1> DEFINE Inv == OneCaller /\ ThreadsMapped /\ JoinedInv
<1>1. OneCaller /\ Init => Inv
  BY ThreadsInit
<1>2. TypeOK /\ Inv /\ [Next]_vars => Inv'
  BY ThreadsStep, JoinedStep DEF OneCaller
<1>3. Inv => RunningIsMapped
  BY DEF ThreadsMapped, RunningIsMapped
<1> HIDE DEF Inv
<1> QED BY <1>1, <1>2, <1>3, LifecycleTypes, PTL DEF Spec

(***************************************************************************)
(* By force                                                                *)
(***************************************************************************)

LEMMA ForceStep ==
  ASSUME TypeOK, OneCaller, ForceInv, [Next]_vars
  PROVE  ForceInv'
<1> USE LifecycleAssumption
<1>1. CASE UNCHANGED <<source_map, appVars>>
  BY <1>1 DEF ForceInv, Mapped, appVars
<1>2. ASSUME NEW h \in Handlers, CreateHandler(h) \/ DropHandler(h) \/ HandlerThread(h)
      PROVE  ForceInv'
  BY <1>1, <1>2 DEF CreateHandler, DropHandler, HandlerThread, Prepare, SendFrame, LeaveLoop,
       SendFlowEos
<1>3. ASSUME NEW f \in flight, DestroyFrame(f) PROVE ForceInv'
  BY <1>1, <1>3 DEF DestroyFrame
<1>4. ASSUME NEW a \in Apps, Call(a) \/ Removal(a) PROVE ForceInv'
  <2>1. SUFFICES /\ apc'[a] \in Removing => force'[a] \in Forces(target'[a])
                 /\ apc'[a] \in Clearing => \A s \in Mapped' : force'[a] \in Forces(s)
    BY DEF OneCaller, ForceInv, Forces
  <2>2. /\ apc[a] \in Removing => force[a] \in Forces(target[a])
        /\ apc[a] \in Clearing => \A s \in Mapped : force[a] \in Forces(s)
    BY DEF ForceInv
  <2> USE DEF At, Removing, Clearing
  <2>3. ASSUME NEW h \in Handlers, AddSource(a, h)
        PROVE  apc'[a] = "idle"
    BY <2>3 DEF AddSource, TypeOK, appVars
  <2>4. ASSUME NEW f \in BOOLEAN, ClearMark(a, f)
        PROVE  /\ apc'[a] = "closeAll" /\ force'[a] = f /\ Mapped' = Mapped
               /\ \A s \in Mapped : f \in Forces(s)
    BY <2>4 DEF ClearMark, TypeOK, Mapped
  <2>5. ASSUME NEW f \in BOOLEAN, NEW s \in Streams, RemoveBegin(a, s, f)
        PROVE  apc'[a] = "close" /\ force'[a] = f /\ target'[a] = s /\ f \in Forces(s)
    BY <2>5 DEF RemoveBegin, TypeOK
  <2>6. CASE RemoveClose(a) \/ RemoveWait(a) \/ RemoveUnmark(a)
    <3>1. apc[a] \in Removing /\ apc'[a] \in Removing \cup {"idle"}
      BY <2>6 DEF RemoveClose, RemoveWait, RemoveUnmark, Return, TypeOK
    <3>2. apc'[a] # "idle" => UNCHANGED <<target, force>>
      BY <2>6 DEF RemoveClose, RemoveWait, RemoveUnmark, Return, TypeOK
    <3> QED BY <2>2, <3>1, <3>2
  <2>7. CASE RemoveJoin(a)
    <3>1. UNCHANGED <<source_map, force>>
      BY <2>7 DEF RemoveJoin
    <3>2. \/ apc[a] = "join" /\ apc'[a] = "wait" /\ target' = target
          \/ apc[a] = "joinOne" /\ apc'[a] = "closeEach"
      BY <2>7 DEF RemoveJoin, TypeOK
    <3> QED BY <2>2, <3>1, <3>2 DEF Mapped
  <2>8. CASE RemoveErase(a) \/ ClearMap(a)
    BY <2>8 DEF RemoveErase, ClearMap, Return, TypeOK
  <2>9. CASE ClearLock(a) \/ ClearClose(a) \/ ClearClosed(a) \/ ClearWait(a)
    <3>1. UNCHANGED <<source_map, force>>
      BY <2>9 DEF ClearLock, ClearClose, ClearClosed, ClearWait
    <3>2. apc[a] \in Clearing /\ apc'[a] \in Clearing
      BY <2>9 DEF ClearLock, ClearClose, ClearClosed, ClearWait, TypeOK
    <3> QED BY <2>2, <3>1, <3>2 DEF Mapped
  <2> QED BY <1>4, <2>2, <2>3, <2>4, <2>5, <2>6, <2>7, <2>8, <2>9 DEF Call, Removal
<1>5. CASE UNCHANGED vars
  BY <1>1, <1>5 DEF vars
<1> QED BY <1>2, <1>3, <1>4, <1>5 DEF Next

(* A careful stream is removed by force. *)
LEMMA CarefulForce ==
  ASSUME NEW s \in Careful
  PROVE  Forces(s) = {TRUE}
BY DEF Careful, Forces

(***************************************************************************)
(* The frames of a careful stream                                          *)
(***************************************************************************)

LEMMA FreshStep ==
  ASSUME TypeOK, HandlerInv, ThreadsMapped, FreshInv, [Next]_vars
  PROVE  FreshInv'
<1> USE LifecycleAssumption
<1>1. ASSUME NEW h \in Handlers, handler'[h] \in {"unborn", "new"}
      PROVE  handler[h] \in {"unborn", "new"}
  <2> USE <1>1 DEF TypeOK
  <2>1. ASSUME NEW g \in Handlers, CreateHandler(g) PROVE handler[h] \in {"unborn", "new"}
    BY <2>1 DEF CreateHandler
  <2>2. ASSUME NEW g \in Handlers, DropHandler(g) PROVE handler[h] \in {"unborn", "new"}
    BY <2>2 DEF DropHandler, Destroy
  <2>3. ASSUME NEW g \in Handlers, HandlerThread(g) PROVE handler[h] \in {"unborn", "new"}
    BY <2>3 DEF HandlerThread, Prepare, SendFrame, LeaveLoop, SendFlowEos, objectVars
  <2>4. ASSUME NEW f \in flight, DestroyFrame(f) PROVE handler[h] \in {"unborn", "new"}
    BY <2>4 DEF DestroyFrame, objectVars
  <2>5. ASSUME NEW a \in Apps, Call(a) PROVE handler[h] \in {"unborn", "new"}
    BY <2>5 DEF Call, AddSource, ClearMark, RemoveBegin, objectVars
  <2>6. ASSUME NEW a \in Apps, Removal(a) PROVE handler[h] \in {"unborn", "new"}
    <3>1. CASE RemoveErase(a) \/ ClearMap(a)
      BY <3>1 DEF RemoveErase, ClearMap, Erase, Destroy
    <3>2. CASE ~(RemoveErase(a) \/ ClearMap(a))
      BY <2>6, <3>2 DEF Removal, RemoveClose, RemoveJoin, RemoveWait, RemoveUnmark, ClearLock,
         ClearClose, ClearClosed, ClearWait, objectVars
    <3> QED BY <3>1, <3>2
  <2>7. CASE UNCHANGED vars
    BY <2>7 DEF vars, objectVars
  <2> QED BY <2>1, <2>2, <2>3, <2>4, <2>5, <2>6, <2>7 DEF Next
<1>2. ASSUME NEW h \in Handlers, SendFlowEos(h) PROVE FreshInv'
  <2>1. handler[h] = "opened"
    BY <1>2 DEF SendFlowEos, ThreadsMapped, HandlerInv, Mapped, TypeOK
  <2>2. handler' = handler /\ eos_sent' \in {eos_sent, [eos_sent EXCEPT ![h] = TRUE]}
    BY <1>2, Zenon DEF SendFlowEos, objectVars
  <2>3. \A g \in Handlers : g # h => eos_sent'[g] = eos_sent[g]
    BY <2>2 DEF TypeOK
  <2> QED BY <2>1, <2>2, <2>3 DEF FreshInv
<1>3. CASE eos_sent' = eos_sent
  BY <1>1, <1>3 DEF FreshInv
<1>4. ASSUME NEW h \in Handlers,
             CreateHandler(h) \/ DropHandler(h) \/ Prepare(h) \/ SendFrame(h) \/ LeaveLoop(h)
      PROVE  eos_sent' = eos_sent
  BY <1>4 DEF CreateHandler, DropHandler, Prepare, SendFrame, LeaveLoop, threadVars
<1>5. ASSUME NEW f \in flight, DestroyFrame(f) PROVE eos_sent' = eos_sent
  BY <1>5 DEF DestroyFrame
<1>6. ASSUME NEW a \in Apps, Call(a) PROVE eos_sent' = eos_sent
  BY <1>6 DEF Call, AddSource, ClearMark, RemoveBegin, threadVars
<1>7. ASSUME NEW a \in Apps, Removal(a) PROVE eos_sent' = eos_sent
  BY <1>7 DEF Removal, RemoveClose, RemoveJoin, RemoveWait, RemoveUnmark, RemoveErase, ClearLock,
     ClearClose, ClearClosed, ClearWait, ClearMap, threadVars
<1>8. CASE UNCHANGED vars
  BY <1>3, <1>8 DEF vars, threadVars
<1> QED BY <1>2, <1>3, <1>4, <1>5, <1>6, <1>7, <1>8 DEF Next, HandlerThread

(* What a step that is not about the frames of s leaves alone. *)
LEMMA StreamStutter ==
  ASSUME NEW s \in Careful, StreamInv(s),
         UNCHANGED <<source_map, eos_sent>>,
         sent'[s] = sent[s],
         stream_eos'[s] = stream_eos[s],
         FlightOf(s)' = FlightOf(s),
         source_map[s] # None => hpc'[source_map[s]] = hpc[source_map[s]]
  PROVE  StreamInv(s)'
BY DEF StreamInv

LEMMA StreamThread ==
  ASSUME TypeOK, HandlerInv, ThreadsMapped, NEW s \in Careful, StreamInv(s),
         NEW h \in Handlers, HandlerThread(h)
  PROVE  StreamInv(s)'
<1> USE LifecycleAssumption DEF Careful
<1>1. hpc[h] # "off" /\ source_map[StreamId[h]] = h /\ source_map' = source_map
  BY DEF HandlerThread, Prepare, SendFrame, LeaveLoop, SendFlowEos, ThreadsMapped
<1>2. h # None
  OBVIOUS
<1>3. CASE Prepare(h)
  <2>1. /\ hpc[h] = "prepare"
        /\ \E label \in {"loop", "clear", "ended"} : hpc' = [hpc EXCEPT ![h] = label]
    BY <1>3 DEF Prepare, Goto
  <2>2. UNCHANGED <<eos_sent, sent, flight, stream_eos>>
    BY <1>3 DEF Prepare
  <2>3. CASE source_map[s] = h
    BY <1>1, <1>2, <2>1, <2>2, <2>3 DEF StreamInv, FlightOf, TypeOK
  <2>4. CASE source_map[s] # h
    BY <1>1, <2>1, <2>2, <2>4, StreamStutter DEF FlightOf, TypeOK
  <2> QED BY <2>3, <2>4
<1>4. CASE LeaveLoop(h)
  <2>1. hpc[h] = "loop" /\ hpc' = [hpc EXCEPT ![h] = "clear"]
    BY <1>4 DEF LeaveLoop, Goto
  <2>2. UNCHANGED <<eos_sent, sent, flight, stream_eos>>
    BY <1>4 DEF LeaveLoop
  <2>3. CASE source_map[s] = h
    BY <1>1, <1>2, <2>1, <2>2, <2>3 DEF StreamInv, FlightOf, TypeOK
  <2>4. CASE source_map[s] # h
    BY <1>1, <2>1, <2>2, <2>4, StreamStutter DEF FlightOf, TypeOK
  <2> QED BY <2>3, <2>4
<1>5. CASE SendFrame(h)
  <2> DEFINE new == Frame(h, FALSE)
  <2>1. /\ hpc[h] \in {"loop", "clear"}
        /\ flight' = flight \cup {new}
        /\ sent' = [sent EXCEPT ![StreamId[h]] = @ + 1]
        /\ UNCHANGED <<hpc, eos_sent, stream_eos>>
    BY <1>5, Zenon DEF SendFrame
  <2>2. new.from = h /\ new.no = sent[StreamId[h]] + 1 /\ new.eos = FALSE
    BY DEF Frame
  <2> HIDE DEF new
  <2>3. CASE StreamId[h] = s
    <3>1. source_map[s] = h /\ ~eos_sent[h]
      BY <1>1, <1>2, <2>1, <2>3 DEF StreamInv
    <3>2. sent'[s] = sent[s] + 1 /\ sent[s] \in Nat
      BY <2>1, <2>3 DEF TypeOK
    <3>3. FlightOf(s)' = FlightOf(s) \cup {new}
      BY <2>1, <2>2, <2>3 DEF FlightOf
    <3>4. \A f \in FlightOf(s) : f.no \in Nat
      BY DEF FlightOf, TypeOK, Frames
    <3> QED BY <1>1, <1>2, <2>1, <2>2, <3>1, <3>2, <3>3, <3>4 DEF StreamInv
  <2>4. CASE StreamId[h] # s
    <3>1. FlightOf(s)' = FlightOf(s) /\ sent'[s] = sent[s]
      BY <2>1, <2>2, <2>4 DEF FlightOf, TypeOK
    <3> QED BY <1>1, <2>1, <3>1, StreamStutter
  <2> QED BY <2>3, <2>4
<1>6. CASE SendFlowEos(h)
  <2> DEFINE new == Frame(h, TRUE)
  <2>1. hpc[h] = "clear" /\ hpc' = [hpc EXCEPT ![h] = "ended"]
    BY <1>6 DEF SendFlowEos, Goto
  <2>2. eos_sent[h] => UNCHANGED <<eos_sent, sent, flight, stream_eos>>
    BY <1>6 DEF SendFlowEos
  <2>3. ~eos_sent[h] => /\ eos_sent' = [eos_sent EXCEPT ![h] = TRUE]
                        /\ sent' = [sent EXCEPT ![StreamId[h]] = @ + 1]
                        /\ flight' = flight \cup {new}
                        /\ stream_eos' = [stream_eos EXCEPT ![StreamId[h]] = "false"]
    BY <1>6, Zenon DEF SendFlowEos
  <2>4. new.from = h /\ new.no = sent[StreamId[h]] + 1 /\ new.eos = TRUE
    BY DEF Frame
  <2> HIDE DEF new
  <2>5. CASE StreamId[h] = s
    <3>1. source_map[s] = h /\ ~eos_sent[h]
      BY <1>1, <1>2, <2>1, <2>5 DEF StreamInv
    <3>2. sent'[s] = sent[s] + 1 /\ sent[s] \in Nat /\ eos_sent'[h] /\ stream_eos'[s] = "false"
          /\ hpc'[h] = "ended"
      BY <2>1, <2>3, <2>5, <3>1 DEF TypeOK
    <3>3. FlightOf(s)' = FlightOf(s) \cup {new}
      BY <2>3, <2>4, <2>5, <3>1 DEF FlightOf
    <3>4. \A f \in FlightOf(s) : f.from = h /\ f.no <= sent[s] /\ ~f.eos /\ f.no \in Nat
      BY <1>2, <3>1 DEF FlightOf, TypeOK, Frames, StreamInv
    <3> QED BY <1>1, <1>2, <2>4, <2>5, <3>1, <3>2, <3>3, <3>4 DEF StreamInv
  <2>6. CASE StreamId[h] # s
    <3>1. FlightOf(s)' = FlightOf(s) /\ sent'[s] = sent[s] /\ stream_eos'[s] = stream_eos[s]
      BY <2>2, <2>3, <2>4, <2>6 DEF FlightOf, TypeOK
    <3>2. source_map[s] # None => source_map[s] # h
      BY <2>6 DEF HandlerInv, Mapped
    <3>3. source_map[s] # None => /\ hpc'[source_map[s]] = hpc[source_map[s]]
                                  /\ eos_sent'[source_map[s]] = eos_sent[source_map[s]]
      BY <2>1, <2>2, <2>3, <3>2 DEF TypeOK
    <3> QED BY <1>1, <3>1, <3>3 DEF StreamInv
  <2> QED BY <2>5, <2>6
<1> QED BY <1>3, <1>4, <1>5, <1>6 DEF HandlerThread

(* The EOS frame of a careful stream is the last frame of it to go. *)
LEMMA StreamDestroy ==
  ASSUME TypeOK, NEW s \in Careful, StreamInv(s), NEW f \in flight, DestroyFrame(f)
  PROVE  StreamInv(s)'
<1> USE LifecycleAssumption DEF Careful
<1>1. /\ flight' = flight \ {f}
      /\ f.eos => \A g \in flight : ~Follows(f, g)
      /\ UNCHANGED <<source_map, sent, eos_sent, hpc>>
  BY DEF DestroyFrame
<1>2. f.eos => stream_eos' = [stream_eos EXCEPT ![StreamId[f.from]] = "true"]
  BY DEF DestroyFrame, EosDestroyed
<1>3. ~f.eos => stream_eos' = stream_eos
  BY DEF DestroyFrame
<1>4. f.from \in Handlers /\ StreamId[f.from] \in Streams
  BY DEF TypeOK, Frames
<1>5. FlightOf(s)' = FlightOf(s) \ {f}
  BY <1>1 DEF FlightOf
<1>6. CASE StreamId[f.from] # s
  BY <1>1, <1>2, <1>3, <1>5, <1>6, StreamStutter DEF FlightOf, TypeOK
<1>7. CASE StreamId[f.from] = s
  <2>1. f \in FlightOf(s) /\ source_map[s] = f.from /\ f.from # None
    BY <1>4, <1>7 DEF FlightOf, StreamInv
  <2>2. CASE f.eos
    <3>1. eos_sent[f.from]
      BY <2>1, <2>2 DEF StreamInv
    <3>2. \A g \in FlightOf(s) : g # f => Follows(f, g)
      BY <2>1, <2>2, <3>1, <1>7 DEF StreamInv, FlightOf, Follows
    <3>3. FlightOf(s)' = {}
      BY <1>1, <1>5, <2>2, <3>2 DEF FlightOf
    <3> QED BY <1>1, <2>1, <3>1, <3>3 DEF StreamInv
  <2>3. CASE ~f.eos
    BY <1>1, <1>3, <1>5, <2>1, <2>3 DEF StreamInv
  <2> QED BY <2>2, <2>3
<1> QED BY <1>6, <1>7

(* A handler that is opened has sent nothing before. *)
LEMMA StreamAdd ==
  ASSUME TypeOK, HandlerInv, FreshInv, NEW s \in Careful, StreamInv(s),
         NEW a \in Apps, NEW h \in Handlers, AddSource(a, h)
  PROVE  StreamInv(s)'
<1> USE LifecycleAssumption DEF Careful
<1>1. UNCHANGED <<sent, eos_sent, stream_eos, flight>> /\ FlightOf(s)' = FlightOf(s)
  BY DEF AddSource, FlightOf
<1>2. CASE index[h] = None
  BY <1>1, <1>2, StreamStutter DEF AddSource
<1>3. CASE index[h] # None
  <2>1. /\ source_map[StreamId[h]] = None
        /\ hpc' = [hpc EXCEPT ![h] = "prepare"]
        /\ source_map' = [source_map EXCEPT ![StreamId[h]] = h]
    BY <1>3 DEF AddSource
  <2>2. CASE StreamId[h] = s
    <3>1. ~eos_sent[h]
      BY <2>2 DEF AddSource, FreshInv
    <3>2. FlightOf(s) = {} /\ stream_eos[s] = "absent"
      BY <2>1, <2>2 DEF StreamInv, FlightOf, TypeOK, Frames
    <3>3. source_map'[s] = h
      BY <2>1, <2>2 DEF TypeOK
    <3> QED BY <1>1, <3>1, <3>2, <3>3 DEF StreamInv
  <2>3. CASE StreamId[h] # s
    <3>1. source_map'[s] = source_map[s]
      BY <2>1, <2>3 DEF TypeOK
    <3>2. source_map[s] # None => hpc'[source_map[s]] = hpc[source_map[s]]
      BY <2>1, <2>3 DEF HandlerInv, Mapped, TypeOK
    <3> QED BY <1>1, <3>1, <3>2 DEF StreamInv
  <2> QED BY <2>2, <2>3
<1> QED BY <1>2, <1>3

(* CheckStreamEosReached forgets an entry that is true. *)
LEMMA StreamCheck ==
  ASSUME TypeOK, NEW s \in Careful, StreamInv(s), NEW r \in Streams, NEW f,
         CheckStreamEosReached(r, f),
         UNCHANGED <<source_map, hpc, eos_sent, sent, flight>>
  PROVE  StreamInv(s)'
<1> USE DEF Careful
<1>1. FlightOf(s)' = FlightOf(s)
  BY DEF FlightOf
<1>2. CASE stream_eos[r] = "true"
  <2>1. stream_eos' = [stream_eos EXCEPT ![r] = "absent"]
    BY <1>2 DEF CheckStreamEosReached
  <2>2. CASE r = s
    <3>1. stream_eos'[s] = "absent" /\ stream_eos[s] = "true"
      BY <1>2, <2>1, <2>2 DEF TypeOK
    <3> QED BY <1>1, <3>1 DEF StreamInv
  <2>3. CASE r # s
    BY <1>1, <2>1, <2>3, StreamStutter DEF TypeOK
  <2> QED BY <2>2, <2>3
<1>3. CASE stream_eos[r] # "true"
  BY <1>1, <1>3, StreamStutter DEF CheckStreamEosReached
<1> QED BY <1>2, <1>3

(* A stream that leaves the map has nothing left in the pipeline. *)
LEMMA StreamErase ==
  ASSUME TypeOK, NEW s \in Careful, StreamInv(s), NEW streams \in SUBSET Streams,
         Erase(streams),
         s \in streams => Drained(s),
         UNCHANGED threadVars
  PROVE  StreamInv(s)'
<1>1. source_map'[s] = IF s \in streams THEN None ELSE source_map[s]
  BY DEF Erase, Careful
<1>2. FlightOf(s)' = FlightOf(s) /\ UNCHANGED <<hpc, eos_sent, sent, stream_eos>>
  BY DEF FlightOf, threadVars
<1>3. CASE s \in streams
  BY <1>1, <1>2, <1>3 DEF StreamInv, Drained
<1>4. CASE s \notin streams
  BY <1>1, <1>2, <1>4 DEF StreamInv
<1> QED BY <1>3, <1>4

LEMMA CarefulStep ==
  ASSUME TypeOK, HandlerInv, ThreadsMapped, JoinedInv, CarefulInv, WaitedInv, [Next]_vars
  PROVE  CarefulInv'
<1>1. FreshInv'
  BY FreshStep DEF CarefulInv
<1>2. SUFFICES ASSUME NEW s \in Careful PROVE StreamInv(s)'
  BY <1>1 DEF CarefulInv, Careful
<1>3. StreamInv(s) /\ FreshInv /\ s \in Streams
  BY DEF CarefulInv, Careful
<1>4. CASE UNCHANGED <<source_map, threadVars>>
  BY <1>3, <1>4, StreamStutter DEF threadVars, FlightOf
<1>5. ASSUME NEW h \in Handlers, CreateHandler(h) \/ DropHandler(h) PROVE StreamInv(s)'
  BY <1>4, <1>5 DEF CreateHandler, DropHandler
<1>6. ASSUME NEW h \in Handlers, HandlerThread(h) PROVE StreamInv(s)'
  BY <1>3, <1>6, StreamThread
<1>7. ASSUME NEW f \in flight, DestroyFrame(f) PROVE StreamInv(s)'
  BY <1>3, <1>7, StreamDestroy
<1>8. ASSUME NEW a \in Apps, Call(a) PROVE StreamInv(s)'
  <2>1. ASSUME NEW h \in Handlers, AddSource(a, h) PROVE StreamInv(s)'
    BY <1>3, <2>1, StreamAdd
  <2>2. ASSUME NEW f \in BOOLEAN, ClearMark(a, f) PROVE StreamInv(s)'
    BY <1>4, <2>2 DEF ClearMark
  <2>3. ASSUME NEW f \in BOOLEAN, NEW r \in Streams, RemoveBegin(a, r, f) PROVE StreamInv(s)'
    BY <1>4, <2>3 DEF RemoveBegin
  <2> QED BY <1>8, <2>1, <2>2, <2>3 DEF Call
<1>9. ASSUME NEW a \in Apps, Removal(a) PROVE StreamInv(s)'
  <2>1. CASE RemoveJoin(a)
    <3> DEFINE k == source_map[target[a]]
    <3>1. /\ hpc[k] \in {"off", "ended"} /\ hpc' = [hpc EXCEPT ![k] = "off"]
          /\ UNCHANGED <<source_map, eos_sent, sent, flight, stream_eos>>
      BY <2>1 DEF RemoveJoin, Goto
    <3>2. FlightOf(s)' = FlightOf(s)
      BY <3>1 DEF FlightOf
    <3>3. CASE source_map[s] = k
      BY <1>3, <3>1, <3>2, <3>3 DEF StreamInv, TypeOK
    <3>4. CASE source_map[s] # k
      <4>1. source_map[s] # None => hpc'[source_map[s]] = hpc[source_map[s]]
        BY <1>3, <3>1, <3>4 DEF TypeOK
      <4> QED BY <1>3, <3>1, <3>2, <4>1, StreamStutter
    <3> QED BY <3>3, <3>4
  <2>2. CASE RemoveWait(a)
    <3>1. target[a] \in Streams
      BY <2>2 DEF RemoveWait, TypeOK, Removing
    <3> QED BY <1>3, <2>2, <3>1, StreamCheck DEF RemoveWait
  <2>3. CASE ClearWait(a)
    <3>1. PICK r \in todo[a] : CheckStreamEosReached(r, force[a])
      BY <2>3 DEF ClearWait
    <3>2. r \in Streams
      BY DEF TypeOK
    <3> QED BY <1>3, <2>3, <3>1, <3>2, StreamCheck DEF ClearWait
  <2>4. CASE RemoveErase(a)
    <3>1. target[a] \in Streams /\ (s = target[a] => Drained(s))
      BY <2>4 DEF RemoveErase, TypeOK, Removing, WaitedInv, WaitedBy
    <3>2. Erase({target[a]}) /\ UNCHANGED threadVars
      BY <2>4 DEF RemoveErase
    <3> QED BY <1>3, <3>1, <3>2, StreamErase
  <2>5. CASE ClearMap(a)
    <3>1. s \in Mapped => Drained(s)
      BY <2>5 DEF ClearMap, WaitedInv, WaitedBy
    <3>2. Erase(Mapped) /\ Mapped \in SUBSET Streams /\ UNCHANGED threadVars
      BY <2>5 DEF ClearMap, Mapped
    <3> QED BY <1>3, <3>1, <3>2, StreamErase
  <2>6. CASE \/ RemoveClose(a) \/ RemoveUnmark(a)
             \/ ClearLock(a) \/ ClearClose(a) \/ ClearClosed(a)
    BY <1>4, <2>6 DEF RemoveClose, RemoveUnmark, ClearLock, ClearClose, ClearClosed
  <2> QED BY <1>9, <2>1, <2>2, <2>3, <2>4, <2>5, <2>6 DEF Removal
<1>10. CASE UNCHANGED vars
  BY <1>4, <1>10 DEF vars
<1> QED BY <1>5, <1>6, <1>7, <1>8, <1>9, <1>10 DEF Next

(***************************************************************************)
(* What a forced removal has waited for                                    *)
(***************************************************************************)

(* The wait of a careful stream whose handler is closed and joined.        *)
LEMMA CheckDrains ==
  ASSUME TypeOK, NEW s \in Careful, StreamInv(s),
         s \in Mapped, Quiet(source_map[s]),
         CheckStreamEosReached(s, TRUE), flight' = flight
  PROVE  Drained(s)'
<1>1. FlightOf(s)' = FlightOf(s) /\ s \in Streams
  BY DEF FlightOf, Careful
<1>2. stream_eos[s] # "false"
  BY DEF CheckStreamEosReached, EosReached
<1>3. stream_eos'[s] = "absent"
  BY <1>1, <1>2 DEF CheckStreamEosReached, TypeOK
<1>4. FlightOf(s) = {}
  BY <1>2 DEF StreamInv, Mapped, Quiet
<1> QED BY <1>1, <1>3, <1>4 DEF Drained

(* What has been drained stays so while the handler is off. *)
LEMMA DrainedStays ==
  ASSUME TypeOK, ThreadsMapped, NEW s \in Streams, Drained(s), s \in Mapped, Quiet(source_map[s]),
         \/ UNCHANGED <<flight, stream_eos>>
         \/ \E h \in Handlers : HandlerThread(h)
         \/ \E f \in flight : DestroyFrame(f)
         \/ \E r \in Streams, f \in BOOLEAN : CheckStreamEosReached(r, f) /\ UNCHANGED flight
  PROVE  Drained(s)'
<1> USE LifecycleAssumption
<1>1. CASE UNCHANGED <<flight, stream_eos>>
  BY <1>1 DEF Drained, FlightOf
<1>2. ASSUME NEW h \in Handlers, HandlerThread(h) PROVE Drained(s)'
  <2>1. hpc[h] # "off" /\ source_map[StreamId[h]] = h
    BY <1>2 DEF HandlerThread, Prepare, SendFrame, LeaveLoop, SendFlowEos, ThreadsMapped
  <2>2. StreamId[h] # s
    BY <2>1 DEF Quiet
  <2>3. Frame(h, TRUE).from = h /\ Frame(h, FALSE).from = h
    BY DEF Frame
  <2>4. /\ flight' \in {flight, flight \cup {Frame(h, TRUE)}, flight \cup {Frame(h, FALSE)}}
        /\ stream_eos' \in {stream_eos, [stream_eos EXCEPT ![StreamId[h]] = "false"]}
    BY <1>2, Zenon DEF HandlerThread, Prepare, SendFrame, LeaveLoop, SendFlowEos
  <2>5. stream_eos'[s] = stream_eos[s]
    BY <2>2, <2>4 DEF TypeOK
  <2>6. FlightOf(s)' = FlightOf(s)
    BY <2>2, <2>3, <2>4 DEF FlightOf
  <2> QED BY <2>5, <2>6 DEF Drained
<1>3. ASSUME NEW f \in flight, DestroyFrame(f) PROVE Drained(s)'
  <2>1. StreamId[f.from] # s
    BY DEF Drained, FlightOf
  <2>2. stream_eos' \in {stream_eos, [stream_eos EXCEPT ![StreamId[f.from]] = "true"]}
    BY <1>3 DEF DestroyFrame, EosDestroyed
  <2>3. stream_eos'[s] = stream_eos[s]
    BY <2>1, <2>2 DEF TypeOK
  <2>4. flight' = flight \ {f}
    BY <1>3 DEF DestroyFrame
  <2> QED BY <2>3, <2>4 DEF Drained, FlightOf
<1>4. ASSUME NEW r \in Streams, NEW f \in BOOLEAN, CheckStreamEosReached(r, f), UNCHANGED flight
      PROVE  Drained(s)'
  BY <1>4 DEF CheckStreamEosReached, Drained, FlightOf, TypeOK
<1> QED BY <1>1, <1>2, <1>3, <1>4

LEMMA WaitedStep ==
  ASSUME TypeOK, OneCaller, ThreadsMapped, JoinedInv, ForceInv, CarefulInv, WaitedInv,
         [Next]_vars
  PROVE  WaitedInv'
<1> USE LifecycleAssumption
<1>1. ASSUME UNCHANGED <<source_map, appVars>>,
             \/ UNCHANGED <<flight, stream_eos>>
             \/ \E h \in Handlers : HandlerThread(h)
             \/ \E f \in flight : DestroyFrame(f)
      PROVE  WaitedInv'
  <2> SUFFICES ASSUME NEW a \in Apps PROVE WaitedBy(a)'
    BY DEF WaitedInv
  <2>1. WaitedBy(a) /\ JoinedBy(a) /\ Mapped' = Mapped
    BY <1>1 DEF WaitedInv, JoinedInv, Mapped
  <2>2. \A s \in Streams : s \in Mapped /\ Quiet(source_map[s]) /\ Drained(s) => Drained(s)'
    BY <1>1, DrainedStays
  <2>3. apc[a] \in {"unmark", "erase"} => target[a] \in Mapped /\ Quiet(source_map[target[a]])
    BY <2>1 DEF JoinedBy
  <2>4. apc[a] = "waitEach" => \A s \in Mapped : Quiet(source_map[s])
    BY <2>1 DEF JoinedBy
  <2>5. Mapped \subseteq Streams
    BY DEF Mapped
  <2>6. apc' = apc /\ target' = target /\ todo' = todo
    BY <1>1 DEF appVars
  <2> QED BY <2>1, <2>2, <2>3, <2>4, <2>5, <2>6 DEF WaitedBy, Careful
<1>2. ASSUME NEW h \in Handlers, CreateHandler(h) \/ DropHandler(h) PROVE WaitedInv'
  BY <1>1, <1>2 DEF CreateHandler, DropHandler, threadVars
<1>3. ASSUME NEW h \in Handlers, HandlerThread(h) PROVE WaitedInv'
  <2>1. UNCHANGED <<source_map, appVars>>
    BY <1>3 DEF HandlerThread, Prepare, SendFrame, LeaveLoop, SendFlowEos
  <2> QED BY <1>1, <1>3, <2>1
<1>4. ASSUME NEW f \in flight, DestroyFrame(f) PROVE WaitedInv'
  <2>1. UNCHANGED <<source_map, appVars>>
    BY <1>4 DEF DestroyFrame
  <2> QED BY <1>1, <1>4, <2>1
<1>5. ASSUME NEW a \in Apps, Call(a) \/ Removal(a) PROVE WaitedInv'
  <2>1. SUFFICES WaitedBy(a)'
    BY DEF OneCaller, WaitedInv
  <2>2. WaitedBy(a) /\ JoinedBy(a)
    BY DEF WaitedInv, JoinedInv
  <2> USE DEF At, Removing, Clearing
  <2>3. ASSUME NEW h \in Handlers, AddSource(a, h) PROVE WaitedBy(a)'
    BY <2>3 DEF AddSource, WaitedBy, TypeOK, appVars
  <2>4. ASSUME NEW f \in BOOLEAN, ClearMark(a, f) PROVE WaitedBy(a)'
    BY <2>4 DEF ClearMark, WaitedBy, TypeOK
  <2>5. ASSUME NEW f \in BOOLEAN, NEW s \in Streams, RemoveBegin(a, s, f) PROVE WaitedBy(a)'
    BY <2>5 DEF RemoveBegin, WaitedBy, TypeOK
  <2>6. CASE RemoveClose(a)
    BY <2>6 DEF RemoveClose, Return, WaitedBy, TypeOK
  <2>7. CASE RemoveJoin(a)
    BY <2>7 DEF RemoveJoin, WaitedBy, TypeOK
  <2>8. CASE RemoveWait(a)
    <3>1. /\ apc[a] = "wait" /\ apc' = [apc EXCEPT ![a] = "unmark"]
          /\ CheckStreamEosReached(target[a], force[a])
          /\ UNCHANGED <<flight, target>>
      BY <2>8 DEF RemoveWait
    <3>2. ASSUME target[a] \in Careful PROVE Drained(target[a])'
      <4>1. target[a] \in Mapped /\ Quiet(source_map[target[a]]) /\ StreamInv(target[a])
        BY <2>2, <3>1, <3>2 DEF JoinedBy, CarefulInv
      <4>2. force[a] = TRUE
        BY <3>1, <3>2, CarefulForce DEF ForceInv
      <4>3. \A s \in Careful : s = target[a] => Drained(s)'
        BY <3>1, <4>1, <4>2, CheckDrains
      <4> QED BY <3>1, <3>2, <4>3 DEF Drained, FlightOf
    <3>3. apc'[a] = "unmark"
      BY <3>1 DEF TypeOK
    <3> QED BY <3>1, <3>2, <3>3 DEF WaitedBy, Careful
  <2>9. CASE RemoveUnmark(a)
    BY <2>2, <2>9 DEF RemoveUnmark, WaitedBy, Drained, FlightOf, Careful, TypeOK, threadVars
  <2>10. CASE RemoveErase(a) \/ ClearMap(a)
    BY <2>10 DEF RemoveErase, ClearMap, Return, WaitedBy, TypeOK
  <2>11. CASE ClearLock(a)
    <3>1. UNCHANGED source_map /\ todo' = [todo EXCEPT ![a] = Mapped]
      BY <2>11 DEF ClearLock
    <3>2. Mapped' = Mapped /\ todo'[a] = Mapped
      BY <3>1 DEF Mapped, TypeOK
    <3> QED BY <2>11, <3>2 DEF ClearLock, WaitedBy, TypeOK
  <2>12. CASE ClearClose(a) \/ ClearClosed(a)
    BY <2>12 DEF ClearClose, ClearClosed, WaitedBy, TypeOK
  <2>13. CASE ClearWait(a)
    <3>1. PICK r \in todo[a] :
            CheckStreamEosReached(r, force[a]) /\ todo' = [todo EXCEPT ![a] = @ \ {r}]
      BY <2>13 DEF ClearWait
    <3>2. apc[a] = "waitEach" /\ UNCHANGED <<source_map, flight, apc>>
      BY <2>13 DEF ClearWait
    <3>3. todo[a] \subseteq Mapped /\ \A s \in Mapped : Quiet(source_map[s])
      BY <2>2, <3>2 DEF JoinedBy
    <3>4. Mapped \subseteq Streams /\ Mapped' = Mapped /\ todo'[a] = todo[a] \ {r}
          /\ force[a] \in BOOLEAN
      BY <3>1, <3>2 DEF Mapped, TypeOK
    <3>5. ASSUME r \in Careful PROVE Drained(r)'
      <4>1. force[a] = TRUE
        BY <3>2, <3>3, <3>5, CarefulForce DEF ForceInv
      <4>2. StreamInv(r)
        BY <3>5 DEF CarefulInv
      <4> QED BY <3>1, <3>2, <3>3, <3>5, <4>1, <4>2, CheckDrains
    <3>6. ASSUME NEW s \in Mapped \ todo[a], s \in Careful PROVE Drained(s)'
      <4>1. Drained(s)
        BY <2>2, <3>2, <3>6 DEF WaitedBy
      <4> QED BY <3>1, <3>2, <3>3, <3>4, <4>1, DrainedStays
    <3>7. \A s \in (Mapped' \ todo'[a]) \cap Careful : Drained(s)'
      BY <3>4, <3>5, <3>6
    <3> QED BY <3>2, <3>7 DEF WaitedBy, Careful
  <2> QED BY <1>5, <2>3, <2>4, <2>5, <2>6, <2>7, <2>8, <2>9, <2>10, <2>11, <2>12, <2>13
          DEF Call, Removal
<1>6. CASE UNCHANGED vars
  BY <1>1, <1>6 DEF vars, threadVars
<1> QED BY <1>2, <1>3, <1>4, <1>5, <1>6 DEF Next

LEMMA RemovalInit == Init => RemovalInv
BY LifecycleAssumption, ThreadsInit
   DEF Init, RemovalInv, ForceInv, CarefulInv, FreshInv, StreamInv, FlightOf, WaitedInv, WaitedBy, Careful, Removing, Clearing

(* A forced removal of a stream that is used with care returns after the   *)
(* last frame of its handler is gone, when one thread adds and removes.    *)
THEOREM ForcedRemovalWaits == OneCaller /\ Spec => []ForcedRemoveWaits
<1> DEFINE Inv == OneCaller /\ RemovalInv
<1>1. OneCaller /\ Init => Inv
  BY RemovalInit
<1>2. TypeOK /\ HandlerInv /\ Inv /\ [Next]_vars => Inv'
  BY ThreadsStep, JoinedStep, ForceStep, CarefulStep, WaitedStep DEF OneCaller, RemovalInv
<1>3. HandlerInv /\ Inv => ForcedRemoveWaits
  <2> SUFFICES ASSUME HandlerInv, Inv, NEW s \in Careful, NEW a \in Apps, NEW f \in flight,
                      apc[a] = "erase", target[a] = s, source_map[s] # None
               PROVE  f.from # source_map[s]
    BY DEF ForcedRemoveWaits, WaitedFor
  <2>1. Drained(s)
    BY DEF RemovalInv, WaitedInv, WaitedBy
  <2>2. StreamId[source_map[s]] = s
    BY DEF HandlerInv, Mapped, Careful
  <2> QED BY <2>1, <2>2 DEF Drained, FlightOf
<1> HIDE DEF Inv
<1>4. ObjectInv => HandlerInv
  BY DEF ObjectInv
<1> QED BY <1>1, <1>2, <1>3, <1>4, LifecycleTypes, ObjectsConsistent, PTL DEF Spec
=============================================================================
