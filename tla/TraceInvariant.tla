--------------------------- MODULE TraceInvariant ---------------------------
(***************************************************************************)
(* The inductive invariant behind TraceReads.  Of every slot one position  *)
(* is the newest that was released: the lap of the slot is that of this    *)
(* position, and every later position of the slot is still in the hands of *)
(* the thread that took it.                                                *)
(***************************************************************************)
EXTENDS TraceBuffer

Placed(w) == writers[w].at # "idle"
WriterCopies(w) == writers[w].at = "copying"
ReaderCopies == reader.at = "copying"

(* The laps are kept modulo LapMask + 1 and are compared within half of    *)
(* the circle.  A thread that takes longer between its position and the    *)
(* release of its slot than the others take for that many laps of the      *)
(* buffer would be taken for one that is ahead.                            *)
NobodyLapped ==
  \A w \in Writers : Placed(w) => current - writers[w].i <= buffer_size * ((LapMask + 1) \div 2)

TraceTypeOK ==
  /\ current \in Nat /\ overtaken \subseteq Nat
  /\ lap \in [BufferSlots -> {kBusy} \cup 0..LapMask]
  /\ buffer \in [BufferSlots -> Int]
  /\ writers \in [Writers -> [at : {"idle", "placed", "copying"}, i : Nat, prev : 0..LapMask]]
  /\ reader \in [at : {"idle", "ended", "reading", "copying"}, it : Nat, end : Nat,
                 prev : 0..LapMask]
  /\ trace \in Seq([asked : Nat, event : Int])

\* A position is taken by one thread, and a busy slot is held by one.
Positions ==
  /\ \A w \in Writers : Placed(w) => writers[w].i < current
  /\ \A v, w \in Writers : Placed(v) /\ Placed(w) /\ v # w => writers[v].i # writers[w].i
  /\ \A v, w \in Writers :
       WriterCopies(v) /\ WriterCopies(w) /\ v # w => SlotOf(writers[v].i) # SlotOf(writers[w].i)
  /\ \A w \in Writers : WriterCopies(w) => lap[SlotOf(writers[w].i)] = kBusy
  /\ ReaderCopies => lap[SlotOf(reader.it)] = kBusy
  /\ \A w \in Writers : WriterCopies(w) /\ ReaderCopies => SlotOf(writers[w].i) # SlotOf(reader.it)

\* A slot nothing was written to has, before the first lap, a position below 0.
Tops == -buffer_size..current - 1

\* The newest position released of the slot, whose lap is l.
IsNewest(top, slot, l) ==
  /\ top \in Tops /\ SlotOf(top) = slot /\ l = GetLap(top)
  /\ \A i \in 0..current - 1 :
       SlotOf(i) = slot /\ top < i => \E w \in Writers : Placed(w) /\ writers[w].i = i

\* The slot holds the event of that position, or an older one written over it.
Keeps(slot, top) ==
  \/ top < 0 /\ buffer[slot] = EmptySlot
  \/ top >= 0 /\ buffer[slot] = top
  \/ /\ top \in overtaken /\ buffer[slot] \in 0..top
     /\ SlotOf(buffer[slot]) = slot

FreeSlots ==
  \A slot \in BufferSlots :
    Free(slot) => \E top \in Tops : IsNewest(top, slot, lap[slot]) /\ Keeps(slot, top)
WrittenSlots ==
  \A w \in Writers : WriterCopies(w) =>
    \E top \in Tops : /\ IsNewest(top, SlotOf(writers[w].i), writers[w].prev)
                      /\ top <= writers[w].i \/ top \in overtaken
ReadSlot ==
  ReaderCopies =>
    \E top \in Tops : /\ IsNewest(top, SlotOf(reader.it), reader.prev)
                      /\ Keeps(SlotOf(reader.it), top) /\ reader.it <= top

\* The iterators span at most the capacity, and the trace holds what they passed.
Iterators ==
  /\ reader.at # "idle" => reader.end <= current
  /\ reader.at \in {"reading", "copying"} => reader.end - (reader.it - Len(trace)) <= TraceCapacity
  /\ reader.at = "copying" => reader.it < reader.end
  /\ reader.at \in {"idle", "ended"} => trace = <<>>
  /\ reader.at \in {"reading", "copying"} /\ trace # <<>> => reader.it <= reader.end
TraceHolds ==
  \A k \in DOMAIN trace :
    /\ trace[k].asked = reader.it - Len(trace) + k - 1
    /\ trace[k].event \in 0..current - 1 /\ SlotOf(trace[k].event) = SlotOf(trace[k].asked)
    /\ trace[k].event < trace[k].asked =>
         \E newer \in overtaken : newer >= trace[k].asked /\ SlotOf(newer) = SlotOf(trace[k].asked)

TraceInv ==
  /\ TraceTypeOK /\ Positions
  /\ FreeSlots /\ WrittenSlots /\ ReadSlot
  /\ Iterators /\ TraceHolds
=============================================================================
