---------------------------- MODULE TraceBuffer ----------------------------
(***************************************************************************)
(* The events of the tracer: a circular buffer written by the threads of   *)
(* all processes without a common lock, and GetTrace, which reads the      *)
(* newest events while they are being overwritten.  An event is named by   *)
(* the position it was given; its time is that position.                   *)
(***************************************************************************)
EXTENDS Integers, Sequences

CONSTANTS
  TraceCapacity, \* the capacity the PipelineTracer is made with
  Writers,       \* the threads that record events
  LapMask,       \* kMask
  MaxEvents      \* bound: the events recorded

VARIABLES
  current,  \* current_
  lap,      \* slot -> its lap, or kBusy
  buffer,   \* slot -> the event it holds, EmptySlot, or Torn while it is copied
  writers,  \* writer -> where it is in push_back and the position it was given
  reader,   \* GetTrace: where it is, the iterators and the lap it saw
  trace,    \* the events GetTrace has collected, with the positions it asked for
  overtaken \* history: the positions whose slot was last written by an older event

(* A ring of no slot has no place for an event: push_back divides by its   *)
(* size.  kMask has its low bits set, one at least.                        *)
ASSUME TraceAssumption ==
  TraceCapacity \in Nat \ {0} /\ LapMask \in Nat \ {0} /\ MaxEvents \in Nat

traceVars == <<current, lap, buffer, writers, reader, trace, overtaken>>

buffer_size == (TraceCapacity * 12) \div 10     \* buffer_margin is 0.2
kBusy == -1
EmptySlot == -1
Torn == -2
BufferSlots == 0..buffer_size - 1
SlotOf(i) == i % buffer_size
GetLap(i) == (i \div buffer_size + 1) % (LapMask + 1)
MaxLap(u, v) == IF (u - v) % (LapMask + 1) <= LapMask \div 2 THEN u ELSE v

TraceInit ==
  /\ current = 0 /\ lap = [slot \in BufferSlots |-> 0] /\ buffer = [slot \in BufferSlots |-> EmptySlot]
  /\ writers = [w \in Writers |-> [at |-> "idle", i |-> 0, prev |-> 0]]
  /\ reader = [at |-> "idle", it |-> 0, end |-> 0, prev |-> 0]
  /\ trace = <<>> /\ overtaken = {}

Free(slot) == lap[slot] # kBusy

\* push_back: take a position, acquire its slot, copy the event, release the slot.
TakePosition(w) ==
  /\ writers[w].at = "idle" /\ current < MaxEvents
  /\ current' = current + 1
  /\ writers' = [writers EXCEPT ![w] = [at |-> "placed", i |-> current, prev |-> 0]]
  /\ UNCHANGED <<lap, buffer, reader, trace, overtaken>>
AcquireForWrite(w) ==
  LET slot == SlotOf(writers[w].i) IN
  /\ writers[w].at = "placed" /\ Free(slot)
  /\ writers' = [writers EXCEPT ![w] = [@ EXCEPT !.at = "copying", !.prev = lap[slot]]]
  /\ lap' = [lap EXCEPT ![slot] = kBusy]
  /\ overtaken' = IF buffer[slot] > writers[w].i THEN overtaken \cup {buffer[slot]} ELSE overtaken
  /\ buffer' = [buffer EXCEPT ![slot] = Torn]
  /\ UNCHANGED <<current, reader, trace>>
ReleaseWritten(w) ==
  LET slot == SlotOf(writers[w].i) IN
  /\ writers[w].at = "copying"
  /\ buffer' = [buffer EXCEPT ![slot] = writers[w].i]
  /\ lap' = [lap EXCEPT ![slot] = MaxLap(writers[w].prev, GetLap(writers[w].i))]
  /\ writers' = [writers EXCEPT ![w].at = "idle"]
  /\ UNCHANGED <<current, reader, trace, overtaken>>

\* GetTrace: end() and begin() read current_ one after the other.
ReadEnd ==
  /\ reader.at = "idle" /\ current > 0
  /\ reader' = [reader EXCEPT !.at = "ended", !.end = current]
  /\ UNCHANGED <<current, lap, buffer, writers, trace, overtaken>>
Begin == IF current < TraceCapacity THEN 0 ELSE current - TraceCapacity
ReadBegin ==
  /\ reader.at = "ended"
  /\ reader' = [reader EXCEPT !.at = "reading", !.it = Begin]
  /\ UNCHANGED <<current, lap, buffer, writers, trace, overtaken>>

\* A slot may be read when it has reached the lap of the position asked for.
ReachedOrNot(slot) == Free(slot)
Reached(slot) == Free(slot) /\ lap[slot] = MaxLap(lap[slot], GetLap(reader.it))
AcquireForRead ==
  LET slot == SlotOf(reader.it) IN
  /\ reader.at = "reading" /\ reader.it < reader.end /\ Reached(slot)
  /\ reader' = [reader EXCEPT !.at = "copying", !.prev = lap[slot]]
  /\ lap' = [lap EXCEPT ![slot] = kBusy]
  /\ UNCHANGED <<current, buffer, writers, trace, overtaken>>
ReleaseRead ==
  LET slot == SlotOf(reader.it) IN
  /\ reader.at = "copying"
  /\ trace' = Append(trace, [asked |-> reader.it, event |-> buffer[slot]])
  /\ lap' = [lap EXCEPT ![slot] = reader.prev]
  /\ reader' = [reader EXCEPT !.at = "reading", !.it = @ + 1]
  /\ UNCHANGED <<current, buffer, writers, overtaken>>

TraceNext ==
  \/ \E w \in Writers : TakePosition(w) \/ AcquireForWrite(w) \/ ReleaseWritten(w)
  \/ ReadEnd \/ ReadBegin \/ AcquireForRead \/ ReleaseRead

TraceSpec == TraceInit /\ [][TraceNext]_traceVars

(* A trace holds whole events, each once, and at the place of an event     *)
(* that event or a newer one; an older one only where a thread that had    *)
(* been delayed for a lap wrote over the newer event.                      *)
TraceReads ==
  /\ \A k \in DOMAIN trace : trace[k].event \in 0..current - 1
  /\ \A k, l \in DOMAIN trace : k # l => trace[k].event # trace[l].event
  /\ \A k \in DOMAIN trace :
       trace[k].event < trace[k].asked =>
         \E newer \in overtaken : newer >= trace[k].asked /\ SlotOf(newer) = SlotOf(trace[k].asked)
=============================================================================
