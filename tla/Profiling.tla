----------------------------- MODULE Profiling -----------------------------
(***************************************************************************)
(* The profiler of a pipeline of a source module and a leaf module behind  *)
(* one conveyor, for one stream name that is added, ended and added again. *)
(* Every frame is recorded when it leaves the source, enters and leaves    *)
(* the conveyor, and leaves the leaf; the packet it comes from only by a   *)
(* source that does so: the file handler has the calls commented out.      *)
(* Time is left out: what is counted is modelled, not how long it took.    *)
(* Profiling and tracing are both enabled.                                 *)
(***************************************************************************)
EXTENDS Integers, Sequences, FiniteSets, FiniteSetsExt, Functions

CONSTANTS
  MaxDpb,            \* kDEFAULT_MAX_DPB_SIZE
  Reorder,           \* how many later pictures may leave the decoder before one
  ConveyorCapacity,  \* max_queue_size of the conveyor
  Frames             \* bound: the packets of the stream each time its name is added

\* A decoder reorders no further than the size of its buffer.
ASSUME ProfilingAssumption ==
  /\ MaxDpb \in Nat /\ Reorder \in Nat /\ Reorder <= MaxDpb
  /\ Frames \in Seq(Nat) /\ Frames # <<>>

VARIABLES
  profilers, \* process -> the fields of its ProcessProfiler
  traced,    \* process -> what its events of the first life count to when replayed
  recorded,  \* the source records the packets it reads
  life, parsed, inDecoder, sent,     \* the stream: packets read, in the decoder, sent
  thread,    \* the thread of the source: between frames, or a frame between two steps
  removed,   \* IsStreamRemoved
  conveyor, leaf,                  \* the frames in the conveyor and the one in the leaf
  early      \* history: the name was added again before its EOS was through

flowVars == <<life, parsed, inDecoder, sent, thread, removed, conveyor, leaf, early>>
profilingVars == <<profilers, traced, recorded, flowVars>>

\* ProcessProfiler and RecordPolicy.  starts, unmatched and left are history:
\* the calls of RecordStart, the ends without a start, the records left at EOS.
Fresh == [exists |-> FALSE, records |-> <<>>, ongoing |-> 0, dropped |-> 0, completed |-> 0,
          latencies |-> 0, starts |-> 0, unmatched |-> 0, left |-> 0]
Overall == "overall"
SourceProcess == "source.process"
LeafInput == "leaf.input"
LeafProcess == "leaf.process"
Processes == {Overall, SourceProcess, LeafInput, LeafProcess}

OnStreamStart(profiler) ==
  IF profiler.exists THEN profiler ELSE [profiler EXCEPT !.exists = TRUE, !.records = <<>>]

RecordStart(profiler, key) ==
  [OnStreamStart(profiler) EXCEPT !.records = Append(@, [key |-> key, skip |-> 0]),
                                  !.ongoing = @ + 1, !.starts = @ + 1]

\* A record earlier than the one removed is skipped once more; useless when too often.
UselessEarlier(record) == record.skip >= MaxDpb
Useless(record) == record.skip > MaxDpb
RemoveThisAndOtherUselessRecords(records, at) ==
  LET kept[i \in 0..at - 1] ==   \* of the first i records
        IF i = 0 THEN <<>>
        ELSE LET skipped == [records[i] EXCEPT !.skip = @ + 1]
             IN IF Useless(skipped) THEN kept[i - 1] ELSE Append(kept[i - 1], skipped)
  IN kept[at - 1] \o SubSeq(records, at + 1, Len(records))

FindStartRecord(records, key) == {i \in DOMAIN records : records[i].key = key}
First(positions) == CHOOSE i \in positions : \A j \in positions : i <= j

RecordEnd(started, key) ==
  LET profiler == OnStreamStart(started)
      found == FindStartRecord(profiler.records, key)
      kept == RemoveThisAndOtherUselessRecords(profiler.records, First(found))
      counter == Len(profiler.records) - Len(kept)
  IN IF found = {} THEN [profiler EXCEPT !.completed = @ + 1, !.unmatched = @ + 1]
     ELSE [profiler EXCEPT !.records = kept, !.ongoing = @ - counter, !.dropped = @ + counter - 1,
                           !.latencies = @ + 1, !.completed = @ + 1]

OnStreamEos(profiler) ==
  IF ~profiler.exists THEN profiler
  ELSE LET number_remaining == Len(profiler.records)
       IN [profiler EXCEPT !.exists = FALSE, !.records = <<>>,
                           !.dropped = @ + number_remaining, !.left = @ + number_remaining]

GetProfile(profiler) ==
  [completed |-> profiler.completed, dropped |-> profiler.dropped,
   counter |-> profiler.completed + profiler.dropped, ongoing |-> profiler.ongoing]

\* A profile of a period replays the events of the trace; the end of a stream is none.
Recorded(profiler, event) ==
  IF event.type = "START" THEN RecordStart(profiler, event.key) ELSE RecordEnd(profiler, event.key)

\* What a step records: for every process at most a start and an end of a frame.
Start(process, key) == [process |-> process, type |-> "START", key |-> key]
End(process, key) == [process |-> process, type |-> "END", key |-> key]
Record(events) ==
  LET Of(process) == {event \in events : event.process = process}
      After(all) == [process \in Processes |->
        IF Of(process) = {} THEN all[process]
        ELSE Recorded(all[process], CHOOSE event \in Of(process) : TRUE)]
  IN /\ profilers' = After(profilers)
     /\ traced' = IF life = 1 THEN After(traced) ELSE traced
EndStream(processes) ==
  /\ profilers' = [process \in Processes |->
       IF process \in processes THEN OnStreamEos(profilers[process]) ELSE profilers[process]]
  /\ UNCHANGED traced

Between == <<>>      \* the source thread is not in SendData
NoFrame == 0
Eos == Max(Range(Frames)) + 1

ProfilingInit ==
  /\ profilers = [process \in Processes |-> Fresh]
  /\ traced = [process \in Processes |-> Fresh]
  /\ recorded \in BOOLEAN
  /\ life = 1 /\ parsed = 0 /\ inDecoder = {} /\ sent = {} /\ thread = Between
  /\ removed = FALSE /\ conveyor = <<>> /\ leaf = NoFrame /\ early = FALSE

\* OnParserFrame: a source that records starts its process and the pipeline's.
ReadPacket ==
  /\ thread = Between /\ parsed < Frames[life]
  /\ parsed' = parsed + 1 /\ inDecoder' = inDecoder \cup {parsed + 1}
  /\ Record(IF recorded THEN {Start(SourceProcess, parsed + 1), Start(Overall, parsed + 1)} ELSE {})
  /\ UNCHANGED <<life, sent, thread, removed, conveyor, leaf, early>>

\* A picture may be overtaken by Reorder others in the decoder.
Overtaken(key) == Cardinality({other \in sent : other > key})
MayLeave(key) == \A other \in inDecoder : other < key => Overtaken(other) < Reorder

\* A picture that is not decoded, skipped by interval_, or finds no FrameInfo.
LosePicture ==
  /\ thread = Between
  /\ \E key \in inDecoder : inDecoder' = inDecoder \ {key}
  /\ UNCHANGED <<profilers, traced, life, parsed, sent, thread, removed, conveyor, leaf, early>>

\* SendData: a frame of a removed stream is refused, another leaves the process.
SendData ==
  /\ thread = Between
  /\ \E key \in inDecoder :
       /\ MayLeave(key)
       /\ inDecoder' = inDecoder \ {key} /\ sent' = sent \cup {key}
       /\ IF removed THEN thread' = Between /\ Record({})
          ELSE thread' = <<key>> /\ Record({End(SourceProcess, key)})
  /\ UNCHANGED <<life, parsed, removed, conveyor, leaf, early>>

\* TransmitData of the source: the stream may have been removed since.
TransmitToLeaf ==
  /\ thread \in {<<key>> : key \in 1..Eos - 1} /\ thread' = Between
  /\ removed \/ Len(conveyor) < ConveyorCapacity
  /\ LET key == thread[1]
     IN IF removed THEN Record({}) /\ UNCHANGED conveyor
        ELSE Record({Start(LeafInput, key)}) /\ conveyor' = Append(conveyor, key)
  /\ UNCHANGED <<life, parsed, inDecoder, sent, removed, leaf, early>>

\* The EOS frame passes the source; the pictures still in the decoder are flushed before it.
SendEos ==
  /\ thread = Between /\ inDecoder = {} /\ parsed # Eos
  /\ thread' = <<Eos>> /\ parsed' = Eos
  /\ EndStream({SourceProcess})
  /\ UNCHANGED <<life, inDecoder, sent, removed, conveyor, leaf, early>>
PushEos ==
  /\ thread = <<Eos>> /\ Len(conveyor) < ConveyorCapacity
  /\ thread' = <<Eos, Eos>> /\ conveyor' = Append(conveyor, Eos)
  /\ UNCHANGED <<profilers, traced, life, parsed, inDecoder, sent, removed, leaf, early>>
SourceEnded == thread = <<Eos, Eos>>

Pop ==
  /\ leaf = NoFrame /\ conveyor # <<>>
  /\ leaf' = Head(conveyor) /\ conveyor' = Tail(conveyor)
  /\ IF Head(conveyor) = Eos THEN Record({})
     ELSE Record({End(LeafInput, Head(conveyor)), Start(LeafProcess, Head(conveyor))})
  /\ UNCHANGED <<life, parsed, inDecoder, sent, thread, removed, early>>

\* TransmitData of the leaf: a frame of a removed stream is not recorded any more.
TransmitOut ==
  /\ leaf \in 1..Eos - 1 /\ leaf' = NoFrame
  /\ IF removed THEN Record({}) ELSE Record({End(Overall, leaf), End(LeafProcess, leaf)})
  /\ UNCHANGED <<life, parsed, inDecoder, sent, thread, removed, conveyor, early>>
EosOut ==
  /\ leaf = Eos /\ leaf' = NoFrame
  /\ EndStream({LeafInput, LeafProcess, Overall})
  /\ UNCHANGED <<life, parsed, inDecoder, sent, thread, removed, conveyor, early>>

\* A forced removal marks the stream, and is over when the EOS frame is destroyed.
ForceRemove ==
  /\ ~removed /\ ~SourceEnded /\ removed' = TRUE
  /\ UNCHANGED <<profilers, traced, life, parsed, inDecoder, sent, thread, conveyor, leaf, early>>
EosIsThrough == conveyor = <<>> /\ leaf = NoFrame
AddAgain ==
  /\ SourceEnded /\ life < Len(Frames) /\ (removed => EosIsThrough)
  /\ early' = (early \/ ~EosIsThrough)
  /\ life' = life + 1 /\ parsed' = 0 /\ sent' = {} /\ thread' = Between /\ removed' = FALSE
  /\ UNCHANGED <<profilers, traced, inDecoder, conveyor, leaf>>

ProfilingNext ==
  /\ UNCHANGED recorded
  /\ \/ ReadPacket \/ LosePicture \/ SendData \/ TransmitToLeaf \/ SendEos \/ PushEos
     \/ Pop \/ TransmitOut \/ EosOut \/ ForceRemove \/ AddAgain

ProfilingSpec == ProfilingInit /\ [][ProfilingNext]_profilingVars

(* The profile of every process accounts for every frame: what started is  *)
(* completed with a latency, dropped, or recorded as under way; where the  *)
(* starts are recorded, a frame that is counted as completed was not       *)
(* counted as dropped before, unless its stream was added again while its  *)
(* EOS was still under way, and where they are not, nothing has a latency; *)
(* when the EOS is through nothing is left under way.  ongoing_ is too large by the *)
(* records that were dropped at EOS.  The profile of a period counts the   *)
(* same, but keeps as under way what EOS dropped.                          *)
Accounts(process) ==
  LET profiler == profilers[process]
      profile == GetProfile(profiler)
  IN /\ profiler.starts = profiler.latencies + profiler.dropped + Len(profiler.records)
     /\ profile.ongoing = Len(profiler.records) + profiler.left
     /\ IF recorded \/ process \in {LeafInput, LeafProcess}
        THEN ~early => profile.counter + Len(profiler.records) = profiler.starts
        ELSE profiler.latencies = 0 /\ profile.completed = profile.counter
     /\ (SourceEnded /\ EosIsThrough) => profiler.records = <<>>
ReplayAccounts(process) ==
  LET replayed == traced[process]
      profiler == profilers[process]
  IN life = 1 =>
       /\ GetProfile(replayed).completed = GetProfile(profiler).completed
       /\ replayed.dropped + Len(replayed.records) = profiler.dropped + Len(profiler.records)
       /\ replayed.ongoing = profiler.ongoing
ProfileAccounts == \A process \in Processes : Accounts(process) /\ ReplayAccounts(process)
=============================================================================
