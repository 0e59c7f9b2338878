-------------------------- MODULE ProfilingInvariant --------------------------
(***************************************************************************)
(* The inductive invariant behind ProfileAccounts: where the frames are,   *)
(* how far they were overtaken, and which records a process still has.     *)
(***************************************************************************)
EXTENDS Profiling

Keys == 1..Eos - 1

(* Counts of one profiler.  unmatched is what they differ by from the      *)
(* counts of a profiler that found every start.                            *)
Entry == [key : Nat, skip : Nat]
Profiler == [exists : BOOLEAN, records : Seq(Entry), ongoing : Nat, dropped : Nat, completed : Nat,
             latencies : Nat, starts : Nat, unmatched : Nat, left : Nat]
Counts(profiler) ==
  /\ profiler \in Profiler
  /\ ~profiler.exists => profiler.records = <<>>
  /\ profiler.starts = profiler.latencies + profiler.dropped + Len(profiler.records)
  /\ profiler.ongoing = Len(profiler.records) + profiler.left
  /\ profiler.completed = profiler.latencies + profiler.unmatched
CountsInv == /\ profilers \in [Processes -> Profiler] /\ traced \in [Processes -> Profiler]
             /\ \A p \in Processes : Counts(profilers[p]) /\ Counts(traced[p])

(* The frames behind the decoder, the first to leave in front; the EOS     *)
(* frame is one of them.                                                   *)
InLeaf == IF leaf = NoFrame THEN <<>> ELSE <<leaf>>
InSource == IF SourceEnded THEN <<>> ELSE thread
Flight == InLeaf \o (conveyor \o InSource)
FlowTypeOK ==
  /\ recorded \in BOOLEAN /\ removed \in BOOLEAN /\ early \in BOOLEAN
  /\ life \in 1..Len(Frames) /\ parsed \in 0..Eos
  /\ inDecoder \subseteq Keys /\ sent \subseteq Keys
  /\ thread \in {Between, <<Eos>>, <<Eos, Eos>>} \cup {<<key>> : key \in Keys}
  /\ conveyor \in Seq(1..Eos) /\ leaf \in 0..Eos

\* The EOS frame is the last to be sent, and takes the records of the stream with it.
EndInv ==
  /\ life = 1 => ~early
  /\ parsed = Eos <=> thread \in {<<Eos>>, <<Eos, Eos>>}
  /\ parsed = Eos =>
       /\ inDecoder = {} /\ profilers[SourceProcess].records = <<>>
       /\ IF Flight = <<>> THEN \A p \in Processes : profilers[p].records = <<>>
          ELSE Flight[Len(Flight)] = Eos

(* Unless the name was added again early: a frame is in one place, and is  *)
(* overtaken by no more than Reorder others, of those that are through and *)
(* those in front of it.                                                   *)
Through == sent \ Range(Flight)
Later(keys, key) == {other \in keys : other > key}
InFront(i) == Through \cup {Flight[j] : j \in 1..i - 1}
OneByOne ==
  /\ \A i, j \in DOMAIN Flight : Flight[i] = Flight[j] => i = j
  /\ \A i \in DOMAIN Flight : IF Flight[i] = Eos THEN i = Len(Flight) /\ parsed = Eos
                              ELSE Flight[i] \in sent
  /\ inDecoder \cap sent = {} /\ (parsed # Eos => inDecoder \cup sent \subseteq 1..parsed)
NotOvertaken ==
  /\ \A key \in inDecoder : Overtaken(key) <= Reorder
  /\ \A i \in DOMAIN Flight :
       Flight[i] # Eos => Cardinality(Later(InFront(i), Flight[i])) <= Reorder
OrderInv == OneByOne /\ (~removed => NotOvertaken)

(* A process has the records of the frames that are still to leave it,     *)
(* each skipped by later frames that have left it, no more often.          *)
Sorted(records) == \A i, j \in DOMAIN records : i < j => records[i].key < records[j].key
Has(records, key) == \E i \in DOMAIN records : records[i].key = key
UpTo(records, last) == \A i \in DOMAIN records : records[i].key <= last
SkipsOf(records, pending, gone) ==
  \A i \in DOMAIN records :
    records[i].key \in pending => records[i].skip <= Cardinality(Later(gone, records[i].key))
HasAll(records, pending) == \A key \in pending : Has(records, key)
Holds(records, pending, gone) == /\ Sorted(records) /\ UpTo(records, parsed)
                                 /\ SkipsOf(records, pending, gone) /\ HasAll(records, pending)
InPipeline == inDecoder \cup (Range(Flight) \ {Eos})
SourceHolds == Holds(profilers[SourceProcess].records, inDecoder, sent)
OverallHolds == Holds(profilers[Overall].records, InPipeline, Through)
InputHolds ==
  LET records == profilers[LeafInput].records
  IN /\ DOMAIN records = {i \in DOMAIN conveyor : conveyor[i] # Eos}
     /\ \A i \in DOMAIN records : records[i].key = conveyor[i]
LeafHolds ==
  LET records == profilers[LeafProcess].records
  IN IF leaf \in Keys THEN Len(records) = 1 /\ records[1].key = leaf ELSE records = <<>>
RecordsInv ==
  /\ recorded /\ ~removed => SourceHolds /\ OverallHolds
  /\ InputHolds /\ (~removed => LeafHolds)

\* Every end finds its start, or, where starts are not recorded, none does.
Recording(process) == recorded \/ process \in {LeafInput, LeafProcess}
MatchedInv ==
  \A p \in Processes :
    IF Recording(p) THEN ~early => profilers[p].unmatched = 0
    ELSE profilers[p].starts = 0

\* The replay of the first life lacks the end of the stream only.
Ended(process) == parsed = Eos /\ (process = SourceProcess \/ Flight = <<>>)
ReplayInv ==
  life = 1 => \A p \in Processes :
                profilers[p] = IF Ended(p) THEN OnStreamEos(traced[p]) ELSE traced[p]

ProfilingInv ==
  /\ FlowTypeOK /\ CountsInv /\ EndInv /\ MatchedInv /\ ReplayInv
  /\ ~early => OrderInv /\ RecordsInv
=============================================================================
