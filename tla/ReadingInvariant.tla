--------------------------- MODULE ReadingInvariant ---------------------------
(***************************************************************************)
(* What holds between the parser, the decoder, the frames handed out and   *)
(* the frames sent in every state of FileReading: the invariants from      *)
(* which the properties of ReadingProperties follow.                       *)
(***************************************************************************)
EXTENDS ReadingProperties

Pts == {NoPts} \cup Nat
SentFrame == [session : Nat, eos : BOOLEAN, pts : Pts]

(* ReadingTypeOK in parts, with the types it leaves to the reader.         *)
ControlTypes ==
  /\ file \in Files /\ looping \in BOOLEAN
  /\ interval \in Intervals /\ pix_fmt \in PixelFormats
  /\ app \in {"closed", "open", "closing"}
  /\ session \in Nat /\ errors \in BOOLEAN
  /\ pc \in {"off", "prepare", "loop", "check", "rewind", "clear", "failed", "report", "exit", "ended"}
  /\ (pc = "off") = (app = "closed")
CodecTypes ==
  /\ at \in 1..Len(file) + 1
  /\ parser \in [open : BOOLEAN, first : BOOLEAN, find_pts : BOOLEAN, pts : Nat]
  /\ decoder \in [made : BOOLEAN, instance : BOOLEAN, eos_sent : BOOLEAN, pictures : Seq(Nat)]
  /\ failed \in [create : BOOLEAN, decode : BOOLEAN]
  /\ eos_reached \in BOOLEAN
RenderTypes ==
  /\ emit \in Seq(Pts)
  /\ eos_sent \in BOOLEAN
  /\ frame_count \in 0..interval - 1
FlowTypes ==
  /\ sent \in Seq(SentFrame)
  /\ count \in 0..(IF FlowDepth = 0 THEN 0 ELSE FlowDepth)
  /\ undercount \in Nat
  /\ live \subseteq 1..Len(sent)
  /\ \A i \in live : ~sent[i].eos
FullTypes == ControlTypes /\ CodecTypes /\ RenderTypes /\ FlowTypes

(* When the thread reads, everything decoded was sent; it has a decoder    *)
(* from its preparation to ClearResources, where the end is flushed.       *)
CodecInv ==
  /\ ~decoder.made => decoder = NoDecoder
  /\ pc \in {"off", "prepare", "loop", "rewind", "ended"} => Idle
  /\ pc \in {"off", "prepare", "report", "exit", "ended"} => decoder = NoDecoder
  /\ pc \in {"loop", "check", "rewind", "clear"} => decoder.made /\ decoder.instance

(* The end of the stream among what was handed out, the frames, and the    *)
(* frames of earlier sessions.                                             *)
EosAhead == \E i \in DOMAIN emit : emit[i] = Eos
SaidBefore == \E i \in DOMAIN sent : sent[i].eos /\ sent[i].session < session
SaidNow == \E i \in DOMAIN sent : sent[i].eos /\ sent[i].session = session

(* The end is announced once in the life of a handler and it is the last   *)
(* thing handed out.                                                       *)
EosOnce ==
  /\ \A i \in DOMAIN emit : emit[i] = Eos => i = Len(emit)
  /\ \A i \in DOMAIN sent : sent[i].session <= session
  /\ eos_sent <=> (\E i \in DOMAIN sent : sent[i].eos)
  /\ \A i, j \in DOMAIN sent : sent[i].eos /\ sent[j].eos => i = j

(* A thread that is past ClearResources has announced the end, or is about *)
(* to, or reports an error.                                                *)
EosInv ==
  /\ decoder.eos_sent => EosAhead \/ eos_sent
  /\ pc = "exit" => EosAhead \/ eos_sent \/ errors

(* As long as no earlier session announced the end: once it is flushed or  *)
(* sent the thread is on its way out, and eos_reached_ is set by the file  *)
(* of this session, whose end is flushed before the thread ends.           *)
Leaving == pc \in {"check", "clear"} /\ decoder.eos_sent
LastInv ==
  /\ decoder.eos_sent /\ ~SaidBefore =>
       /\ pc \in {"check", "clear"}
       /\ pc = "check" => failed.decode /\ ~eos_reached
  /\ SaidNow => Idle /\ (Leaving \/ pc \in {"off", "report", "exit", "ended"})
  /\ EosAhead /\ ~SaidBefore => Leaving \/ pc \in {"report", "exit"}
  /\ eos_reached /\ ~SaidBefore =>
       /\ pc \notin {"prepare", "loop"}
       /\ pc \in {"clear", "failed"} => decoder.instance
       /\ pc \in {"off", "report", "exit", "ended"} => EosAhead \/ eos_sent

(* The numbers given to the packets of a file without time stamps: from    *)
(* the first frame sent to the last picture in the decoder they grow, and  *)
(* the next one is larger.                                                 *)
Unnumbered == \A i \in DOMAIN file : file[i].pts = NoPts
Growing(s) == \A i, j \in DOMAIN s : i < j => s[i] < s[j]
Below(s, n) == \A i \in DOMAIN s : s[i] < n
DataSent == {i \in DOMAIN sent : ~sent[i].eos}
DataAhead == {i \in DOMAIN emit : emit[i] # Eos}
NumberInv ==
  Unnumbered =>
    /\ \A i, j \in DataSent : i < j => sent[i].pts < sent[j].pts
    /\ \A i, j \in DataAhead : i < j => emit[i] < emit[j]
    /\ Growing(decoder.pictures)
    /\ \A i \in DataSent : \A j \in DataAhead : sent[i].pts < emit[j]
    /\ \A i \in DataSent : \A j \in DOMAIN decoder.pictures : sent[i].pts < decoder.pictures[j]
    /\ \A i \in DataAhead : \A j \in DOMAIN decoder.pictures : emit[i] < decoder.pictures[j]
    /\ \A i \in DataSent : sent[i].pts < parser.pts
    /\ \A i \in DataAhead : emit[i] < parser.pts
    /\ Below(decoder.pictures, parser.pts)
=============================================================================
