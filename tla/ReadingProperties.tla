-------------------------- MODULE ReadingProperties --------------------------
(***************************************************************************)
(* What the handler of a file should keep to.                              *)
(***************************************************************************)
EXTENDS FileReading

(* Types. *)
ReadingTypeOK ==
  /\ file \in Files /\ interval \in Intervals /\ pix_fmt \in PixelFormats
  /\ at \in 1..Len(file) + 1
  /\ app \in {"closed", "open", "closing"}
  /\ pc \in {"off", "prepare", "loop", "check", "rewind", "clear", "failed", "report", "exit", "ended"}
  /\ (pc = "off") = (app = "closed")
  /\ parser.pts \in Nat
  /\ ~decoder.made => decoder = NoDecoder
  /\ frame_count \in 0..interval - 1
  /\ count \in 0..(IF FlowDepth = 0 THEN 0 ELSE FlowDepth)
  /\ live \subseteq DOMAIN sent
  /\ \A i \in live : ~sent[i].eos
  /\ undercount \in Nat

(* "there will be no more than flow_depth frames simultaneously"           *)
(* (easysa_common.hpp) does not hold: every frame that FrameInfo::Create   *)
(* rejects takes one off the count.  That is the only way past the limit.  *)
LiveWithinUndercount ==
  FlowDepth > 0 => /\ count <= FlowDepth
                   /\ Cardinality(live) <= count + undercount

(* Frames of a file without time stamps are numbered, and no number is     *)
(* given twice, when a looping file starts again or the handler is opened  *)
(* again included: records of the profiler are found by stream and number. *)
UniqueTimestamps ==
  (\A i \in DOMAIN file : file[i].pts = NoPts) =>
    \A i, j \in DOMAIN sent :
      ~sent[i].eos /\ ~sent[j].eos /\ sent[i].pts = sent[j].pts => i = j

(* The handler keeps the promises a handler makes to the pipeline: nothing *)
(* after the EOS frame of an opening, one EOS frame, and no thread that    *)
(* ends in silence, whichever of the file, the codec and Close ended it.   *)
Contract == INSTANCE SourceContract WITH
  phase <- IF pc = "off" THEN "closed" ELSE IF pc = "ended" THEN "ended" ELSE "open",
  opening <- session,
  outbox <- [i \in DOMAIN sent |-> [session |-> sent[i].session, eos |-> sent[i].eos]],
  reported <- errors
KeepsContract == Contract!ContractSpec

(* FileHandler::Close returns, although the thread may be in the loop of   *)
(* CreateFrameInfo that does not look at running_, and the pipeline has    *)
(* stopped and frees no frame.                                             *)
CloseReturns == app = "closing" ~> app = "closed"
=============================================================================
