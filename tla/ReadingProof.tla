----------------------------- MODULE ReadingProof -----------------------------
(***************************************************************************)
(* Proofs, for every set of files, every flow depth and interval, that the *)
(* handler of a file keeps its contract with the pipeline, numbers frames  *)
(* without repetition, and passes the flow depth only by what was taken    *)
(* off the count for rejected frames.                                      *)
(***************************************************************************)
EXTENDS ReadingInvariant, FiniteSetTheorems, SequenceTheorems, WellFoundedInduction, TLAPS

(***************************************************************************)
(* The parser and the decoder                                              *)
(***************************************************************************)

(* The loop of Parse finds the next packet of the stream when there is one. *)
LEMMA NextPacketIsFound ==
  ASSUME FullTypes, Found # {}
  PROVE  NextPacket \in Found
<1>1. Found \subseteq Nat
  BY DEF Found, FullTypes, CodecTypes
<1>2. PICK i \in Found : \A j \in Found : <<j, i>> \notin OpToRel(<, Nat)
  BY <1>1, WFMin, NatLessThanWellFounded, Zenon
<1>3. \A j \in Found : ~(j < i)
  BY <1>1, <1>2, Zenon DEF OpToRel
<1>4. \A j \in Found : i <= j
  BY <1>1, <1>3
<1> QED BY <1>4 DEF NextPacket

LEMMA NextPacketType ==
  ASSUME FullTypes, Found # {}
  PROVE  NextPacket \in DOMAIN file /\ file[NextPacket] \in Packet /\ NextPacket + 1 \in 1..Len(file) + 1
<1>1. file \in Seq(Packet)
  BY ReadingAssumption DEF FullTypes, ControlTypes
<1>2. NextPacket \in 1..Len(file)
  BY <1>1, NextPacketIsFound DEF Found, FullTypes, CodecTypes
<1> QED BY <1>1, <1>2, ElementOfSeq

LEMMA StampedType ==
  ASSUME FullTypes, NEW packet \in Packet
  PROVE  /\ Stamped(parser, packet).pts \in Nat
         /\ Stamped(parser, packet).parser \in [open : BOOLEAN, first : BOOLEAN, find_pts : BOOLEAN, pts : Nat]
         /\ Stamped(parser, packet).parser.pts >= parser.pts
         /\ packet.pts = NoPts => /\ Stamped(parser, packet).pts = parser.pts
                                  /\ Stamped(parser, packet).parser.pts = parser.pts + 1
<1> DEFINE Parsers == [open : BOOLEAN, first : BOOLEAN, find_pts : BOOLEAN, pts : Nat]
<1>1. parser \in Parsers
  BY DEF FullTypes, CodecTypes
<1>2. packet.pts \in {NoPts} \cup Nat
  BY DEF Packet
<1>3. /\ Stamped(parser, packet).pts = IF packet.pts # NoPts THEN packet.pts ELSE parser.pts
      /\ Stamped(parser, packet).parser =
           [parser EXCEPT !.first = FALSE,
                          !.find_pts = (packet.pts # NoPts),
                          !.pts = IF packet.pts # NoPts THEN @ ELSE @ + 1]
  BY DEF Stamped
<1> DEFINE After(b, n) == [parser EXCEPT !.first = FALSE, !.find_pts = b, !.pts = n]
<1>4. ASSUME NEW n \in Nat
      PROVE  /\ After(FALSE, n) \in Parsers /\ After(FALSE, n).pts = n
             /\ After(TRUE, n) \in Parsers /\ After(TRUE, n).pts = n
  BY <1>1
<1>5. parser.pts \in Nat
  BY <1>1
<1>6. CASE packet.pts = NoPts
  <2>1. Stamped(parser, packet).parser =
          After(FALSE, parser.pts + 1)
    BY <1>3, <1>6
  <2> HIDE DEF After, Parsers
  <2>2. Stamped(parser, packet).parser \in Parsers /\ Stamped(parser, packet).parser.pts = parser.pts + 1
    <3>1. parser.pts + 1 \in Nat
      BY <1>5
    <3> QED BY <1>4, <2>1, <3>1, Zenon
  <2> QED BY <1>3, <1>5, <1>6, <2>2 DEF Parsers
<1>7. CASE packet.pts # NoPts
  <2>1. Stamped(parser, packet).parser =
          After(TRUE, parser.pts)
    BY <1>3, <1>7
  <2> HIDE DEF After, Parsers
  <2>2. Stamped(parser, packet).parser \in Parsers /\ Stamped(parser, packet).parser.pts = parser.pts
    BY <1>4, <1>5, <2>1
  <2> QED BY <1>2, <1>3, <1>5, <1>7, <2>2 DEF Parsers
<1> QED BY <1>6, <1>7

LEMMA FlushedType ==
  ASSUME FullTypes
  PROVE  /\ Shown(decoder.pictures) \in Seq(Nat)
         /\ Flushed(decoder) \in Seq(Pts)
         /\ FlushedByDestroy(decoder) \in Seq(Pts)
         /\ Len(Flushed(decoder)) = Len(Shown(decoder.pictures)) + 1
         /\ \A i \in 1..Len(Shown(decoder.pictures)) : Flushed(decoder)[i] = decoder.pictures[i]
         /\ Flushed(decoder)[Len(Flushed(decoder))] = Eos
         /\ Shown(decoder.pictures) \in {decoder.pictures, <<>>}
<1>1. decoder.pictures \in Seq(Nat)
  BY DEF FullTypes, CodecTypes
<1>2. Shown(decoder.pictures) \in Seq(Nat) /\ Shown(decoder.pictures) \in {decoder.pictures, <<>>}
  BY <1>1 DEF Shown
<1>3. Shown(decoder.pictures) \in Seq(Pts)
  BY <1>2, SeqMonotonic DEF Pts
<1>4. Eos \in Pts
  BY DEF Eos, Pts
<1>5. /\ Flushed(decoder) \in Seq(Pts)
      /\ Len(Flushed(decoder)) = Len(Shown(decoder.pictures)) + 1
      /\ \A i \in 1..Len(Shown(decoder.pictures)) :
           Flushed(decoder)[i] = Shown(decoder.pictures)[i]
      /\ Flushed(decoder)[Len(Flushed(decoder))] = Eos
  BY <1>3, <1>4 DEF Flushed
<1>6. \A i \in 1..Len(Shown(decoder.pictures)) : Shown(decoder.pictures)[i] = decoder.pictures[i]
  BY <1>2
<1> QED BY <1>2, <1>5, <1>6 DEF FlushedByDestroy

(***************************************************************************)
(* Types                                                                   *)
(***************************************************************************)
LEMMA FullTypesSuffice == FullTypes /\ CodecInv => ReadingTypeOK
<1> SUFFICES ASSUME FullTypes, CodecInv PROVE ReadingTypeOK
  OBVIOUS
<1>1. DOMAIN sent = 1..Len(sent)
  BY LenProperties DEF FullTypes, FlowTypes
<1>2. parser.pts \in Nat
  BY DEF FullTypes, CodecTypes
<1>3. ~decoder.made => decoder = NoDecoder
  BY DEF CodecInv
<1>4. live \subseteq DOMAIN sent
  BY <1>1 DEF FullTypes, FlowTypes
<1> QED
  BY <1>2, <1>3, <1>4, Zenon
  DEF FullTypes, ControlTypes, CodecTypes, RenderTypes, FlowTypes, ReadingTypeOK

LEMMA TypesInit == Init => FullTypes
<1> SUFFICES ASSUME Init PROVE FullTypes
  OBVIOUS
<1> USE ReadingAssumption
<1>1. ControlTypes
  BY DEF Init, ControlTypes
<1>2. RenderTypes
  <2>1. interval \in Nat \ {0} /\ frame_count = 0
    BY DEF Init
  <2>2. emit \in Seq(Pts) /\ eos_sent \in BOOLEAN
    BY EmptySeq DEF Init
  <2> QED BY <2>1, <2>2 DEF RenderTypes
<1>3. FlowTypes
  <2>1. sent \in Seq(SentFrame)
    BY EmptySeq DEF Init
  <2> QED BY <2>1 DEF Init, FlowTypes
<1>4. at \in 1..Len(file) + 1
  <2>1. Len(file) \in Nat
    BY LenProperties DEF Init
  <2> QED BY <2>1 DEF Init
<1>5. parser \in [open : BOOLEAN, first : BOOLEAN, find_pts : BOOLEAN, pts : Nat]
  BY DEF Init, ClosedParser
<1>6. decoder \in [made : BOOLEAN, instance : BOOLEAN, eos_sent : BOOLEAN, pictures : Seq(Nat)]
  BY EmptySeq DEF Init, NoDecoder
<1> QED BY <1>1, <1>2, <1>3, <1>4, <1>5, <1>6 DEF Init, FullTypes, CodecTypes

(* What a picture, or the end, that is passed on leaves. *)
LEMMA PassTypes ==
  ASSUME FullTypes, ~Idle
  PROVE  /\ Head(emit) \in Pts /\ Tail(emit) \in Seq(Pts) /\ Len(Tail(emit)) = Len(emit) - 1
         /\ Len(emit) \in Nat \ {0} /\ Head(emit) = emit[1]
         /\ \A i \in 1..Len(emit) - 1 : Tail(emit)[i] = emit[i + 1]
<1>1. emit \in Seq(Pts) /\ emit # <<>>
  BY DEF FullTypes, RenderTypes, Idle
<1> QED BY <1>1, HeadTailProperties, EmptySeq

LEMMA CountTypes ==
  ASSUME FullTypes
  PROVE  /\ CountDown \in 0..(IF FlowDepth = 0 THEN 0 ELSE FlowDepth) /\ CountDown <= count
         /\ FlowDepth > 0 => count <= CountDown + 1
         /\ Granted => CountUp \in 0..(IF FlowDepth = 0 THEN 0 ELSE FlowDepth)
         /\ (frame_count + 1) % interval \in 0..interval - 1
<1>1. interval \in Nat \ {0} /\ frame_count \in 0..interval - 1 /\ FlowDepth \in Nat
  BY ReadingAssumption DEF FullTypes, ControlTypes, RenderTypes
<1>2. (frame_count + 1) % interval \in 0..interval - 1
  BY <1>1
<1>3. count \in 0..(IF FlowDepth = 0 THEN 0 ELSE FlowDepth)
  BY DEF FullTypes, FlowTypes
<1>4. CASE FlowDepth = 0
  BY <1>1, <1>2, <1>3, <1>4 DEF CountDown, CountUp
<1>5. CASE FlowDepth > 0
  BY <1>1, <1>2, <1>3, <1>5 DEF CountDown, CountUp, Granted
<1> QED BY <1>1, <1>4, <1>5

Decoders == [made : BOOLEAN, instance : BOOLEAN, eos_sent : BOOLEAN, pictures : Seq(Nat)]

(* The decoder after it was flushed, and after it was given a packet.      *)
LEMMA FlushKeeps ==
  ASSUME FullTypes
  PROVE  /\ AfterFlush(decoder) \in Decoders
         /\ AfterFlush(decoder).made = decoder.made
         /\ AfterFlush(decoder).instance = decoder.instance
         /\ AfterFlush(decoder).eos_sent /\ AfterFlush(decoder).pictures = <<>>
<1>1. decoder \in Decoders /\ <<>> \in Seq(Nat)
  BY EmptySeq DEF FullTypes, CodecTypes, Decoders
<1>2. AfterFlush(decoder) = [[decoder EXCEPT !.eos_sent = TRUE] EXCEPT !.pictures = <<>>]
  BY DEF AfterFlush
<1>3. [decoder EXCEPT !.eos_sent = TRUE] \in Decoders
  BY <1>1 DEF Decoders
<1> QED BY <1>1, <1>2, <1>3 DEF Decoders

LEMMA DecodeCases ==
  ASSUME FullTypes, NEW packet \in Packet, NEW pts \in Nat, Decode(packet, pts)
  PROVE  \/ /\ emit' = Flushed(decoder) /\ decoder' = AfterFlush(decoder)
            /\ failed' = [failed EXCEPT !.decode = TRUE]
         \/ \E held \in {decoder.pictures, Append(decoder.pictures, pts)} :
              /\ failed' = [failed EXCEPT !.decode = FALSE]
              /\ \/ emit' = <<>> /\ decoder' = [decoder EXCEPT !.pictures = held]
                 \/ /\ held # <<>>
                    /\ emit' \in {<<>>, <<Head(held)>>}
                    /\ decoder' = [decoder EXCEPT !.pictures = Tail(held)]
<1>1. decoder.pictures \in Seq(Nat)
  BY DEF FullTypes, CodecTypes
<1>2. Append(decoder.pictures, pts) # <<>>
  BY <1>1
<1>3. CASE packet.empty
  BY <1>3 DEF Decode
<1>4. CASE ~packet.empty
  <2> DEFINE held == IF packet.good THEN Append(decoder.pictures, pts) ELSE decoder.pictures
  <2>1. /\ failed' = [failed EXCEPT !.decode = FALSE]
        /\ \/ emit' = <<>> /\ decoder' = [decoder EXCEPT !.pictures = held]
           \/ /\ packet.good
              /\ emit' = Shown(<<Head(held)>>)
              /\ decoder' = [decoder EXCEPT !.pictures = Tail(held)]
    BY <1>4 DEF Decode
  <2>2. held \in {decoder.pictures, Append(decoder.pictures, pts)} /\ (packet.good => held # <<>>)
    BY <1>2
  <2>3. Shown(<<Head(held)>>) \in {<<>>, <<Head(held)>>}
    BY DEF Shown
  <2> QED BY <2>1, <2>2, <2>3
<1> QED BY <1>3, <1>4

LEMMA DecodeTypes ==
  ASSUME FullTypes, NEW packet \in Packet, NEW pts \in Nat, Decode(packet, pts)
  PROVE  /\ emit' \in Seq(Pts) /\ decoder' \in Decoders /\ decoder'.made = decoder.made
         /\ decoder'.instance = decoder.instance
         /\ failed' \in [create : BOOLEAN, decode : BOOLEAN]
<1>1. decoder \in Decoders /\ failed \in [create : BOOLEAN, decode : BOOLEAN]
  BY DEF FullTypes, CodecTypes, Decoders
<1>2. CASE /\ emit' = Flushed(decoder) /\ decoder' = AfterFlush(decoder)
           /\ failed' = [failed EXCEPT !.decode = TRUE]
  BY <1>1, <1>2, FlushedType, FlushKeeps
<1>3. ASSUME NEW held \in {decoder.pictures, Append(decoder.pictures, pts)},
             failed' = [failed EXCEPT !.decode = FALSE],
             \/ emit' = <<>> /\ decoder' = [decoder EXCEPT !.pictures = held]
             \/ /\ held # <<>>
                /\ emit' \in {<<>>, <<Head(held)>>}
                /\ decoder' = [decoder EXCEPT !.pictures = Tail(held)]
      PROVE  /\ emit' \in Seq(Pts) /\ decoder' \in Decoders /\ decoder'.made = decoder.made
             /\ decoder'.instance = decoder.instance
             /\ failed' \in [create : BOOLEAN, decode : BOOLEAN]
  <2>1. held \in Seq(Nat)
    BY <1>1 DEF Decoders
  <2>2. held # <<>> => Tail(held) \in Seq(Nat) /\ Head(held) \in Pts
    BY <2>1, HeadTailProperties DEF Pts
  <2>3. emit' \in Seq(Pts)
    <3>1. <<>> \in Seq(Pts)
      BY EmptySeq
    <3>2. ASSUME NEW x \in Pts PROVE <<x>> \in Seq(Pts)
      OBVIOUS
    <3> QED BY <1>3, <2>2, <3>1, <3>2
  <2>4. failed' \in [create : BOOLEAN, decode : BOOLEAN]
    BY <1>1, <1>3
  <2> QED BY <1>1, <1>3, <2>1, <2>2, <2>3, <2>4 DEF Decoders
<1> QED BY <1>2, <1>3, DecodeCases

LEMMA LoopTypes ==
  ASSUME FullTypes, Loop
  PROVE  FullTypes'
<1> USE DEF FullTypes
<1>1. FlowTypes'
  BY DEF Loop, PrepareFails, PrepareResources, LeaveLoop, ReadPacket, ReadEnd, Check, Rewind, Clear,
         Report, Exit, RenderUnchanged, flowVars, FlowTypes
<1>2. ControlTypes'
  <2>1. pc # "off" /\ pc' \in {"loop", "check", "rewind", "clear", "failed", "report", "exit", "ended"}
    BY DEF Loop, PrepareFails, PrepareResources, LeaveLoop, ReadPacket, ReadEnd, Check, FlushAtEnd,
           Rewind, Clear, Report, Exit
  <2>2. UNCHANGED <<fileVars, appVars>> /\ errors' \in {errors, TRUE}
    BY DEF Loop, PrepareFails, PrepareResources, LeaveLoop, ReadPacket, ReadEnd, Check, Rewind, Clear,
           Report, Exit, codecVars
  <2> QED BY <2>1, <2>2 DEF ControlTypes, fileVars, appVars
<1>3. CodecTypes' /\ RenderTypes'
  <2> USE DEF CodecTypes, RenderTypes, fileVars, codecVars, RenderUnchanged
  <2>1. CASE PrepareFails \/ LeaveLoop \/ Report \/ Exit
    BY <2>1 DEF PrepareFails, LeaveLoop, Report, Exit
  <2>2. CASE PrepareResources
    <3>1. parser' \in [open : BOOLEAN, first : BOOLEAN, find_pts : BOOLEAN, pts : Nat]
      BY <2>2 DEF PrepareResources, Opened
    <3>2. decoder' \in [made : BOOLEAN, instance : BOOLEAN, eos_sent : BOOLEAN, pictures : Seq(Nat)]
      <4>1. <<>> \in Seq(Nat)
        BY EmptySeq
      <4>2. NoDecoder \in Decoders
        BY <4>1 DEF NoDecoder, Decoders
      <4>3. ASSUME NEW i \in BOOLEAN
            PROVE  [NoDecoder EXCEPT !.made = TRUE, !.instance = i] \in Decoders
        BY <4>1 DEF NoDecoder, Decoders
      <4>4. \/ decoder' = NoDecoder
            \/ \E i \in BOOLEAN : decoder' = [NoDecoder EXCEPT !.made = TRUE, !.instance = i]
        BY <2>2, Zenon DEF PrepareResources, Created
      <4>5. decoder' \in Decoders
        BY <4>2, <4>3, <4>4, Zenon
      <4> QED BY <4>5 DEF Decoders
    <3>3. at' \in 1..Len(file') + 1
      BY <2>2, ReadingAssumption DEF PrepareResources, ControlTypes
    <3> QED BY <2>2, <3>1, <3>2, <3>3 DEF PrepareResources
  <2>3. CASE ReadPacket
    <3> DEFINE packet == file[NextPacket]
    <3>1. NextPacket + 1 \in 1..Len(file) + 1 /\ packet \in Packet
      BY <2>3, NextPacketType DEF ReadPacket
    <3>2. /\ Stamped(parser, packet).pts \in Nat
          /\ parser' \in [open : BOOLEAN, first : BOOLEAN, find_pts : BOOLEAN, pts : Nat]
      BY <2>3, <3>1, StampedType DEF ReadPacket
    <3>3. Decode(packet, Stamped(parser, packet).pts)
      BY <2>3 DEF ReadPacket
    <3> HIDE DEF packet
    <3>4. /\ emit' \in Seq(Pts) /\ decoder' \in Decoders
          /\ failed' \in [create : BOOLEAN, decode : BOOLEAN]
      BY <3>1, <3>2, <3>3, DecodeTypes
    <3>5. at' = NextPacket + 1 /\ UNCHANGED <<file, interval, eos_reached, eos_sent, frame_count>>
      BY <2>3 DEF ReadPacket
    <3> QED BY <3>1, <3>2, <3>4, <3>5 DEF Decoders
  <2>4. CASE ReadEnd
    BY <2>4, ReadingAssumption DEF ReadEnd, ControlTypes
  <2>5. CASE Check
    <3>1. \/ UNCHANGED <<emit, decoder>>
          \/ emit' = Flushed(decoder) /\ decoder' = AfterFlush(decoder)
      BY <2>5 DEF Check, FlushAtEnd
    <3>2. emit' \in Seq(Pts) /\ decoder' \in Decoders
      BY <3>1, FlushedType, FlushKeeps DEF Decoders
    <3>3. UNCHANGED <<file, interval, at, parser, failed, eos_reached, eos_sent, frame_count>>
      BY <2>5 DEF Check
    <3> QED BY <3>2, <3>3 DEF Decoders
  <2>6. CASE Rewind
    <3>1. parser' \in [open : BOOLEAN, first : BOOLEAN, find_pts : BOOLEAN, pts : Nat]
      BY <2>6 DEF Rewind, Opened, Closed
    <3>2. at' \in 1..Len(file) + 1 /\ eos_reached' \in BOOLEAN
      <4>1. Len(file) \in Nat
        BY ReadingAssumption, LenProperties DEF ControlTypes
      <4>2. at' \in {1, at} /\ (eos_reached' = FALSE \/ eos_reached' = eos_reached)
        BY <2>6 DEF Rewind
      <4>3. at' \in 1..Len(file) + 1
        BY <4>1, <4>2
      <4> QED BY <4>2, <4>3
    <3> QED BY <2>6, <3>1, <3>2 DEF Rewind
  <2>7. CASE Clear
    <3>1. parser' \in [open : BOOLEAN, first : BOOLEAN, find_pts : BOOLEAN, pts : Nat]
      BY <2>7 DEF Clear, Closed
    <3>2. emit' \in Seq(Pts) /\ decoder' = NoDecoder
      BY <2>7, FlushedType DEF Clear
    <3>3. NoDecoder \in Decoders
      BY EmptySeq DEF NoDecoder, Decoders
    <3> QED BY <2>7, <3>1, <3>2, <3>3 DEF Clear, Decoders
  <2> QED BY <2>1, <2>2, <2>3, <2>4, <2>5, <2>6, <2>7 DEF Loop
<1> QED BY <1>1, <1>2, <1>3

LEMMA AppendTypes ==
  ASSUME FlowTypes, NEW frame \in SentFrame
  PROVE  /\ Append(sent, frame) \in Seq(SentFrame)
         /\ Len(Append(sent, frame)) = Len(sent) + 1 /\ Len(sent) \in Nat
         /\ \A i \in 1..Len(sent) : Append(sent, frame)[i] = sent[i]
         /\ Append(sent, frame)[Len(sent) + 1] = frame
         /\ live \subseteq 1..Len(sent)
         /\ \A i \in live : ~Append(sent, frame)[i].eos
BY DEF FlowTypes

LEMMA RenderStepTypes ==
  ASSUME FullTypes, Render \/ DestroyFrame
  PROVE  FullTypes'
<1> USE DEF FullTypes
<1>1. ControlTypes' /\ CodecTypes'
  BY DEF Render, Discard, SendFrame, LoseFrame, Reject, SendFlowEos, DestroyFrame, Pass, fileVars,
         appVars, codecVars, ControlTypes, CodecTypes
<1>2. RenderTypes'
  <2>1. /\ emit' = emit \/ (~Idle /\ emit' = Tail(emit))
        /\ frame_count' = frame_count \/ frame_count' = (frame_count + 1) % interval
        /\ eos_sent' = eos_sent \/ eos_sent' = TRUE
        /\ interval' = interval
    BY DEF Render, Discard, SendFrame, LoseFrame, Reject, SendFlowEos, DestroyFrame, Pass, Wanted,
           Ahead, CountFrame, fileVars
  <2> QED BY <2>1, PassTypes, CountTypes DEF RenderTypes
<1>3. FlowTypes'
  <2>1. CASE Discard \/ LoseFrame
    BY <2>1 DEF Discard, LoseFrame, FlowTypes, flowVars
  <2>2. CASE SendFrame
    <3> DEFINE frame == [session |-> session, eos |-> FALSE, pts |-> Head(emit)]
    <3>1. frame \in SentFrame
      BY <2>2, PassTypes DEF SendFrame, Wanted, Ahead, SentFrame, ControlTypes
    <3>2. sent' = Append(sent, frame) /\ live' = live \cup {Len(sent')} /\ undercount' = undercount
      BY <2>2 DEF SendFrame
    <3>3. count' \in 0..(IF FlowDepth = 0 THEN 0 ELSE FlowDepth)
      BY <2>2, CountTypes DEF SendFrame
    <3>4. frame.eos = FALSE
      OBVIOUS
    <3> HIDE DEF frame
    <3>5. /\ sent' \in Seq(SentFrame) /\ Len(sent') = Len(sent) + 1 /\ Len(sent) \in Nat
          /\ sent'[Len(sent')] = frame
          /\ \A i \in live : i \in 1..Len(sent) /\ ~sent'[i].eos
      BY <3>1, <3>2, AppendTypes
    <3>6. live' \subseteq 1..Len(sent')
      BY <3>2, <3>5
    <3>7. \A i \in live' : ~sent'[i].eos
      BY <3>2, <3>4, <3>5
    <3> QED BY <3>2, <3>3, <3>5, <3>6, <3>7 DEF FlowTypes
  <2>3. CASE Reject
    <3>1. count' = CountDown /\ undercount' = undercount + (count - count')
      BY <2>3 DEF Reject, CountRejected
    <3> QED BY <2>3, <3>1, CountTypes, ReadingAssumption DEF Reject, FlowTypes
  <2>4. CASE SendFlowEos
    <3> DEFINE frame == [session |-> session, eos |-> TRUE, pts |-> NoPts]
    <3>1. frame \in SentFrame
      BY DEF SentFrame, ControlTypes, Pts
    <3>2. sent' \in {sent, Append(sent, frame)} /\ UNCHANGED <<count, live, undercount>>
      BY <2>4 DEF SendFlowEos, flowVars
    <3> HIDE DEF frame
    <3> QED BY <3>1, <3>2, AppendTypes DEF FlowTypes
  <2>5. CASE DestroyFrame
    BY <2>5, CountTypes DEF DestroyFrame, FlowTypes
  <2> QED BY <2>1, <2>2, <2>3, <2>4, <2>5 DEF Render
<1> QED BY <1>1, <1>2, <1>3

LEMMA ApplicationTypes ==
  ASSUME FullTypes, Open \/ CloseBegin \/ CloseJoin \/ UNCHANGED vars
  PROVE  FullTypes'
<1> USE DEF FullTypes, vars, fileVars, codecVars, renderVars, flowVars, appVars
<1>1. ControlTypes'
  <2>1. /\ UNCHANGED fileVars
        /\ session' \in {session, session + 1}
        /\ errors' = errors \/ errors' = FALSE
        /\ \/ pc' = "prepare" /\ app' = "open"
           \/ pc' = pc /\ app' = app
           \/ pc' = pc /\ app = "open" /\ app' = "closing"
           \/ pc' = "off" /\ app' = "closed"
    BY DEF Open, CloseBegin, CloseJoin
  <2>2. app' \in {"closed", "open", "closing"} /\ (pc' = "off") = (app' = "closed")
    BY <2>1 DEF ControlTypes
  <2>3. pc' \in {"off", "prepare", "loop", "check", "rewind", "clear", "failed", "report", "exit", "ended"}
    BY <2>1 DEF ControlTypes
  <2>4. session' \in Nat
    BY <2>1 DEF ControlTypes
  <2>5. errors' \in BOOLEAN
    BY <2>1, Zenon DEF ControlTypes
  <2> QED BY <2>1, <2>2, <2>3, <2>4, <2>5 DEF ControlTypes
<1>2. CodecTypes' /\ RenderTypes' /\ FlowTypes'
  BY DEF Open, CloseBegin, CloseJoin, CodecTypes, RenderTypes, FlowTypes
<1> QED BY <1>1, <1>2

LEMMA TypesStep == FullTypes /\ [Next]_vars => FullTypes'
BY LoopTypes, RenderStepTypes, ApplicationTypes DEF Next

(***************************************************************************)
(* The flow depth                                                          *)
(***************************************************************************)
LEMMA LiveIsFinite ==
  ASSUME FlowTypes
  PROVE  IsFiniteSet(live) /\ Cardinality(live) \in Nat
<1>1. live \subseteq 1..Len(sent) /\ Len(sent) \in Nat
  BY LenProperties DEF FlowTypes
<1>2. IsFiniteSet(1..Len(sent))
  BY <1>1, FS_Interval
<1>3. IsFiniteSet(live)
  BY <1>1, <1>2, FS_Subset
<1> QED BY <1>3, FS_CardinalityType

LEMMA FlowInit == Init => LiveWithinUndercount
BY FS_EmptySet, ReadingAssumption DEF Init, LiveWithinUndercount

LEMMA FlowStep == FullTypes /\ LiveWithinUndercount /\ [Next]_vars => LiveWithinUndercount'
<1> SUFFICES ASSUME FullTypes, LiveWithinUndercount, [Next]_vars, FlowDepth > 0
             PROVE  count' <= FlowDepth /\ Cardinality(live') <= count' + undercount'
  BY DEF LiveWithinUndercount
<1>1. FullTypes'
  BY TypesStep
<1>2. count' \in 0..FlowDepth /\ undercount' \in Nat /\ count \in 0..FlowDepth /\ undercount \in Nat
  BY <1>1, ReadingAssumption DEF FullTypes, FlowTypes
<1>3. Cardinality(live) <= count + undercount /\ Cardinality(live) \in Nat /\ IsFiniteSet(live)
  BY LiveIsFinite DEF LiveWithinUndercount, FullTypes
<1>4. CASE UNCHANGED flowVars
  BY <1>2, <1>3, <1>4 DEF flowVars
<1>5. CASE SendFrame
  <2>1. Len(sent') = Len(sent) + 1 /\ Len(sent) \in Nat
    BY <1>5, <1>1, LenProperties DEF FullTypes, FlowTypes, SendFrame
  <2>2. Len(sent') \notin live
    BY <2>1 DEF FullTypes, FlowTypes
  <2>3. Cardinality(live') = Cardinality(live) + 1
    BY <1>3, <1>5, <2>2, FS_AddElement DEF SendFrame
  <2>4. count' = count + 1 /\ undercount' = undercount
    BY <1>5, ReadingAssumption DEF SendFrame, CountUp
  <2> QED BY <1>2, <1>3, <2>3, <2>4
<1>6. CASE Reject
  BY <1>2, <1>3, <1>6 DEF Reject
<1>7. CASE DestroyFrame
  <2> USE ReadingAssumption
  <2>1. PICK i \in live : live' = live \ {i}
    BY <1>7 DEF DestroyFrame
  <2>2. Cardinality(live') = Cardinality(live) - 1
    BY <1>3, <2>1, FS_RemoveElement
  <2>3. count <= count' + 1 /\ undercount' = undercount
    BY <1>7, CountTypes DEF DestroyFrame
  <2>4. Cardinality(live') <= count' + undercount'
    <3>1. ASSUME NEW a \in Int, NEW b \in Int, NEW c \in Int, NEW d \in Int, NEW u \in Int,
                 a <= c + u, b = a - 1, c <= d + 1
          PROVE  b <= d + u
      BY <3>1
    <3>2. Cardinality(live') \in Int /\ Cardinality(live) \in Int
      BY <1>3, <2>2
    <3>3. count \in Int /\ count' \in Int /\ undercount \in Int
      BY <1>2
    <3> QED BY <1>3, <2>2, <2>3, <3>1, <3>2, <3>3
  <2> QED BY <1>2, <2>4, ReadingAssumption
<1>8. CASE Open \/ CloseBegin \/ CloseJoin \/ Discard \/ LoseFrame \/ SendFlowEos \/ UNCHANGED vars
  BY <1>4, <1>8 DEF Open, CloseBegin, CloseJoin, Discard, LoseFrame, SendFlowEos, vars, renderVars
<1>9. CASE Loop
  BY <1>4, <1>9 DEF Loop, PrepareFails, PrepareResources, LeaveLoop, ReadPacket, ReadEnd, Check, Rewind,
                    Clear, Report, Exit, RenderUnchanged
<1> QED BY <1>5, <1>6, <1>7, <1>8, <1>9 DEF Next, Render

(* At most flow_depth frames, and those whose place in the count was given *)
(* away by the destructor of a rejected frame: whatever the file, the      *)
(* codec, the interval and the order in which the pipeline frees frames.   *)
THEOREM FlowLimit == Spec => []LiveWithinUndercount
<1>1. Init => FullTypes /\ LiveWithinUndercount
  BY TypesInit, FlowInit
<1>2. FullTypes /\ LiveWithinUndercount /\ [Next]_vars => (FullTypes /\ LiveWithinUndercount)'
  BY TypesStep, FlowStep
<1> QED BY <1>1, <1>2, PTL DEF Spec

(***************************************************************************)
(* The thread and its decoder                                              *)
(***************************************************************************)
LEMMA CodecInit == Init => CodecInv
BY DEF Init, CodecInv, Idle, NoDecoder

LEMMA CodecStep == FullTypes /\ CodecInv /\ [Next]_vars => CodecInv'
<1> SUFFICES ASSUME FullTypes, CodecInv, [Next]_vars PROVE CodecInv'
  OBVIOUS
<1> USE DEF CodecInv, Idle
<1>1. CASE Open \/ CloseBegin \/ CloseJoin \/ UNCHANGED vars
  <2>1. UNCHANGED <<emit, decoder>>
    BY <1>1 DEF Open, CloseBegin, CloseJoin, vars, codecVars, renderVars
  <2>2. \/ pc = "off" /\ pc' = "prepare"
        \/ pc' = pc
        \/ pc = "ended" /\ pc' = "off"
    BY <1>1 DEF Open, CloseBegin, CloseJoin, vars, FullTypes, ControlTypes
  <2> QED BY <2>1, <2>2
<1>2. CASE PrepareFails \/ LeaveLoop \/ ReadEnd \/ Report \/ Exit
  BY <1>2 DEF PrepareFails, LeaveLoop, ReadEnd, Report, Exit, codecVars
<1>3. CASE PrepareResources
  <2>1. emit' = emit /\ emit = <<>>
    BY <1>3 DEF PrepareResources
  <2>2. CASE decoder' = [NoDecoder EXCEPT !.made = TRUE, !.instance = TRUE] /\ pc' = "loop"
    BY <2>1, <2>2 DEF NoDecoder
  <2>3. CASE decoder' \in {NoDecoder} \cup Created /\ pc' = "failed"
    BY <2>1, <2>3 DEF NoDecoder, Created
  <2> QED BY <1>3, <2>2, <2>3 DEF PrepareResources
<1>4. CASE ReadPacket
  <2>1. decoder'.made = decoder.made /\ decoder'.instance = decoder.instance
    BY <1>4, NextPacketType, StampedType, DecodeTypes DEF ReadPacket
  <2> QED BY <1>4, <2>1 DEF ReadPacket
<1>5. CASE Check
  <2>1. decoder.made /\ decoder.instance /\ emit = <<>> /\ pc' \in {"rewind", "clear", "loop"}
    BY <1>5 DEF Check, FlushAtEnd
  <2>2. CASE UNCHANGED <<emit, decoder>>
    BY <2>1, <2>2
  <2>3. CASE pc' = "clear" /\ decoder' = AfterFlush(decoder)
    BY <2>1, <2>3, FlushKeeps
  <2> QED BY <1>5, <2>2, <2>3 DEF Check, FlushAtEnd
<1>6. CASE Rewind
  BY <1>6 DEF Rewind
<1>7. CASE Clear
  BY <1>7 DEF Clear, NoDecoder
<1>8. CASE Render \/ DestroyFrame
  <2>1. (emit # <<>> \/ emit' = emit) /\ UNCHANGED <<pc, decoder>>
    BY <1>8 DEF Render, Discard, SendFrame, LoseFrame, Reject, SendFlowEos, DestroyFrame, Pass,
                Wanted, Ahead, codecVars
  <2> QED BY <2>1
<1> QED BY <1>1, <1>2, <1>3, <1>4, <1>5, <1>6, <1>7, <1>8 DEF Next, Loop

(* Types, for every file and every end of it. *)
THEOREM ReadingTypes == Spec => []ReadingTypeOK
<1>1. Init => FullTypes /\ CodecInv
  BY TypesInit, CodecInit
<1>2. FullTypes /\ CodecInv /\ [Next]_vars => (FullTypes /\ CodecInv)'
  BY TypesStep, CodecStep
<1> QED BY <1>1, <1>2, FullTypesSuffice, PTL DEF Spec

(***************************************************************************)
(* The end of the stream                                                   *)
(***************************************************************************)

(* The end is the last thing in what a flush hands out, and in nothing     *)
(* else that a packet yields.                                              *)
LEMMA FlushedEnd ==
  ASSUME FullTypes
  PROVE  /\ \A i \in DOMAIN Flushed(decoder) : Flushed(decoder)[i] = Eos => i = Len(Flushed(decoder))
         /\ \E i \in DOMAIN Flushed(decoder) : Flushed(decoder)[i] = Eos
<1>1. Flushed(decoder) \in Seq(Pts) /\ decoder.pictures \in Seq(Nat)
  BY FlushedType DEF FullTypes, CodecTypes
<1>2. DOMAIN Flushed(decoder) = 1..Len(Flushed(decoder)) /\ Len(Flushed(decoder)) \in Nat \ {0}
  <2>1. Len(Shown(decoder.pictures)) \in Nat
    BY FlushedType, LenProperties
  <2> QED BY <1>1, <2>1, FlushedType, LenProperties
<1>3. ASSUME NEW i \in DOMAIN Flushed(decoder), i # Len(Flushed(decoder))
      PROVE  Flushed(decoder)[i] # Eos
  <2>1. i \in 1..Len(Shown(decoder.pictures))
    BY <1>2, <1>3, FlushedType, LenProperties
  <2>2. i \in 1..Len(decoder.pictures)
    BY <1>1, <2>1, FlushedType
  <2>3. decoder.pictures[i] \in Nat
    BY <1>1, <2>2, ElementOfSeq
  <2> QED BY <2>1, <2>3, FlushedType DEF Eos, NoPts
<1> QED BY <1>2, <1>3, FlushedType

LEMMA DecodedEnd ==
  ASSUME FullTypes, Idle, NEW packet \in Packet, NEW pts \in Nat, Decode(packet, pts)
  PROVE  \/ emit' = Flushed(decoder) /\ decoder'.eos_sent /\ failed'.decode
         \/ (\A i \in DOMAIN emit' : emit'[i] # Eos) /\ decoder'.eos_sent = decoder.eos_sent
<1>1. failed \in [create : BOOLEAN, decode : BOOLEAN] /\ decoder \in Decoders
  BY DEF FullTypes, CodecTypes, Decoders
<1>2. CASE /\ emit' = Flushed(decoder) /\ decoder' = AfterFlush(decoder)
           /\ failed' = [failed EXCEPT !.decode = TRUE]
  BY <1>1, <1>2, FlushKeeps
<1>3. ASSUME NEW held \in {decoder.pictures, Append(decoder.pictures, pts)},
             \/ emit' = <<>> /\ decoder' = [decoder EXCEPT !.pictures = held]
             \/ /\ held # <<>>
                /\ emit' \in {<<>>, <<Head(held)>>}
                /\ decoder' = [decoder EXCEPT !.pictures = Tail(held)]
      PROVE  (\A i \in DOMAIN emit' : emit'[i] # Eos) /\ decoder'.eos_sent = decoder.eos_sent
  <2>1. held \in Seq(Nat)
    BY <1>1 DEF Decoders
  <2>2. held # <<>> => Head(held) \in Nat
    BY <2>1, HeadTailProperties
  <2>3. \A i \in DOMAIN emit' : emit'[i] # Eos
    BY <1>3, <2>2 DEF Eos, NoPts
  <2>4. decoder'.eos_sent = decoder.eos_sent
    BY <1>1, <1>3 DEF Decoders
  <2> QED BY <2>3, <2>4
<1> QED BY <1>2, <1>3, DecodeCases

EndInv == EosOnce /\ EosInv /\ LastInv
ReadInv == FullTypes /\ CodecInv /\ EndInv

LEMMA EndInit == Init => EndInv
BY DEF Init, EndInv, EosOnce, EosInv, LastInv, EosAhead, SaidBefore, SaidNow, Leaving, Idle, NoDecoder

(* When the end was announced, it was in this session or in an earlier one. *)
LEMMA SaidOnce ==
  ASSUME FullTypes, EosOnce
  PROVE  /\ eos_sent <=> SaidBefore \/ SaidNow
         /\ ~(SaidBefore /\ SaidNow)
         /\ Idle => ~EosAhead
<1>1. \A i \in DOMAIN sent : sent[i].session \in Nat
  <2>1. sent \in Seq(SentFrame)
    BY DEF FullTypes, FlowTypes
  <2>2. \A i \in DOMAIN sent : sent[i] \in SentFrame
    BY <2>1, ElementOfSeq, LenProperties
  <2> QED BY <2>2 DEF SentFrame
<1>2. session \in Nat
  BY DEF FullTypes, ControlTypes
<1>3. \A i \in DOMAIN sent : sent[i].session < session \/ sent[i].session = session
  BY <1>1, <1>2 DEF EosOnce
<1>4. eos_sent <=> SaidBefore \/ SaidNow
  BY <1>3 DEF EosOnce, SaidBefore, SaidNow
<1>5. ~(SaidBefore /\ SaidNow)
  BY <1>1, <1>2 DEF EosOnce, SaidBefore, SaidNow
<1> QED BY <1>4, <1>5 DEF Idle, EosAhead

LEMMA EndsUnchanged ==
  ASSUME EosOnce, UNCHANGED <<emit, sent, eos_sent, session>>
  PROVE  /\ EosOnce' /\ (EosAhead' <=> EosAhead) /\ (Idle' <=> Idle)
         /\ (SaidBefore' <=> SaidBefore) /\ (SaidNow' <=> SaidNow)
BY DEF EosOnce, EosAhead, SaidBefore, SaidNow, Idle

LEMMA SentUnchanged ==
  ASSUME EosOnce, UNCHANGED <<sent, eos_sent, session>>,
         \A i \in DOMAIN emit' : emit'[i] = Eos => i = Len(emit')
  PROVE  /\ EosOnce'
         /\ (SaidBefore' <=> SaidBefore) /\ (SaidNow' <=> SaidNow)
BY DEF EosOnce, SaidBefore, SaidNow

LEMMA EndStepQuiet ==
  ASSUME FullTypes, CodecInv, EndInv,
         \/ CloseBegin \/ CloseJoin \/ PrepareFails \/ PrepareResources \/ LeaveLoop \/ ReadEnd
         \/ Rewind \/ Report \/ Exit \/ Reject \/ DestroyFrame \/ UNCHANGED vars
  PROVE  EndInv'
<1>1. UNCHANGED <<emit, sent, eos_sent, session>>
  BY DEF CloseBegin, CloseJoin, PrepareFails, PrepareResources, LeaveLoop, ReadEnd, Rewind, Report,
         Exit, Reject, DestroyFrame, vars, renderVars, appVars, RenderUnchanged
<1>2. /\ EosOnce' /\ (EosAhead' <=> EosAhead) /\ (Idle' <=> Idle)
      /\ (SaidBefore' <=> SaidBefore) /\ (SaidNow' <=> SaidNow) /\ eos_sent' = eos_sent
  BY <1>1, EndsUnchanged DEF EndInv
<1>3. /\ eos_sent <=> SaidBefore \/ SaidNow
      /\ ~(SaidBefore /\ SaidNow)
      /\ Idle => ~EosAhead
  BY SaidOnce DEF EndInv
<1> USE DEF EosInv, LastInv, Leaving
<1>4. CASE CloseBegin \/ Reject \/ DestroyFrame \/ UNCHANGED vars
  <2>1. UNCHANGED <<pc, decoder, failed, eos_reached, errors>>
    BY <1>4 DEF CloseBegin, Reject, DestroyFrame, vars, codecVars
  <2> QED BY <1>2, <2>1 DEF EndInv
<1>5. CASE CloseJoin
  <2>1. pc = "ended" /\ pc' = "off" /\ UNCHANGED <<decoder, failed, eos_reached, errors>>
    BY <1>5 DEF CloseJoin, codecVars
  <2> QED BY <1>2, <1>3, <2>1 DEF EndInv, CodecInv
<1>6. CASE PrepareFails
  <2>1. pc = "prepare" /\ pc' = "failed" /\ UNCHANGED <<decoder, failed, eos_reached, errors>>
    BY <1>6 DEF PrepareFails, codecVars
  <2> QED BY <1>2, <1>3, <2>1 DEF EndInv, CodecInv
<1>7. CASE PrepareResources
  <2>1. pc = "prepare" /\ pc' \in {"loop", "failed"} /\ UNCHANGED <<eos_reached, errors>>
    BY <1>7 DEF PrepareResources
  <2>2. ~decoder'.eos_sent
    <3>1. \/ decoder' = NoDecoder
          \/ \E i \in BOOLEAN : decoder' = [NoDecoder EXCEPT !.made = TRUE, !.instance = i]
      BY <1>7, Zenon DEF PrepareResources, Created
    <3>2. \A i \in BOOLEAN : ~[NoDecoder EXCEPT !.made = TRUE, !.instance = i].eos_sent
      BY DEF NoDecoder
    <3>3. ~NoDecoder.eos_sent
      BY DEF NoDecoder
    <3> QED BY <3>1, <3>2, <3>3, Zenon
  <2> QED BY <1>2, <1>3, <2>1, <2>2 DEF EndInv, CodecInv
<1>8. CASE LeaveLoop
  <2>1. pc = "loop" /\ pc' = "clear" /\ UNCHANGED <<decoder, failed, eos_reached, errors>>
    BY <1>8 DEF LeaveLoop, codecVars
  <2> QED BY <1>2, <1>3, <2>1 DEF EndInv, CodecInv
<1>9. CASE ReadEnd
  <2>1. pc = "loop" /\ pc' = "check" /\ UNCHANGED <<decoder, failed, errors>>
    BY <1>9 DEF ReadEnd
  <2> QED BY <1>2, <1>3, <2>1 DEF EndInv, CodecInv
<1>10. CASE Rewind
  <2>1. /\ pc = "rewind" /\ UNCHANGED <<decoder, failed, errors>>
        /\ \/ pc' = "loop" /\ eos_reached' = FALSE
           \/ pc' = "failed" /\ eos_reached' = eos_reached
    BY <1>10 DEF Rewind
  <2> QED BY <1>2, <1>3, <2>1 DEF EndInv, CodecInv
<1>11. CASE Report
  <2>1. pc = "report" /\ pc' = "exit" /\ errors' /\ UNCHANGED <<decoder, failed, eos_reached>>
    BY <1>11 DEF Report, codecVars
  <2> QED BY <1>2, <1>3, <2>1 DEF EndInv, CodecInv
<1>12. CASE Exit
  <2>1. pc = "exit" /\ Idle /\ pc' = "ended" /\ UNCHANGED <<decoder, failed, eos_reached, errors>>
    BY <1>12 DEF Exit, codecVars
  <2> QED BY <1>2, <1>3, <2>1 DEF EndInv, CodecInv
<1> QED BY <1>4, <1>5, <1>6, <1>7, <1>8, <1>9, <1>10, <1>11, <1>12

LEMMA EndStepOpen ==
  ASSUME FullTypes, CodecInv, EndInv, Open
  PROVE  EndInv'
<1>1. /\ pc = "off" /\ pc' = "prepare" /\ session' = session + 1
      /\ UNCHANGED <<emit, sent, eos_sent, decoder, failed, eos_reached>>
  BY DEF Open, codecVars, renderVars, FullTypes, ControlTypes
<1>2. Idle /\ Idle' /\ decoder = NoDecoder /\ ~EosAhead /\ ~EosAhead' /\ ~decoder'.eos_sent
  BY <1>1, EmptySeq DEF CodecInv, Idle, EosAhead, NoDecoder
<1>3. \A i \in DOMAIN sent : sent[i].session \in Nat /\ sent[i].session <= session
  <2>1. sent \in Seq(SentFrame)
    BY DEF FullTypes, FlowTypes
  <2>2. \A i \in DOMAIN sent : sent[i] \in SentFrame
    BY <2>1, ElementOfSeq, LenProperties
  <2> QED BY <2>2 DEF SentFrame, EndInv, EosOnce
<1>4. session \in Nat
  BY DEF FullTypes, ControlTypes
<1>5. EosOnce'
  BY <1>1, <1>3, <1>4 DEF EndInv, EosOnce
<1>6. ~SaidNow'
  BY <1>1, <1>3, <1>4 DEF SaidNow
<1>7. SaidBefore' <=> eos_sent
  BY <1>1, <1>3, <1>4 DEF SaidBefore, EndInv, EosOnce
<1>8. eos_sent <=> SaidBefore \/ SaidNow
  BY SaidOnce DEF EndInv
<1> QED BY <1>1, <1>2, <1>5, <1>6, <1>7, <1>8 DEF EndInv, EosInv, LastInv

LEMMA EndStepRead ==
  ASSUME FullTypes, CodecInv, EndInv, ReadPacket
  PROVE  EndInv'
<1> DEFINE packet == file[NextPacket]
<1>1. /\ pc = "loop" /\ pc' = "check"
      /\ UNCHANGED <<sent, eos_sent, session, eos_reached, errors>>
      /\ Decode(packet, Stamped(parser, packet).pts)
  BY DEF ReadPacket, RenderUnchanged, appVars
<1>2. packet \in Packet /\ Stamped(parser, packet).pts \in Nat
  BY NextPacketType, StampedType DEF ReadPacket
<1>3. Idle
  BY <1>1 DEF CodecInv
<1>4. \/ emit' = Flushed(decoder) /\ decoder'.eos_sent /\ failed'.decode
      \/ (\A i \in DOMAIN emit' : emit'[i] # Eos) /\ decoder'.eos_sent = decoder.eos_sent
  BY <1>1, <1>2, <1>3, DecodedEnd
<1> HIDE DEF packet
<1>5. \A i \in DOMAIN emit' : emit'[i] = Eos => i = Len(emit')
  BY <1>4, FlushedEnd
<1>6. EosOnce' /\ (SaidBefore' <=> SaidBefore) /\ (SaidNow' <=> SaidNow)
  BY <1>1, <1>5, SentUnchanged DEF EndInv
<1>7. (eos_sent <=> SaidBefore \/ SaidNow) /\ ~EosAhead
  BY <1>3, SaidOnce DEF EndInv
<1>8. \/ EosAhead' /\ decoder'.eos_sent /\ failed'.decode
      \/ ~EosAhead' /\ decoder'.eos_sent = decoder.eos_sent
  BY <1>4, FlushedEnd DEF EosAhead
<1> QED BY <1>1, <1>3, <1>6, <1>7, <1>8 DEF EndInv, EosInv, LastInv, Leaving

LEMMA EndStepCheck ==
  ASSUME FullTypes, CodecInv, EndInv, Check
  PROVE  EndInv'
<1>1. /\ pc = "check" /\ Idle /\ decoder.made
      /\ UNCHANGED <<sent, eos_sent, session, eos_reached, errors, failed>>
  BY DEF Check, RenderUnchanged, appVars, CodecInv
<1>2. (eos_sent <=> SaidBefore \/ SaidNow) /\ ~(SaidBefore /\ SaidNow) /\ ~EosAhead
  BY <1>1, SaidOnce DEF EndInv
<1>3. CASE UNCHANGED <<emit, decoder>>
  <2>1. /\ EosOnce' /\ (EosAhead' <=> EosAhead) /\ (Idle' <=> Idle)
        /\ (SaidBefore' <=> SaidBefore) /\ (SaidNow' <=> SaidNow)
    BY <1>1, <1>3, EndsUnchanged DEF EndInv
  <2>2. \/ pc' = "clear"
        \/ pc' = "rewind" /\ eos_reached
        \/ pc' = "loop" /\ ~eos_reached /\ ~failed.decode
    BY DEF Check, FlushAtEnd
  <2> QED BY <1>1, <1>2, <1>3, <2>1, <2>2 DEF EndInv, EosInv, LastInv, Leaving, CodecInv
<1>4. CASE /\ eos_reached /\ pc' = "clear"
           /\ emit' = Flushed(decoder) /\ decoder' = AfterFlush(decoder)
  <2>1. EosAhead' /\ (\A i \in DOMAIN emit' : emit'[i] = Eos => i = Len(emit'))
    BY <1>4, FlushedEnd DEF EosAhead
  <2>2. EosOnce' /\ (SaidBefore' <=> SaidBefore) /\ (SaidNow' <=> SaidNow)
    BY <1>1, <2>1, SentUnchanged DEF EndInv
  <2>3. decoder'.eos_sent /\ decoder'.instance
    BY <1>1, <1>4, FlushKeeps DEF CodecInv
  <2>4. ~SaidNow
    BY <1>1, <1>2, <1>4 DEF EndInv, LastInv, Leaving
  <2> QED BY <1>1, <1>4, <2>1, <2>2, <2>3, <2>4 DEF EndInv, EosInv, LastInv, Leaving
<1> QED BY <1>1, <1>3, <1>4 DEF Check, FlushAtEnd

LEMMA EndStepClear ==
  ASSUME FullTypes, CodecInv, EndInv, Clear
  PROVE  EndInv'
<1>1. /\ pc \in {"clear", "failed"} /\ Idle /\ decoder' = NoDecoder
      /\ pc' = IF pc = "clear" THEN "exit" ELSE "report"
      /\ UNCHANGED <<sent, eos_sent, session, eos_reached, errors>>
  BY DEF Clear, RenderUnchanged, appVars
<1>2. (eos_sent <=> SaidBefore \/ SaidNow) /\ ~(SaidBefore /\ SaidNow) /\ ~EosAhead
  BY <1>1, SaidOnce DEF EndInv
<1>3. ~decoder'.eos_sent
  BY <1>1 DEF NoDecoder
<1>4. CASE decoder.instance /\ ~decoder.eos_sent
  <2>1. EosAhead' /\ (\A i \in DOMAIN emit' : emit'[i] = Eos => i = Len(emit'))
    BY <1>4, FlushedEnd DEF EosAhead, Clear, FlushedByDestroy
  <2>2. EosOnce' /\ (SaidBefore' <=> SaidBefore) /\ (SaidNow' <=> SaidNow)
    BY <1>1, <2>1, SentUnchanged DEF EndInv
  <2>3. ~SaidNow
    BY <1>1, <1>4 DEF EndInv, LastInv, Leaving
  <2> QED BY <1>1, <1>3, <2>1, <2>2, <2>3 DEF EndInv, EosInv, LastInv
<1>5. CASE ~decoder.instance \/ decoder.eos_sent
  <2>1. emit' = emit
    BY <1>1, <1>5 DEF Clear, FlushedByDestroy, Idle
  <2>2. /\ EosOnce' /\ (EosAhead' <=> EosAhead) /\ (Idle' <=> Idle)
        /\ (SaidBefore' <=> SaidBefore) /\ (SaidNow' <=> SaidNow)
    BY <1>1, <2>1, EndsUnchanged DEF EndInv
  <2>3. decoder.instance => eos_sent
    BY <1>2, <1>5 DEF EndInv, EosInv
  <2> QED BY <1>1, <1>2, <1>3, <1>5, <2>2, <2>3 DEF EndInv, EosInv, LastInv, CodecInv
<1> QED BY <1>4, <1>5

(* A picture is passed on, or the end.                                     *)
LEMMA PassedPicture ==
  ASSUME FullTypes, EosOnce, ~Idle, Head(emit) # Eos, emit' = Tail(emit)
  PROVE  /\ EosAhead' <=> EosAhead
         /\ \A i \in DOMAIN emit' : emit'[i] = Eos => i = Len(emit')
<1>1. /\ DOMAIN emit = 1..Len(emit) /\ Len(emit) \in Nat \ {0} /\ emit[1] # Eos
      /\ DOMAIN emit' = 1..Len(emit) - 1 /\ Len(emit') = Len(emit) - 1
      /\ \A i \in 1..Len(emit) - 1 : emit'[i] = emit[i + 1]
  BY PassTypes, LenProperties DEF FullTypes, RenderTypes
<1>2. ASSUME NEW i \in DOMAIN emit', emit'[i] = Eos PROVE i = Len(emit') /\ EosAhead
  <2>1. i + 1 \in DOMAIN emit /\ emit[i + 1] = Eos
    BY <1>1, <1>2
  <2> QED BY <1>1, <2>1 DEF EosOnce, EosAhead
<1>3. ASSUME NEW i \in DOMAIN emit, emit[i] = Eos PROVE EosAhead'
  <2>1. i - 1 \in DOMAIN emit' /\ emit'[i - 1] = emit[i]
    BY <1>1, <1>3
  <2> QED BY <1>3, <2>1 DEF EosAhead
<1> QED BY <1>2, <1>3 DEF EosAhead

LEMMA PassedEnd ==
  ASSUME FullTypes, EosOnce, ~Idle, Head(emit) = Eos, emit' = Tail(emit)
  PROVE  Idle' /\ EosAhead /\ ~EosAhead' /\ \A i \in DOMAIN emit' : emit'[i] # Eos
<1>1. DOMAIN emit = 1..Len(emit) /\ Len(emit) \in Nat \ {0} /\ emit[1] = Eos
  BY PassTypes, LenProperties DEF FullTypes, RenderTypes
<1>2. Len(emit) = 1
  BY <1>1 DEF EosOnce
<1>3. emit' \in Seq(Pts) /\ Len(emit') = 0
  BY <1>2, PassTypes
<1>4. emit' = <<>>
  BY <1>3, EmptySeq
<1> QED BY <1>1, <1>4 DEF Idle, EosAhead

(* One more frame was sent. *)
LEMMA AppendedFrame ==
  ASSUME FullTypes, EosOnce, NEW frame \in SentFrame, frame.session = session,
         sent' = Append(sent, frame), session' = session
  PROVE  /\ DOMAIN sent = 1..Len(sent) /\ Len(sent) \in Nat
         /\ DOMAIN sent' = 1..Len(sent) + 1
         /\ sent'[Len(sent) + 1] = frame /\ \A i \in 1..Len(sent) : sent'[i] = sent[i]
         /\ \A i \in DOMAIN sent' : sent'[i].session <= session
         /\ SaidBefore' <=> SaidBefore
         /\ SaidNow' <=> SaidNow \/ frame.eos
<1>1. sent \in Seq(SentFrame) /\ sent' \in Seq(SentFrame) /\ session \in Nat
  BY AppendTypes DEF FullTypes, FlowTypes, ControlTypes
<1>2. /\ DOMAIN sent = 1..Len(sent) /\ Len(sent) \in Nat /\ DOMAIN sent' = 1..Len(sent) + 1
      /\ sent'[Len(sent) + 1] = frame /\ \A i \in 1..Len(sent) : sent'[i] = sent[i]
  BY <1>1, AppendTypes, LenProperties DEF FullTypes
<1>3. \A i \in DOMAIN sent' : i \in DOMAIN sent \/ i = Len(sent) + 1
  BY <1>2
<1>4. \A i \in DOMAIN sent' : sent'[i].session <= session
  BY <1>1, <1>2, <1>3 DEF EosOnce
<1>5. SaidBefore' <=> SaidBefore
  BY <1>1, <1>2, <1>3 DEF SaidBefore
<1>6. SaidNow' <=> SaidNow \/ frame.eos
  <2>1. SaidNow => SaidNow'
    BY <1>2 DEF SaidNow
  <2>2. frame.eos => SaidNow'
    BY <1>2 DEF SaidNow
  <2>3. SaidNow' => SaidNow \/ frame.eos
    BY <1>2, <1>3 DEF SaidNow
  <2> QED BY <2>1, <2>2, <2>3
<1> QED BY <1>2, <1>4, <1>5, <1>6

LEMMA EndStepPicture ==
  ASSUME FullTypes, CodecInv, EndInv, Discard \/ SendFrame \/ LoseFrame
  PROVE  EndInv'
<1>1. /\ ~Idle /\ Head(emit) # Eos /\ emit' = Tail(emit)
      /\ UNCHANGED <<eos_sent, session, pc, decoder, failed, eos_reached, errors>>
  BY DEF Discard, SendFrame, LoseFrame, Wanted, Ahead, Pass, appVars, codecVars
<1>2. (EosAhead' <=> EosAhead) /\ \A i \in DOMAIN emit' : emit'[i] = Eos => i = Len(emit')
  BY <1>1, PassedPicture DEF EndInv
<1>3. EosOnce' /\ (SaidBefore' <=> SaidBefore) /\ (SaidNow' <=> SaidNow)
  <2>1. CASE Discard \/ LoseFrame
    <3>1. UNCHANGED sent
      BY <2>1 DEF Discard, LoseFrame
    <3> QED BY <1>1, <1>2, <3>1, SentUnchanged DEF EndInv
  <2>2. CASE SendFrame
    <3> DEFINE frame == [session |-> session, eos |-> FALSE, pts |-> Head(emit)]
    <3>1. frame \in SentFrame /\ frame.session = session /\ frame.eos = FALSE
      BY <1>1, PassTypes DEF SentFrame, FullTypes, ControlTypes
    <3>2. sent' = Append(sent, frame)
      BY <2>2 DEF SendFrame
    <3> HIDE DEF frame
    <3>3. /\ DOMAIN sent = 1..Len(sent) /\ Len(sent) \in Nat
          /\ DOMAIN sent' = 1..Len(sent) + 1
          /\ sent'[Len(sent) + 1] = frame /\ \A i \in 1..Len(sent) : sent'[i] = sent[i]
          /\ \A i \in DOMAIN sent' : sent'[i].session <= session
          /\ (SaidBefore' <=> SaidBefore) /\ (SaidNow' <=> SaidNow)
      BY <1>1, <3>1, <3>2, AppendedFrame DEF EndInv
    <3>4. \A i \in DOMAIN sent' : sent'[i].eos => i \in DOMAIN sent /\ sent'[i] = sent[i]
      BY <3>1, <3>3
    <3>5. eos_sent' <=> \E i \in DOMAIN sent' : sent'[i].eos
      BY <1>1, <3>3, <3>4 DEF EndInv, EosOnce
    <3>6. \A i, j \in DOMAIN sent' : sent'[i].eos /\ sent'[j].eos => i = j
      BY <3>4 DEF EndInv, EosOnce
    <3> QED BY <1>1, <1>2, <3>3, <3>5, <3>6 DEF EosOnce
  <2> QED BY <2>1, <2>2
<1>4. ~SaidNow
  BY <1>1 DEF EndInv, LastInv
<1> QED BY <1>1, <1>2, <1>3, <1>4 DEF EndInv, EosInv, LastInv, Leaving

LEMMA EndStepFlowEos ==
  ASSUME FullTypes, CodecInv, EndInv, SendFlowEos
  PROVE  EndInv'
<1>1. /\ ~Idle /\ Head(emit) = Eos /\ emit' = Tail(emit) /\ eos_sent'
      /\ UNCHANGED <<session, pc, decoder, failed, eos_reached, errors>>
  BY DEF SendFlowEos, Ahead, Pass, appVars, codecVars
<1>2. Idle' /\ EosAhead /\ ~EosAhead' /\ \A i \in DOMAIN emit' : emit'[i] # Eos
  BY <1>1, PassedEnd DEF EndInv
<1>3. (eos_sent <=> SaidBefore \/ SaidNow) /\ ~SaidNow
  BY <1>1, SaidOnce DEF EndInv, LastInv
<1>4. CASE eos_sent
  <2>1. UNCHANGED <<sent, eos_sent, session>>
    BY <1>1, <1>4 DEF SendFlowEos
  <2>2. EosOnce' /\ (SaidBefore' <=> SaidBefore) /\ (SaidNow' <=> SaidNow)
    BY <1>2, <2>1, SentUnchanged DEF EndInv
  <2> QED BY <1>1, <1>2, <1>3, <1>4, <2>2 DEF EndInv, EosInv, LastInv, Leaving
<1>5. CASE ~eos_sent
  <2> DEFINE frame == [session |-> session, eos |-> TRUE, pts |-> NoPts]
  <2>1. frame \in SentFrame /\ frame.session = session /\ frame.eos = TRUE
    BY DEF SentFrame, FullTypes, ControlTypes, Pts
  <2>2. sent' = Append(sent, frame)
    BY <1>5 DEF SendFlowEos
  <2> HIDE DEF frame
  <2>3. /\ DOMAIN sent = 1..Len(sent) /\ Len(sent) \in Nat
        /\ DOMAIN sent' = 1..Len(sent) + 1
        /\ sent'[Len(sent) + 1] = frame /\ \A i \in 1..Len(sent) : sent'[i] = sent[i]
        /\ \A i \in DOMAIN sent' : sent'[i].session <= session
        /\ (SaidBefore' <=> SaidBefore) /\ SaidNow'
    BY <1>1, <2>1, <2>2, AppendedFrame DEF EndInv
  <2>4. \A i \in DOMAIN sent' : sent'[i].eos <=> i = Len(sent) + 1
    BY <1>5, <2>1, <2>3 DEF EndInv, EosOnce
  <2>5. EosOnce'
    <3>1. \E i \in DOMAIN sent' : sent'[i].eos
      BY <2>3, <2>4
    <3>2. \A i, j \in DOMAIN sent' : sent'[i].eos /\ sent'[j].eos => i = j
      BY <2>4
    <3> QED BY <1>1, <1>2, <2>3, <3>1, <3>2 DEF EosOnce
  <2>6. ~SaidBefore
    BY <1>3, <1>5
  <2> QED BY <1>1, <1>2, <2>3, <2>5, <2>6 DEF EndInv, EosInv, LastInv, Leaving
<1> QED BY <1>4, <1>5

LEMMA ReadStep == ReadInv /\ [Next]_vars => ReadInv'
<1> SUFFICES ASSUME FullTypes, CodecInv, EndInv, [Next]_vars PROVE EndInv'
  BY TypesStep, CodecStep DEF ReadInv
<1> QED BY EndStepQuiet, EndStepOpen, EndStepRead, EndStepCheck, EndStepClear, EndStepPicture,
           EndStepFlowEos DEF Next, Loop, Render

LEMMA ReadInvariant == Spec => []ReadInv
<1>1. Init => ReadInv
  BY TypesInit, CodecInit, EndInit DEF ReadInv
<1> QED BY <1>1, ReadStep, PTL DEF Spec

(***************************************************************************)
(* The contract                                                            *)
(***************************************************************************)
Phase == IF pc = "off" THEN "closed" ELSE IF pc = "ended" THEN "ended" ELSE "open"
Outbox == [i \in DOMAIN sent |-> [session |-> sent[i].session, eos |-> sent[i].eos]]

LEMMA ContractEnds ==
  /\ Contract!EosSaid <=> (\E i \in DOMAIN sent : sent[i].eos)
  /\ Contract!EosSaidNow <=> SaidNow
BY DEF Contract!EosSaid, Contract!EosSaidNow, SaidNow

LEMMA SendRefines ==
  ASSUME ReadInv, NEW frame \in SentFrame, frame.session = session, sent' = Append(sent, frame),
         UNCHANGED <<pc, session, errors>>, Phase = "open", ~SaidNow, frame.eos => ~eos_sent
  PROVE  Contract!ContractNext
<1>1. sent \in Seq(SentFrame) /\ frame.eos \in BOOLEAN
  BY DEF ReadInv, FullTypes, FlowTypes, SentFrame
<1>2. Outbox' = Append(Outbox, [session |-> session, eos |-> frame.eos])
  <2> DEFINE Kept(f) == [session |-> f.session, eos |-> f.eos]
             Promised == [session : Nat, eos : BOOLEAN]
  <2>1. /\ DOMAIN sent = 1..Len(sent) /\ Len(sent) \in Nat
        /\ sent' \in Seq(SentFrame) /\ Len(sent') = Len(sent) + 1 /\ DOMAIN sent' = 1..Len(sent) + 1
        /\ sent'[Len(sent) + 1] = frame /\ \A i \in 1..Len(sent) : sent'[i] = sent[i]
    BY <1>1, AppendTypes, LenProperties DEF ReadInv, FullTypes
  <2>2. \A i \in 1..Len(sent) : sent[i] \in SentFrame
    BY <1>1, <2>1, ElementOfSeq
  <2>3. \A i \in 1..Len(sent) : Kept(sent[i]) \in Promised
    BY <2>2 DEF SentFrame
  <2>4. Kept(frame) \in Promised /\ Kept(frame) = [session |-> session, eos |-> frame.eos]
    BY DEF SentFrame
  <2> HIDE DEF Kept, Promised
  <2>5. Outbox = [i \in 1..Len(sent) |-> Kept(sent[i])]
    BY <2>1 DEF Outbox, Kept
  <2>6. Outbox \in Seq(Promised) /\ Len(Outbox) = Len(sent)
    BY <2>1, <2>3, <2>5
  <2>7. Outbox' = [i \in 1..Len(sent) + 1 |-> Kept(sent'[i])]
    BY <2>1 DEF Outbox, Kept
  <2>8. /\ Append(Outbox, Kept(frame)) \in Seq(Promised)
        /\ Len(Append(Outbox, Kept(frame))) = Len(sent) + 1
        /\ Append(Outbox, Kept(frame))[Len(sent) + 1] = Kept(frame)
        /\ \A i \in 1..Len(sent) : Append(Outbox, Kept(frame))[i] = Kept(sent[i])
    BY <2>1, <2>4, <2>5, <2>6
  <2>9. Outbox' \in Seq(Promised) /\ Len(Outbox') = Len(sent) + 1
    <3>1. \A i \in 1..Len(sent) + 1 : Kept(sent'[i]) \in Promised
      BY <2>1, <2>3, <2>4
    <3> QED BY <2>1, <2>7, <3>1
  <2>10. \A i \in 1..Len(sent) + 1 : Outbox'[i] = Append(Outbox, Kept(frame))[i]
    BY <2>1, <2>7, <2>8
  <2>11. Outbox' = Append(Outbox, Kept(frame))
    BY <2>8, <2>9, <2>10, SeqEqual
  <2> QED BY <2>4, <2>11
<1>3. Contract!Send(frame.eos)
  <2>1. frame.eos => ~Contract!EosSaid
    BY ContractEnds DEF ReadInv, EndInv, EosOnce
  <2>2. ~Contract!EosSaidNow
    BY ContractEnds
  <2>3. Phase' = Phase
    BY DEF Phase
  <2> QED BY <1>2, <2>1, <2>2, <2>3 DEF Contract!Send, Phase, Outbox
<1> QED BY <1>1, <1>3 DEF Contract!ContractNext

(* What the contract sees of a step that sends no frame. *)
LEMMA QuietRefines ==
  ASSUME UNCHANGED <<sent, session, errors>>, Phase' = Phase
  PROVE  UNCHANGED Contract!contractVars
BY DEF Contract!contractVars, Phase

LEMMA PictureRefines ==
  ASSUME ReadInv, SendFrame
  PROVE  Contract!ContractNext
<1> DEFINE frame == [session |-> session, eos |-> FALSE, pts |-> Head(emit)]
<1>1. /\ ~Idle /\ Head(emit) # Eos /\ sent' = Append(sent, frame)
      /\ UNCHANGED <<pc, session, errors>>
  BY DEF SendFrame, Wanted, Ahead, Pass, appVars
<1>2. frame \in SentFrame /\ frame.session = session /\ frame.eos = FALSE
  BY <1>1, PassTypes DEF SentFrame, ReadInv, FullTypes, ControlTypes
<1>3. Phase = "open" /\ ~SaidNow
  BY <1>1 DEF ReadInv, CodecInv, EndInv, LastInv, Phase
<1> HIDE DEF frame
<1> QED BY <1>1, <1>2, <1>3, SendRefines

LEMMA FlowEosRefines ==
  ASSUME ReadInv, SendFlowEos
  PROVE  [Contract!ContractNext]_(Contract!contractVars)
<1> DEFINE frame == [session |-> session, eos |-> TRUE, pts |-> NoPts]
<1>1. ~Idle /\ UNCHANGED <<pc, session, errors>>
  BY DEF SendFlowEos, Ahead, Pass, appVars
<1>2. Phase = "open" /\ ~SaidNow /\ Phase' = Phase
  BY <1>1 DEF ReadInv, CodecInv, EndInv, LastInv, Phase
<1>3. CASE eos_sent
  <2>1. UNCHANGED sent
    BY <1>3 DEF SendFlowEos
  <2> QED BY <1>1, <1>2, <2>1, QuietRefines
<1>4. CASE ~eos_sent
  <2>1. sent' = Append(sent, frame)
    BY <1>4 DEF SendFlowEos
  <2>2. frame \in SentFrame /\ frame.session = session
    BY DEF SentFrame, ReadInv, FullTypes, ControlTypes, Pts
  <2> HIDE DEF frame
  <2> QED BY <1>1, <1>2, <1>4, <2>1, <2>2, SendRefines
<1> QED BY <1>3, <1>4

LEMMA ThreadRefines ==
  ASSUME ReadInv, Loop
  PROVE  [Contract!ContractNext]_(Contract!contractVars)
<1>1. CASE Report
  <2>1. /\ Phase = "open" /\ Phase' = "open" /\ errors' /\ UNCHANGED <<sent, session>>
    BY <1>1 DEF Report, Phase, RenderUnchanged, appVars
  <2>2. errors' = TRUE
    BY <1>1 DEF Report
  <2>3. Contract!ReportError
    BY <2>1, <2>2 DEF Contract!ReportError, Phase
  <2> QED BY <2>3 DEF Contract!ContractNext
<1>2. CASE Exit
  <2>1. /\ pc = "exit" /\ pc' = "ended" /\ Idle /\ UNCHANGED <<sent, session, errors>>
    BY <1>2 DEF Exit, RenderUnchanged, appVars
  <2>2. Contract!EosSaid \/ errors
    BY <2>1, ContractEnds DEF ReadInv, EndInv, EosOnce, EosInv, EosAhead, Idle
  <2>3. Contract!End
    BY <2>1, <2>2 DEF Contract!End
  <2> QED BY <2>3 DEF Contract!ContractNext
<1>3. CASE PrepareFails \/ PrepareResources \/ LeaveLoop \/ ReadPacket \/ ReadEnd
           \/ Check \/ Rewind \/ Clear
  <2>1. UNCHANGED <<sent, session, errors>>
    BY <1>3 DEF PrepareFails, PrepareResources, LeaveLoop, ReadPacket, ReadEnd, Check, Rewind,
                Clear, RenderUnchanged, appVars
  <2>2. Phase = "open" /\ Phase' = "open"
    BY <1>3 DEF PrepareFails, PrepareResources, LeaveLoop, ReadPacket, ReadEnd, Check, FlushAtEnd,
                Rewind, Clear, Phase
  <2> QED BY <2>1, <2>2, QuietRefines
<1> QED BY <1>1, <1>2, <1>3 DEF Loop

LEMMA StepRefines ==
  ReadInv /\ [Next]_vars => [Contract!ContractNext]_(Contract!contractVars)
<1> SUFFICES ASSUME ReadInv, [Next]_vars
             PROVE  [Contract!ContractNext]_(Contract!contractVars)
  OBVIOUS
<1>1. CASE Open
  <2>1. /\ pc = "off" /\ pc' = "prepare" /\ session' = session + 1 /\ errors' = FALSE
        /\ UNCHANGED sent
    BY <1>1 DEF Open, renderVars, ReadInv, FullTypes, ControlTypes
  <2>2. Contract!BeOpened
    BY <2>1 DEF Contract!BeOpened
  <2> QED BY <2>2 DEF Contract!ContractNext
<1>2. CASE CloseJoin
  <2>1. pc = "ended" /\ pc' = "off" /\ UNCHANGED <<sent, session, errors>>
    BY <1>2 DEF CloseJoin, renderVars
  <2>2. Contract!BeClosed
    BY <2>1 DEF Contract!BeClosed
  <2> QED BY <2>2 DEF Contract!ContractNext
<1>3. CASE CloseBegin \/ Discard \/ LoseFrame \/ Reject \/ DestroyFrame \/ UNCHANGED vars
  <2>1. UNCHANGED <<sent, session, errors, pc>>
    BY <1>3 DEF CloseBegin, Discard, LoseFrame, Reject, DestroyFrame, Pass, vars, appVars, renderVars
  <2> QED BY <2>1, QuietRefines DEF Phase
<1> QED BY <1>1, <1>2, <1>3, PictureRefines, FlowEosRefines, ThreadRefines DEF Next, Render

(* Of every file and whatever ends its thread - the file, the codec, an    *)
(* error or Close - the handler keeps what SourceContract promises: frames *)
(* never follow the EOS frame of their opening, there is one, and the      *)
(* thread does not end before it was sent or an error was reported.        *)
THEOREM ContractKept == Spec => KeepsContract
<1>1. Init => Contract!ContractInit
  <2>1. SUFFICES ASSUME Init PROVE Contract!ContractInit
    OBVIOUS
  <2>2. Outbox = <<>>
    BY <2>1 DEF Init, Outbox
  <2> QED BY <2>1, <2>2 DEF Init, Outbox, Contract!ContractInit
<1>2. ReadInv /\ [Next]_vars => [Contract!ContractNext]_(Contract!contractVars)
  BY StepRefines
<1> QED BY <1>1, <1>2, ReadInvariant, PTL DEF KeepsContract, Spec, Contract!ContractSpec

(***************************************************************************)
(* The numbers of frames                                                   *)
(***************************************************************************)

(* What is compared are numbers. *)
LEMMA NumberTypes ==
  ASSUME FullTypes
  PROVE  /\ \A i \in DOMAIN sent : sent[i].pts \in Int
         /\ \A i \in DOMAIN emit : emit[i] \in Int
         /\ DOMAIN emit = 1..Len(emit) /\ Len(emit) \in Nat
         /\ \A i \in DOMAIN decoder.pictures : decoder.pictures[i] \in Nat
         /\ decoder.pictures \in Seq(Nat)
         /\ parser.pts \in Nat
<1>1. sent \in Seq(SentFrame) /\ emit \in Seq(Pts) /\ decoder.pictures \in Seq(Nat) /\ parser.pts \in Nat
  BY DEF FullTypes, FlowTypes, RenderTypes, CodecTypes
<1>2. \A x \in Pts : x \in Int
  BY DEF Pts, NoPts
<1>3. \A i \in DOMAIN sent : sent[i] \in SentFrame
  BY <1>1, ElementOfSeq, LenProperties
<1>4. \A i \in DOMAIN emit : emit[i] \in Pts
  BY <1>1, ElementOfSeq, LenProperties
<1> QED BY <1>1, <1>2, <1>3, <1>4, ElementOfSeq, LenProperties DEF SentFrame

LEMMA NumberInit == Init => NumberInv
BY DEF Init, NumberInv, DataSent, DataAhead, Growing, Below, NoDecoder

(* What is sent, handed out and kept stays, or a decoder that keeps        *)
(* nothing is replaced.                                                    *)
LEMMA NumbersStay ==
  ASSUME FullTypes, FullTypes', NumberInv, UNCHANGED <<file, sent, emit>>,
         decoder'.pictures \in {decoder.pictures, <<>>}, parser'.pts >= parser.pts
  PROVE  NumberInv'
<1> SUFFICES ASSUME Unnumbered' PROVE NumberInv!2'
  BY DEF NumberInv
<1>1. Unnumbered /\ DataSent' = DataSent /\ DataAhead' = DataAhead
  BY DEF Unnumbered, DataSent, DataAhead
<1>2. NumberInv!2
  BY <1>1 DEF NumberInv
<1>3. DataSent \subseteq DOMAIN sent /\ DataAhead \subseteq DOMAIN emit /\ parser'.pts \in Nat
  BY NumberTypes DEF DataSent, DataAhead, FullTypes, CodecTypes
<1>4. \A i \in DOMAIN decoder'.pictures :
        i \in DOMAIN decoder.pictures /\ decoder'.pictures[i] = decoder.pictures[i]
  OBVIOUS
<1>5. /\ \A i \in DataSent' : sent'[i].pts < parser'.pts
      /\ \A i \in DataAhead' : emit'[i] < parser'.pts
      /\ Below(decoder'.pictures, parser'.pts)
  BY <1>1, <1>2, <1>3, <1>4, NumberTypes DEF Below
<1>6. Growing(decoder'.pictures)
  BY <1>2, <1>4 DEF Growing
<1> QED BY <1>1, <1>2, <1>4, <1>5, <1>6

(* Some of what a decoder holds is handed out, in order, from the front:   *)
(* the rest, if any is kept, begins with the element after k.              *)
LEMMA NumbersHandedOut ==
  ASSUME FullTypes, FullTypes', UNCHANGED <<file, sent>>, NEW held \in Seq(Nat), NEW k \in Nat,
         Unnumbered =>
           /\ \A i, j \in DataSent : i < j => sent[i].pts < sent[j].pts
           /\ Growing(held)
           /\ \A i \in DataSent : \A j \in DOMAIN held : sent[i].pts < held[j]
           /\ \A i \in DataSent : sent[i].pts < parser'.pts
           /\ Below(held, parser'.pts),
         \A i \in DataAhead' : i \in DOMAIN held /\ emit'[i] = held[i],
         \A j \in DOMAIN decoder'.pictures : j + k \in DOMAIN held /\ decoder'.pictures[j] = held[j + k],
         \A i \in DataAhead' : \A j \in DOMAIN decoder'.pictures : i < j + k
  PROVE  NumberInv'
<1> SUFFICES ASSUME Unnumbered' PROVE NumberInv!2'
  BY DEF NumberInv
<1>1. Unnumbered /\ DataSent' = DataSent
  BY DEF Unnumbered, DataSent
<1>2. DOMAIN decoder'.pictures \subseteq Nat
  BY LenProperties DEF FullTypes, CodecTypes
<1>3. \A i, j \in DataAhead' : i < j => emit'[i] < emit'[j]
  BY <1>1 DEF Growing
<1>4. Growing(decoder'.pictures)
  <2>1. \A i, j \in DOMAIN decoder'.pictures : i < j => i + k < j + k
    BY <1>2
  <2> QED BY <1>1, <2>1 DEF Growing
<1>5. \A i \in DataAhead' : \A j \in DOMAIN decoder'.pictures : emit'[i] < decoder'.pictures[j]
  BY <1>1 DEF Growing
<1>6. /\ \A i \in DataAhead' : emit'[i] < parser'.pts
      /\ Below(decoder'.pictures, parser'.pts)
  BY <1>1 DEF Below
<1> QED BY <1>1, <1>3, <1>4, <1>5, <1>6

(* What a decoder that was flushed has handed out. *)
LEMMA NumbersFlushed ==
  ASSUME FullTypes, FullTypes', NumberInv, UNCHANGED <<file, sent>>,
         emit' = Flushed(decoder), decoder'.pictures = <<>>, parser'.pts >= parser.pts
  PROVE  NumberInv'
<1> DEFINE held == decoder.pictures
<1>1. held \in Seq(Nat) /\ parser'.pts \in Nat
  BY NumberTypes DEF FullTypes, CodecTypes
<1>2. ASSUME Unnumbered
      PROVE  /\ \A i, j \in DataSent : i < j => sent[i].pts < sent[j].pts
             /\ Growing(held)
             /\ \A i \in DataSent : \A j \in DOMAIN held : sent[i].pts < held[j]
             /\ \A i \in DataSent : sent[i].pts < parser'.pts
             /\ Below(held, parser'.pts)
  <2>1. NumberInv!2
    BY <1>2 DEF NumberInv
  <2>2. DataSent \subseteq DOMAIN sent
    BY DEF DataSent
  <2> QED BY <1>1, <2>1, <2>2, NumberTypes DEF Below
<1>3. \A i \in DataAhead' : i \in DOMAIN held /\ emit'[i] = held[i]
  <2>1. /\ DOMAIN emit' = 1..Len(emit') /\ Len(emit') = Len(Shown(held)) + 1
        /\ Len(Shown(held)) \in Nat /\ Len(Shown(held)) <= Len(held)
    BY <1>1, FlushedType, LenProperties, EmptySeq
  <2>2. \A i \in DataAhead' : i \in 1..Len(Shown(held))
    BY <2>1, FlushedType DEF DataAhead
  <2> QED BY <1>1, <2>1, <2>2, FlushedType, LenProperties
<1>4. DOMAIN decoder'.pictures = {}
  OBVIOUS
<1> HIDE DEF held
<1> QED BY <1>1, <1>2, <1>3, <1>4, NumbersHandedOut, 0 \in Nat

(* A decoder gives its oldest picture, or loses it, or keeps everything.   *)
LEMMA NumbersTaken ==
  ASSUME FullTypes, FullTypes', UNCHANGED <<file, sent>>, NEW held \in Seq(Nat),
         Unnumbered =>
           /\ \A i, j \in DataSent : i < j => sent[i].pts < sent[j].pts
           /\ Growing(held)
           /\ \A i \in DataSent : \A j \in DOMAIN held : sent[i].pts < held[j]
           /\ \A i \in DataSent : sent[i].pts < parser'.pts
           /\ Below(held, parser'.pts),
         \/ emit' = <<>> /\ decoder'.pictures = held
         \/ held # <<>> /\ emit' \in {<<>>, <<Head(held)>>} /\ decoder'.pictures = Tail(held)
  PROVE  NumberInv'
<1>1. CASE emit' = <<>> /\ decoder'.pictures = held
  <2>1. DataAhead' = {}
    BY <1>1 DEF DataAhead
  <2>2. \A j \in DOMAIN decoder'.pictures : j + 0 \in DOMAIN held /\ decoder'.pictures[j] = held[j + 0]
    BY <1>1
  <2> QED BY <2>1, <2>2, NumbersHandedOut, 0 \in Nat
<1>2. CASE held # <<>> /\ emit' \in {<<>>, <<Head(held)>>} /\ decoder'.pictures = Tail(held)
  <2>1. Len(held) \in Nat \ {0} /\ DOMAIN held = 1..Len(held) /\ Head(held) = held[1]
    BY <1>2
  <2>2. /\ DOMAIN decoder'.pictures = 1..Len(held) - 1
        /\ \A j \in 1..Len(held) - 1 : decoder'.pictures[j] = held[j + 1]
    BY <1>2
  <2>3. \A i \in DataAhead' : i = 1 /\ emit'[i] = held[1]
    <3>1. CASE emit' = <<>>
      BY <3>1 DEF DataAhead
    <3>2. CASE emit' = <<Head(held)>>
      <4>1. DOMAIN emit' = 1..1 /\ emit'[1] = Head(held)
        BY <3>2
      <4> QED BY <2>1, <4>1 DEF DataAhead
    <3> QED BY <1>2, <3>1, <3>2
  <2>4. \A j \in DOMAIN decoder'.pictures :
          j + 1 \in DOMAIN held /\ decoder'.pictures[j] = held[j + 1] /\ 1 < j + 1
    BY <2>1, <2>2
  <2>5. \A i \in DataAhead' : i \in DOMAIN held /\ emit'[i] = held[i]
    BY <2>1, <2>3
  <2>6. \A i \in DataAhead' : \A j \in DOMAIN decoder'.pictures : i < j + 1
    BY <2>3, <2>4
  <2> QED BY <2>4, <2>5, <2>6, NumbersHandedOut, 1 \in Nat
<1> QED BY <1>1, <1>2

(* A packet is read: what is put in the decoder has the next number.       *)
LEMMA NumbersRead ==
  ASSUME ReadInv, FullTypes', NumberInv, ReadPacket
  PROVE  NumberInv'
<1> DEFINE packet == file[NextPacket]
           stamp == Stamped(parser, packet)
<1>1. /\ Idle /\ decoder.made /\ UNCHANGED <<file, sent>>
      /\ parser' = stamp.parser /\ Decode(packet, stamp.pts) /\ NextPacket \in DOMAIN file
      /\ packet \in Packet /\ stamp.pts \in Nat /\ parser'.pts >= parser.pts
      /\ packet.pts = NoPts => stamp.pts = parser.pts /\ parser'.pts = parser.pts + 1
  BY NextPacketType, StampedType DEF ReadPacket, ReadInv, CodecInv, RenderUnchanged, fileVars
<1>2. FullTypes /\ decoder.pictures \in Seq(Nat) /\ parser.pts \in Nat /\ parser'.pts \in Nat
      /\ decoder \in Decoders
  BY NumberTypes DEF ReadInv, FullTypes, CodecTypes, Decoders
<1> DEFINE pts == stamp.pts
<1>3. \/ emit' = Flushed(decoder) /\ decoder' = AfterFlush(decoder)
      \/ \E held \in {decoder.pictures, Append(decoder.pictures, pts)} :
           \/ emit' = <<>> /\ decoder' = [decoder EXCEPT !.pictures = held]
           \/ /\ held # <<>>
              /\ emit' \in {<<>>, <<Head(held)>>}
              /\ decoder' = [decoder EXCEPT !.pictures = Tail(held)]
  BY <1>1, <1>2, DecodeCases
<1>4. Unnumbered => pts = parser.pts /\ parser'.pts = parser.pts + 1
  BY <1>1 DEF Unnumbered
<1>5. pts \in Nat
  BY <1>1
<1> HIDE DEF pts, stamp, packet
<1>6. CASE emit' = Flushed(decoder) /\ decoder' = AfterFlush(decoder)
  BY <1>1, <1>2, <1>6, FlushKeeps, NumbersFlushed
<1>7. ASSUME NEW held \in {decoder.pictures, Append(decoder.pictures, pts)},
             \/ emit' = <<>> /\ decoder' = [decoder EXCEPT !.pictures = held]
             \/ /\ held # <<>>
                /\ emit' \in {<<>>, <<Head(held)>>}
                /\ decoder' = [decoder EXCEPT !.pictures = Tail(held)]
      PROVE  NumberInv'
  <2>1. held \in Seq(Nat)
    <3>1. Append(decoder.pictures, pts) \in Seq(Nat)
      BY <1>2, <1>5, AppendProperties
    <3> QED BY <1>2, <3>1
  <2>2. ASSUME Unnumbered
        PROVE  /\ \A i, j \in DataSent : i < j => sent[i].pts < sent[j].pts
               /\ Growing(held)
               /\ \A i \in DataSent : \A j \in DOMAIN held : sent[i].pts < held[j]
               /\ \A i \in DataSent : sent[i].pts < parser'.pts
               /\ Below(held, parser'.pts)
    <3>1. NumberInv!2 /\ DataSent \subseteq DOMAIN sent
      BY <2>2 DEF NumberInv, DataSent
    <3>2. pts = parser.pts /\ parser'.pts = parser.pts + 1
      BY <1>4, <2>2
    <3>3. \A i \in DataSent : sent[i].pts < pts /\ sent[i].pts < parser'.pts /\ sent[i].pts \in Int
      BY <1>2, <3>1, <3>2, NumberTypes
    <3>4. CASE held = decoder.pictures
      <4>1. Below(held, parser'.pts)
        BY <1>2, <3>1, <3>2, <3>4, NumberTypes DEF Below
      <4> QED BY <3>1, <3>3, <3>4, <4>1
    <3>5. CASE held = Append(decoder.pictures, pts)
      <4>1. /\ DOMAIN held = 1..Len(decoder.pictures) + 1 /\ Len(decoder.pictures) \in Nat
            /\ DOMAIN decoder.pictures = 1..Len(decoder.pictures)
            /\ held[Len(decoder.pictures) + 1] = pts
            /\ \A i \in DOMAIN decoder.pictures : held[i] = decoder.pictures[i]
        BY <1>2, <1>5, <3>5
      <4>2. \A i \in DOMAIN decoder.pictures : decoder.pictures[i] < pts /\ decoder.pictures[i] \in Nat
        BY <1>2, <3>1, <3>2, NumberTypes DEF Below
      <4>3. \A i \in DOMAIN held : i \in DOMAIN decoder.pictures \/ i = Len(decoder.pictures) + 1
        BY <4>1
      <4>4. Below(held, parser'.pts)
        BY <1>2, <3>2, <4>1, <4>2, <4>3 DEF Below
      <4>5. Growing(held)
        BY <3>1, <4>1, <4>2, <4>3 DEF Growing
      <4>6. \A i \in DataSent : \A j \in DOMAIN held : sent[i].pts < held[j]
        BY <3>1, <3>3, <4>1, <4>3
      <4> QED BY <3>1, <3>3, <4>4, <4>5, <4>6
    <3> QED BY <3>4, <3>5
  <2>3. \/ emit' = <<>> /\ decoder'.pictures = held
        \/ held # <<>> /\ emit' \in {<<>>, <<Head(held)>>} /\ decoder'.pictures = Tail(held)
    BY <1>2, <1>7 DEF Decoders
  <2> QED BY <1>1, <1>2, <2>1, <2>2, <2>3, NumbersTaken
<1> QED BY <1>3, <1>6, <1>7

(* The head of what was handed out leaves, as a frame or not. *)
LEMMA NumbersPass ==
  ASSUME FullTypes, FullTypes', NumberInv, ~Idle, emit' = Tail(emit), UNCHANGED <<file, decoder, parser>>,
         \A i \in DataSent' : \/ i \in DataSent /\ sent'[i] = sent[i] /\ i <= Len(sent)
                              \/ i = Len(sent) + 1 /\ Head(emit) # Eos /\ sent'[i].pts = Head(emit)
  PROVE  NumberInv'
<1> SUFFICES ASSUME Unnumbered' PROVE NumberInv!2'
  BY DEF NumberInv
<1>1. Unnumbered /\ NumberInv!2
  BY DEF Unnumbered, NumberInv
<1>2. /\ Len(emit) \in Nat \ {0} /\ DOMAIN emit = 1..Len(emit) /\ Head(emit) = emit[1]
      /\ DOMAIN emit' = 1..Len(emit) - 1
      /\ \A i \in 1..Len(emit) - 1 : emit'[i] = emit[i + 1]
  BY PassTypes, NumberTypes, LenProperties
<1>3. \A i \in DataAhead' : i + 1 \in DataAhead /\ emit'[i] = emit[i + 1] /\ i \in Nat /\ 1 < i + 1
  BY <1>2 DEF DataAhead
<1>4. Head(emit) # Eos => 1 \in DataAhead /\ Head(emit) = emit[1]
  BY <1>2 DEF DataAhead
<1>5. Len(sent) \in Nat /\ DataSent \subseteq Nat
  BY LenProperties DEF FullTypes, FlowTypes, DataSent
<1>6. \A i, j \in DataAhead' : i < j => emit'[i] < emit'[j]
  <2>1. \A i, j \in DataAhead' : i < j => i + 1 < j + 1
    BY <1>3
  <2> QED BY <1>1, <1>3, <2>1
<1>7. \A i, j \in DataSent' : i < j => sent'[i].pts < sent'[j].pts
  <2> SUFFICES ASSUME NEW i \in DataSent', NEW j \in DataSent', i < j PROVE sent'[i].pts < sent'[j].pts
    OBVIOUS
  <2>0. /\ i \in Nat /\ j \in Nat
        /\ j <= Len(sent) + 1
        /\ i = Len(sent) + 1 \/ (i \in DataSent /\ sent'[i] = sent[i])
    <3>1. i = Len(sent) + 1 \/ (i \in DataSent /\ sent'[i] = sent[i])
      OBVIOUS
    <3>2. j = Len(sent) + 1 \/ (j \in DataSent /\ j <= Len(sent))
      OBVIOUS
    <3>3. Len(sent) + 1 \in Nat
      BY <1>5
    <3>4. i \in Nat
      BY <1>5, <3>1, <3>3, Zenon
    <3>5. j \in Nat
      BY <1>5, <3>2, <3>3, Zenon
    <3> QED BY <1>5, <3>1, <3>2, <3>4, <3>5
  <2>1. i \in DataSent /\ sent'[i] = sent[i]
    BY <1>5, <2>0
  <2>2. CASE j \in DataSent /\ sent'[j] = sent[j]
    BY <1>1, <2>1, <2>2
  <2>3. CASE Head(emit) # Eos /\ sent'[j].pts = Head(emit)
    BY <1>1, <1>4, <2>1, <2>3
  <2> QED BY <2>2, <2>3
<1>8. \A i \in DataSent' : \A j \in DataAhead' : sent'[i].pts < emit'[j]
  BY <1>1, <1>3, <1>4
<1>9. \A i \in DataSent' : \A j \in DOMAIN decoder'.pictures : sent'[i].pts < decoder'.pictures[j]
  BY <1>1, <1>4
<1>10. \A i \in DataSent' : sent'[i].pts < parser'.pts
  BY <1>1, <1>4
<1>11. /\ \A i \in DataAhead' : \A j \in DOMAIN decoder'.pictures : emit'[i] < decoder'.pictures[j]
       /\ \A i \in DataAhead' : emit'[i] < parser'.pts
  BY <1>1, <1>3
<1> QED BY <1>1, <1>6, <1>7, <1>8, <1>9, <1>10, <1>11

(* What is in sent after the render sent something or not. *)
LEMMA SentNumbers ==
  ASSUME FullTypes, NEW frame \in SentFrame, sent' \in {sent, Append(sent, frame)},
         ~frame.eos => Head(emit) # Eos /\ frame.pts = Head(emit)
  PROVE  \A i \in DataSent' : \/ i \in DataSent /\ sent'[i] = sent[i] /\ i <= Len(sent)
                              \/ i = Len(sent) + 1 /\ Head(emit) # Eos /\ sent'[i].pts = Head(emit)
<1>1. DOMAIN sent = 1..Len(sent) /\ Len(sent) \in Nat
  BY LenProperties DEF FullTypes, FlowTypes
<1>2. CASE sent' = sent
  BY <1>1, <1>2 DEF DataSent
<1>3. CASE sent' = Append(sent, frame)
  <2>1. /\ DOMAIN sent' = 1..Len(sent) + 1 /\ sent'[Len(sent) + 1] = frame
        /\ \A i \in 1..Len(sent) : sent'[i] = sent[i]
    BY <1>3, AppendTypes, LenProperties DEF FullTypes
  <2> QED BY <1>1, <2>1 DEF DataSent
<1> QED BY <1>2, <1>3

LEMMA NumberStep == ReadInv /\ FullTypes' /\ NumberInv /\ [Next]_vars => NumberInv'
<1> SUFFICES ASSUME ReadInv, FullTypes', NumberInv, [Next]_vars PROVE NumberInv'
  OBVIOUS
<1> USE DEF fileVars
<1>1. FullTypes /\ parser.pts \in Nat
  BY NumberTypes DEF ReadInv
<1>2. CASE Open \/ CloseBegin \/ CloseJoin \/ DestroyFrame \/ PrepareFails \/ LeaveLoop \/ ReadEnd
           \/ Report \/ Exit \/ Reject \/ UNCHANGED vars
  <2>1. UNCHANGED <<file, sent, emit, decoder, parser>>
    BY <1>2 DEF Open, CloseBegin, CloseJoin, DestroyFrame, PrepareFails, LeaveLoop, ReadEnd, Report,
                Exit, Reject, RenderUnchanged, codecVars, renderVars, vars
  <2> QED BY <1>1, <2>1, NumbersStay
<1>3. CASE PrepareResources
  <2>1. /\ UNCHANGED <<file, sent, emit>> /\ decoder = NoDecoder /\ parser' = Opened(parser)
        /\ decoder' \in {NoDecoder, [NoDecoder EXCEPT !.made = TRUE, !.instance = TRUE]} \cup Created
    BY <1>3 DEF PrepareResources, RenderUnchanged, ReadInv, CodecInv
  <2>2. decoder'.pictures = <<>>
    <3>1. NoDecoder \in Decoders /\ NoDecoder.pictures = <<>>
      BY EmptySeq DEF NoDecoder, Decoders
    <3>2. ASSUME NEW i \in BOOLEAN
          PROVE  [NoDecoder EXCEPT !.made = TRUE, !.instance = i].pictures = <<>>
      BY <3>1 DEF NoDecoder
    <3> QED BY <2>1, <3>1, <3>2 DEF Created
  <2>3. parser'.pts = parser.pts
    BY <1>1, <2>1 DEF Opened, FullTypes, CodecTypes
  <2> QED BY <1>1, <2>1, <2>2, <2>3, NumbersStay
<1>4. CASE Rewind
  <2>1. UNCHANGED <<file, sent, emit, decoder>> /\ parser' \in {Opened(Closed(parser)), Closed(parser)}
    BY <1>4 DEF Rewind, RenderUnchanged
  <2>2. parser'.pts = parser.pts
    BY <1>1, <2>1 DEF Opened, Closed, FullTypes, CodecTypes
  <2> QED BY <1>1, <2>1, <2>2, NumbersStay
<1>5. CASE Check
  <2>1. UNCHANGED <<file, sent, parser>>
    BY <1>5 DEF Check, RenderUnchanged
  <2>2. CASE UNCHANGED <<emit, decoder>>
    BY <1>1, <2>1, <2>2, NumbersStay
  <2>3. CASE emit' = Flushed(decoder) /\ decoder' = AfterFlush(decoder)
    BY <1>1, <2>1, <2>3, FlushKeeps, NumbersFlushed
  <2> QED BY <1>5, <2>2, <2>3 DEF Check, FlushAtEnd
<1>6. CASE Clear
  <2>1. /\ UNCHANGED <<file, sent>> /\ Idle /\ decoder' = NoDecoder /\ parser' = Closed(parser)
        /\ emit' = FlushedByDestroy(decoder)
    BY <1>6 DEF Clear, RenderUnchanged
  <2>2. parser'.pts = parser.pts /\ decoder'.pictures = <<>>
    BY <1>1, <2>1 DEF Closed, NoDecoder, FullTypes, CodecTypes
  <2>3. CASE emit' = Flushed(decoder)
    BY <1>1, <2>1, <2>2, <2>3, NumbersFlushed
  <2>4. CASE emit' = emit
    BY <1>1, <2>1, <2>2, <2>4, NumbersStay
  <2> QED BY <2>1, <2>3, <2>4 DEF FlushedByDestroy, Idle
<1>7. CASE Discard \/ LoseFrame \/ SendFrame
  <2> DEFINE frame == [session |-> session, eos |-> FALSE, pts |-> Head(emit)]
  <2>1. /\ ~Idle /\ Head(emit) # Eos /\ emit' = Tail(emit) /\ UNCHANGED <<file, decoder, parser>>
        /\ sent' \in {sent, Append(sent, frame)}
    BY <1>7 DEF Discard, LoseFrame, SendFrame, Wanted, Ahead, Pass, codecVars
  <2>2. frame \in SentFrame /\ frame.pts = Head(emit)
    BY <1>1, <2>1, PassTypes DEF SentFrame, FullTypes, ControlTypes
  <2> HIDE DEF frame
  <2> QED BY <1>1, <2>1, <2>2, SentNumbers, NumbersPass
<1>8. CASE SendFlowEos
  <2> DEFINE frame == [session |-> session, eos |-> TRUE, pts |-> NoPts]
  <2>1. /\ ~Idle /\ emit' = Tail(emit) /\ UNCHANGED <<file, decoder, parser>>
        /\ sent' \in {sent, Append(sent, frame)}
    BY <1>8 DEF SendFlowEos, Ahead, Pass, codecVars
  <2>2. frame \in SentFrame /\ frame.eos = TRUE
    BY <1>1 DEF SentFrame, FullTypes, ControlTypes, Pts
  <2> HIDE DEF frame
  <2> QED BY <1>1, <2>1, <2>2, SentNumbers, NumbersPass
<1> QED BY <1>2, <1>3, <1>4, <1>5, <1>6, <1>7, <1>8, NumbersRead DEF Next, Loop, Render

(* The frames of a file without time stamps never share a number, whether  *)
(* the file loops, the decoder keeps pictures back or the handler is       *)
(* closed and opened again: next to NumberInv that is what the parser's    *)
(* counter is for (FFParserImpl::Parse), which Open and Close leave alone. *)
THEOREM NumbersUnique == Spec => []UniqueTimestamps
<1>1. ReadInv /\ NumberInv => UniqueTimestamps
  <2> SUFFICES ASSUME ReadInv, NumberInv, Unnumbered,
                      NEW i \in DOMAIN sent, NEW j \in DOMAIN sent,
                      ~sent[i].eos, ~sent[j].eos, sent[i].pts = sent[j].pts
               PROVE  i = j
    BY DEF UniqueTimestamps, Unnumbered
  <2>1. i \in DataSent /\ j \in DataSent /\ i \in Int /\ j \in Int /\ sent[i].pts \in Int
    BY NumberTypes, LenProperties DEF DataSent, ReadInv, FullTypes, FlowTypes
  <2>2. ~(i < j) /\ ~(j < i)
    BY <2>1 DEF NumberInv
  <2> QED BY <2>1, <2>2
<1>2. ReadInv => FullTypes
  BY DEF ReadInv
<1> QED BY <1>1, <1>2, NumberInit, NumberStep, ReadInvariant, PTL DEF Spec

=============================================================================
