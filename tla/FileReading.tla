----------------------------- MODULE FileReading -----------------------------
(***************************************************************************)
(* A FileHandler from the inside: the thread of FileHandlerImpl, its       *)
(* FFParserImpl and FFmpegCpuDecoder, the SourceRender that makes frames   *)
(* of decoded pictures, and the flow depth that limits the frames of a     *)
(* stream.  The file, the codec and the pipeline are external.             *)
(***************************************************************************)
EXTENDS Integers, Sequences, FiniteSets

CONSTANTS
  Files,        (* the files: sequences of packets, see Packet              *)
  FlowDepth,    (* FrameInfo::flow_depth_, 0 when there is no limit         *)
  Intervals,    (* DataSourceParam::interval_                               *)
  PixelFormats, (* of the pictures in the files, as libavcodec knows them   *)
  Sessions,     (* bound: how often the handler is opened                   *)
  Rewinds       (* bound: how often a looping file is opened again          *)

NoPts == -1
Packet == [video : BOOLEAN, key : BOOLEAN, empty : BOOLEAN, good : BOOLEAN,
           pts : {NoPts} \cup Nat]

ASSUME ReadingAssumption ==
  /\ Files \subseteq Seq(Packet)
  /\ FlowDepth \in Nat
  /\ Intervals \subseteq Nat \ {0}
  /\ Sessions \in Nat
  /\ Rewinds \in Nat

VARIABLES
  file,         (* the packets of the file                                  *)
  looping,      (* loop_                                                    *)
  interval,     (* param_.interval_                                         *)
  pix_fmt,      (* the format of the pictures in the file                   *)
  at,           (* the packet av_read_frame returns next                    *)
  app,          (* where FileHandler::Open and Close are                    *)
  session,      (* how often the handler was opened                         *)
  rewinds,
  running,      (* running_                                                 *)
  pc,           (* where the thread is                                      *)
  emit,         (* what the decoder has handed out and is not yet sent      *)
  parser,       (* FFParserImpl                                             *)
  decoder,      (* decoder_                                                 *)
  failed,       (* dec_create_failed_ and decode_failed_                    *)
  eos_reached,  (* eos_reached_                                             *)
  eos_sent,     (* SourceRender::eos_sent_                                  *)
  frame_count,  (* SourceRender::frame_count_, modulo interval              *)
  count,        (* the entry of stream_count_map_, 0 when there is none     *)
  live,         (* the data frames that exist, by their place in sent       *)
  undercount,   (* how much of count was taken off for rejected frames        *)
  sent,         (* the frames sent to the pipeline                          *)
  errors        (* EVENT_STREAM_ERROR was posted in this session            *)

fileVars == <<file, looping, interval, pix_fmt>>
appVars == <<app, session, running>>
codecVars == <<at, parser, decoder, failed, eos_reached, rewinds>>
flowVars == <<count, live, undercount>>
renderVars == <<emit, eos_sent, frame_count, sent, flowVars>>
vars == <<fileVars, appVars, codecVars, renderVars, pc, errors>>

ClosedParser == [open |-> FALSE, first |-> TRUE, find_pts |-> FALSE, pts |-> 0]
NoDecoder == [made |-> FALSE, instance |-> FALSE, eos_sent |-> FALSE, pictures |-> <<>>]

(* OnDecodeEos among the pictures, all of which have a time stamp by now. *)
Eos == NoPts

Init ==
  /\ file \in Files
  /\ looping \in BOOLEAN
  /\ interval \in Intervals
  /\ pix_fmt \in PixelFormats
  /\ at = 1
  /\ app = "closed"
  /\ session = 0
  /\ rewinds = 0
  /\ running = FALSE
  /\ pc = "off"
  /\ emit = <<>>
  /\ parser = ClosedParser
  /\ decoder = NoDecoder
  /\ failed = [create |-> FALSE, decode |-> FALSE]
  /\ eos_reached = FALSE
  /\ eos_sent = FALSE
  /\ frame_count = 0
  /\ count = 0
  /\ live = {}
  /\ undercount = 0
  /\ sent = <<>>
  /\ errors = FALSE

(***************************************************************************)
(* FileHandler::Open and Close                                             *)
(***************************************************************************)
Open ==
  /\ app = "closed"
  /\ session < Sessions
  /\ app' = "open"
  /\ session' = session + 1
  /\ running' = TRUE
  /\ pc' = "prepare"
  /\ errors' = FALSE
  /\ UNCHANGED <<fileVars, codecVars, renderVars>>

CloseBegin ==
  /\ app = "open"
  /\ running' = FALSE
  /\ app' = "closing"
  /\ UNCHANGED <<session, pc, errors, fileVars, codecVars, renderVars>>

CloseJoin ==
  /\ app = "closing"
  /\ pc = "ended"
  /\ pc' = "off"
  /\ app' = "closed"
  /\ UNCHANGED <<session, running, errors, fileVars, codecVars, renderVars>>

(***************************************************************************)
(* FFParserImpl                                                            *)
(***************************************************************************)

(* Variant: the next number is forgotten when the file is opened again. *)
OpenedAfresh(p) == [ClosedParser EXCEPT !.open = TRUE]

(* Open, when it succeeds. *)
Opened(p) == [p EXCEPT !.open = TRUE, !.first = TRUE]

(* Close *)
Closed(p) == [p EXCEPT !.open = FALSE, !.first = TRUE]

(* Parse passes over other streams, and over what precedes a key frame. *)
Takes(packet) == packet.video /\ (parser.first => packet.key)
Found == {i \in at..Len(file) : Takes(file[i])}
NextPacket == CHOOSE i \in Found : \A j \in Found : i <= j

(* Parse: a packet without a time stamp is numbered; find_pts_ says which   *)
(* way the last packet got its own.                                        *)
Stamped(p, packet) ==
  LET find == packet.pts # NoPts IN
  [pts |-> IF find THEN packet.pts ELSE p.pts,
   parser |-> [p EXCEPT !.first = FALSE,
                        !.find_pts = find,
                        !.pts = IF find THEN @ ELSE @ + 1]]

(***************************************************************************)
(* FFmpegCpuDecoder                                                        *)
(***************************************************************************)

(* Create fails without or with an instance that could not be opened. *)
Created == {[NoDecoder EXCEPT !.made = TRUE, !.instance = i] : i \in BOOLEAN}

(* ProcessFrame: the formats it hands on, and what it calls them. *)
FrameFormat(format) ==
  CASE format = "YUV420P" -> "I420"
    [] format = "YUVJ420P" -> "J420"
    [] format = "YUYV422" -> "YUYV"
    [] OTHER -> "INVALID"
Shown(pictures) == IF FrameFormat(pix_fmt) # "INVALID" THEN pictures ELSE <<>>

(* Process(nullptr): the pictures left, and OnDecodeEos. *)
Flushed(d) == Append(Shown(d.pictures), Eos)
AfterFlush(d) == [d EXCEPT !.eos_sent = TRUE, !.pictures = <<>>]

(* Variant: a decoder is destroyed with what is in it. *)
DroppedByDestroy(d) == <<>>

(* Destroy flushes a decoder that has not been told of the end. *)
FlushedByDestroy(d) == IF d.instance /\ ~d.eos_sent THEN Flushed(d) ELSE <<>>

(* Process of a packet: a codec that cannot decode it has no picture, the  *)
(* others keep some back.  An empty packet means the end.                  *)
Decode(packet, pts) ==
  IF packet.empty
    THEN /\ emit' = Flushed(decoder)
         /\ decoder' = AfterFlush(decoder)
         /\ failed' = [failed EXCEPT !.decode = TRUE]
    ELSE LET held == IF packet.good THEN Append(decoder.pictures, pts) ELSE decoder.pictures
         IN /\ failed' = [failed EXCEPT !.decode = FALSE]
            /\ \/ emit' = <<>> /\ decoder' = [decoder EXCEPT !.pictures = held]
               \/ /\ packet.good
                  /\ emit' = Shown(<<Head(held)>>)
                  /\ decoder' = [decoder EXCEPT !.pictures = Tail(held)]

(***************************************************************************)
(* The thread of FileHandlerImpl                                           *)
(***************************************************************************)
Idle == emit = <<>>
RenderUnchanged == UNCHANGED <<eos_sent, frame_count, sent, flowVars>>

PrepareFails ==
  /\ pc = "prepare"
  /\ pc' = "failed"
  /\ RenderUnchanged
  /\ UNCHANGED <<emit, errors, fileVars, appVars, codecVars>>

(* OnParserInfo: a decoder of another type is not made at all.  (Extra     *)
(* data is decoded without a picture.)                                     *)
PrepareResources ==
  /\ pc = "prepare"
  /\ parser' = Opened(parser)
  /\ at' = 1
  /\ \/ /\ decoder' = [NoDecoder EXCEPT !.made = TRUE, !.instance = TRUE]
        /\ failed' = [failed EXCEPT !.create = FALSE]
        /\ pc' = "loop"
     \/ /\ decoder' \in {NoDecoder} \cup Created
        /\ failed' = [failed EXCEPT !.create = TRUE]
        /\ pc' = "failed"
  /\ RenderUnchanged
  /\ UNCHANGED <<emit, errors, eos_reached, rewinds, fileVars, appVars>>

LeaveLoop ==
  /\ pc = "loop" /\ ~running
  /\ pc' = "clear"
  /\ RenderUnchanged
  /\ UNCHANGED <<emit, errors, fileVars, appVars, codecVars>>

ReadPacket ==
  /\ pc = "loop" /\ running
  /\ Found # {}
  /\ LET packet == file[NextPacket]
         stamp == Stamped(parser, packet)
     IN parser' = stamp.parser /\ Decode(packet, stamp.pts)
  /\ at' = NextPacket + 1
  /\ pc' = "check"
  /\ RenderUnchanged
  /\ UNCHANGED <<errors, eos_reached, rewinds, fileVars, appVars>>

ReadEnd ==
  /\ pc = "loop" /\ running
  /\ Found = {}
  /\ eos_reached' = TRUE
  /\ at' = Len(file) + 1
  /\ pc' = "check"
  /\ RenderUnchanged
  /\ UNCHANGED <<emit, errors, parser, decoder, failed, rewinds, fileVars, appVars>>

FlushAtEnd ==
  /\ pc' = "clear"
  /\ IF decoder.made
       THEN emit' = Flushed(decoder) /\ decoder' = AfterFlush(decoder)
       ELSE UNCHANGED <<emit, decoder>>

(* The rest of Process, when what was decoded is sent. *)
Check ==
  /\ pc = "check" /\ Idle
  /\ \/ eos_reached /\ looping /\ pc' = "rewind" /\ UNCHANGED <<emit, decoder>>
     \/ eos_reached /\ ~looping /\ FlushAtEnd
     \/ ~eos_reached /\ (failed.decode \/ failed.create) /\ pc' = "clear" /\ UNCHANGED <<emit, decoder>>
     \/ ~eos_reached /\ ~failed.decode /\ ~failed.create /\ pc' = "loop" /\ UNCHANGED <<emit, decoder>>
  /\ RenderUnchanged
  /\ UNCHANGED <<at, parser, failed, eos_reached, rewinds, errors, fileVars, appVars>>

(* Process, a looping file: it is opened again, and the decoder stays.     *)
Rewind ==
  /\ pc = "rewind"
  /\ \/ /\ rewinds < Rewinds
        /\ parser' = Opened(Closed(parser))
        /\ at' = 1
        /\ eos_reached' = FALSE
        /\ rewinds' = rewinds + 1
        /\ pc' = "loop"
     \/ /\ parser' = Closed(parser)
        /\ pc' = "failed"
        /\ UNCHANGED <<at, eos_reached, rewinds>>
  /\ RenderUnchanged
  /\ UNCHANGED <<emit, decoder, failed, errors, fileVars, appVars>>

(* ClearResources *)
Clear ==
  /\ pc \in {"clear", "failed"} /\ Idle
  /\ emit' = FlushedByDestroy(decoder)
  /\ decoder' = NoDecoder
  /\ parser' = Closed(parser)
  /\ pc' = IF pc = "clear" THEN "exit" ELSE "report"
  /\ RenderUnchanged
  /\ UNCHANGED <<at, failed, eos_reached, rewinds, errors, fileVars, appVars>>

(* EVENT_STREAM_ERROR, after the resources are cleared. *)
Report ==
  /\ pc = "report" /\ Idle
  /\ errors' = TRUE
  /\ pc' = "exit"
  /\ RenderUnchanged
  /\ UNCHANGED <<emit, fileVars, appVars, codecVars>>

Exit ==
  /\ pc = "exit" /\ Idle
  /\ pc' = "ended"
  /\ RenderUnchanged
  /\ UNCHANGED <<emit, errors, fileVars, appVars, codecVars>>

(***************************************************************************)
(* OnDecodeFrame, OnDecodeEos and FrameInfo                                *)
(***************************************************************************)
Pass == emit' = Tail(emit) /\ UNCHANGED <<pc, errors, fileVars, appVars, codecVars>>
Ahead(eos) == ~Idle /\ (Head(emit) = Eos) = eos
CountFrame == frame_count' = (frame_count + 1) % interval

(* Only one picture of interval_ is sent on. *)
Discard ==
  /\ Ahead(FALSE)
  /\ frame_count # 0
  /\ CountFrame
  /\ Pass
  /\ UNCHANGED <<eos_sent, sent, flowVars>>

Wanted == Ahead(FALSE) /\ frame_count = 0

(* FrameInfo::Create counts the frames of a stream with a flow depth. *)
Granted == FlowDepth = 0 \/ count < FlowDepth

(* Variant: the frame is not counted. *)
Uncounted == count

CountUp == IF FlowDepth = 0 THEN count ELSE count + 1

(* Variant: the entry of a stream goes below zero. *)
CountBelowZero == count - 1

(* ~FrameInfo; an entry that is gone is not made negative. *)
CountDown == IF FlowDepth = 0 \/ count = 0 THEN count ELSE count - 1

(* SourceRender::Process: a frame whose format it knows is converted to    *)
(* NV12, unless there is no memory for it.  (A decoder on the CPU gives no *)
(* CUDA addresses; the other half of the function is for those.)           *)
Rendered(format) ==
  IF format \in {"I420", "J420", "YUYV"} THEN {"filled", "no memory"} ELSE {"unsupported"}

SendFrame ==
  /\ Wanted /\ Granted
  /\ "filled" \in Rendered(FrameFormat(pix_fmt))
  /\ CountFrame
  /\ count' = CountUp
  /\ sent' = Append(sent, [session |-> session, eos |-> FALSE, pts |-> Head(emit)])
  /\ live' = live \cup {Len(sent')}
  /\ Pass
  /\ UNCHANGED <<eos_sent, undercount>>

(* SourceRender::Process fails: the frame is created and destroyed. *)
LoseFrame ==
  /\ Wanted /\ Granted
  /\ Rendered(FrameFormat(pix_fmt)) # {"filled"}
  /\ CountFrame
  /\ Pass
  /\ UNCHANGED <<eos_sent, sent, flowVars>>

(* Variant: a frame that is rejected was never counted. *)
RejectUncounted == UNCHANGED count

(* The frame that is rejected runs the destructor all the same. *)
CountRejected == count' = CountDown

(* CreateFrameInfo tries again. *)
Reject ==
  /\ Wanted /\ ~Granted
  /\ CountRejected
  /\ undercount' = undercount + (count - count')
  /\ UNCHANGED <<pc, emit, eos_sent, frame_count, sent, live, errors, fileVars, appVars, codecVars>>

(* SendFlowEos: an EOS frame is not counted, and sent once. *)
SendFlowEos ==
  /\ Ahead(TRUE)
  /\ eos_sent' = TRUE
  /\ sent' = IF eos_sent THEN sent ELSE Append(sent, [session |-> session, eos |-> TRUE, pts |-> NoPts])
  /\ Pass
  /\ UNCHANGED <<frame_count, flowVars>>

(* The pipeline lets go of a frame. *)
DestroyFrame ==
  /\ \E i \in live : live' = live \ {i}
  /\ count' = CountDown
  /\ UNCHANGED <<undercount, emit, eos_sent, frame_count, sent, pc, errors, fileVars, appVars, codecVars>>

(***************************************************************************)
(* The specification                                                       *)
(***************************************************************************)
Loop ==
  \/ PrepareFails \/ PrepareResources \/ LeaveLoop \/ ReadPacket \/ ReadEnd
  \/ Check \/ Rewind \/ Clear \/ Report \/ Exit
Render == Discard \/ SendFrame \/ LoseFrame \/ Reject \/ SendFlowEos

Next == Open \/ CloseBegin \/ CloseJoin \/ Loop \/ Render \/ DestroyFrame
Spec == Init /\ [][Next]_vars

(* The thread runs, av_read_frame returns, and Close joins.  Nothing is    *)
(* assumed of the pipeline: it may keep its frames for ever.               *)
FairSpec == Spec /\ WF_vars(Loop \/ Render) /\ WF_vars(CloseJoin)
=============================================================================
