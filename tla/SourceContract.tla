---------------------------- MODULE SourceContract ----------------------------
(***************************************************************************)
(* What the handler of a stream promises to the pipeline and to whoever    *)
(* opened it: frames are sent while it is open, never after the EOS frame  *)
(* of the same opening; it sends at most one EOS frame in its life; and    *)
(* when its thread ends by itself or is told to, the end of the stream was *)
(* announced or an error was reported.                                     *)
(***************************************************************************)
EXTENDS Naturals, Sequences

VARIABLES
  phase,      (* "closed", "open" or "ended"                                *)
  opening,    (* how often it was opened                                    *)
  outbox,     (* for each frame it sent, in which opening and if it is EOS  *)
  reported    (* an error was reported since it was opened                  *)

contractVars == <<phase, opening, outbox, reported>>

EosSaid == \E i \in DOMAIN outbox : outbox[i].eos
EosSaidNow == \E i \in DOMAIN outbox : outbox[i].eos /\ outbox[i].session = opening

ContractInit ==
  /\ phase = "closed"
  /\ opening = 0
  /\ outbox = <<>>
  /\ reported = FALSE

BeOpened ==
  /\ phase = "closed"
  /\ phase' = "open"
  /\ opening' = opening + 1
  /\ reported' = FALSE
  /\ UNCHANGED outbox

Send(eos) ==
  /\ phase = "open"
  /\ ~EosSaidNow
  /\ eos => ~EosSaid
  /\ outbox' = Append(outbox, [session |-> opening, eos |-> eos])
  /\ UNCHANGED <<phase, opening, reported>>

ReportError ==
  /\ phase = "open"
  /\ reported' = TRUE
  /\ UNCHANGED <<phase, opening, outbox>>

(* The thread ends. *)
End ==
  /\ phase = "open"
  /\ EosSaid \/ reported
  /\ phase' = "ended"
  /\ UNCHANGED <<opening, outbox, reported>>

BeClosed ==
  /\ phase = "ended"
  /\ phase' = "closed"
  /\ UNCHANGED <<opening, outbox, reported>>

ContractNext ==
  \/ BeOpened \/ ReportError \/ End \/ BeClosed
  \/ \E eos \in BOOLEAN : Send(eos)

ContractSpec == ContractInit /\ [][ContractNext]_contractVars
=============================================================================
