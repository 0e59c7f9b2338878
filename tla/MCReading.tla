------------------------------ MODULE MCReading ------------------------------
(***************************************************************************)
(* Files of a few packets: without time stamps and with a packet before    *)
(* the first key frame; with a packet of another stream, with time stamps, *)
(* one of them missing, and a packet the codec cannot decode; and with an  *)
(* empty packet in the middle.                                             *)
(***************************************************************************)
EXTENDS ReadingProperties

Data(key, good, pts) == [video |-> TRUE, key |-> key, empty |-> FALSE, good |-> good, pts |-> pts]
Other == [Data(TRUE, TRUE, 1) EXCEPT !.video = FALSE]
EmptyPacket == [Data(FALSE, FALSE, NoPts) EXCEPT !.empty = TRUE]

Unstamped == <<Data(FALSE, TRUE, NoPts), Data(TRUE, TRUE, NoPts)>>
Mixed == <<Data(TRUE, TRUE, 3), Other, Data(FALSE, FALSE, 6), Data(FALSE, TRUE, NoPts)>>
Cut == <<Data(TRUE, TRUE, NoPts), EmptyPacket, Data(TRUE, TRUE, NoPts)>>
ReadingFiles == {Unstamped, Mixed, Cut}
=============================================================================
