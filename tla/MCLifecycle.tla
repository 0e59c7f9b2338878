------------------------------ MODULE MCLifecycle -----------------------------
(***************************************************************************)
(* Small applications for TLC.                                             *)
(***************************************************************************)
EXTENDS LifecycleProperties

(* s1 is used with care and has two handlers one after the other; s2 is    *)
(* used in every way the interface allows, two handlers at a time          *)
(* included.  With one index for both, one of them may find none free.     *)
TwoStreams == {"s1", "s2"}
FourHandlers == {"h1", "h2", "g1", "g2"}
FourIds == [h \in FourHandlers |-> IF h \in {"g1", "g2"} THEN "s2" ELSE "s1"]
MixedHabits == [s \in TwoStreams |-> IF s = "s2" THEN Habit ELSE {}]
OneFrameOfS1 == [s \in TwoStreams |-> IF s = "s1" THEN 1 ELSE 0]

(* One stream, two handlers. *)
OneStream == {"s1"}
TwoHandlers == {"h1", "h2"}
TwoIds == [h \in TwoHandlers |-> "s1"]
EveryHabit == [s \in OneStream |-> Habit]
Unforced == [s \in OneStream |-> {"unforced"}]
NoHabits == [s \in OneStream |-> {}]
OneFrame == [s \in OneStream |-> 1]
TwoFrames == [s \in OneStream |-> 2]
=============================================================================
