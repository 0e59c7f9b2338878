------------------------------ MODULE MCPipeline ------------------------------
(***************************************************************************)
(* Small pipelines for TLC.  The diamond has a fork, a join and conveyors  *)
(* of one frame, so that every push of a second frame can be refused.      *)
(***************************************************************************)
EXTENDS PipelineInvariant

DiamondModules == {"A", "B", "C", "D"}
DiamondLinks == {<<"A", "B">>, <<"A", "C">>, <<"B", "D">>, <<"C", "D">>}
DiamondParallelism == [m \in DiamondModules |-> IF m = "A" THEN 0 ELSE 1]
DiamondCapacity == [m \in DiamondModules |-> 1]
DiamondRank == [m \in DiamondModules |->
                  CASE m = "A" -> 1 [] m = "B" -> 2 [] m = "C" -> 3 [] m = "D" -> 4]
OneStream == {"s1"}
OneOrigin == [s \in OneStream |-> "A"]
TwoFrames == [s \in OneStream |-> 2]
OneIndex == [s \in OneStream |-> 0]

(* Two sources whose streams join: s1 runs A to B and around it by the     *)
(* link A to D, s2 enters at R.  D waits for A, B and R, so that each      *)
(* stream needs the route mask of its source; D has two conveyors.         *)
JoinModules == {"A", "R", "B", "D"}
JoinLinks == {<<"A", "B">>, <<"A", "D">>, <<"B", "D">>, <<"R", "D">>}
JoinParallelism == [m \in JoinModules |-> CASE m = "B" -> 1 [] m = "D" -> 2 [] OTHER -> 0]
JoinCapacity == [m \in JoinModules |-> 1]
JoinRank == [m \in JoinModules |->
               CASE m = "A" -> 1 [] m = "B" -> 2 [] m = "D" -> 3 [] m = "R" -> 4]
TwoStreams == {"s1", "s2"}
TwoOrigins == [s \in TwoStreams |-> IF s = "s1" THEN "A" ELSE "R"]
TwoIndices == [s \in TwoStreams |-> IF s = "s1" THEN 0 ELSE 1]
TwoAndOne == [s \in TwoStreams |-> IF s = "s1" THEN 2 ELSE 1]
=============================================================================
