------------------------------ MODULE ModelCache ------------------------------
(***************************************************************************)
(* ModelLoader and the buffers of a ModelMemory: a process loads the       *)
(* engine of a network from its cache file, or builds it from the model    *)
(* and writes the file, and then allocates the buffers of the network.     *)
(* The file outlives the process, which may be killed between two steps.   *)
(* Fer::Init and Etvh::Init ignore what ModelLoader::Init returns.         *)
(***************************************************************************)
EXTENDS Naturals

CONSTANT Starts   \* bound: the times the program is started

VARIABLES
  model,      \* the model file: "good", "broken", or "other" than .onnx
  cache,      \* the cache file: "absent", "partial", "whole"
  process,    \* where the process is
  engine, context,  \* engine_ and context_ are set
  buffers,    \* the buffers a ModelMemory holds
  starts,     \* starts so far
  cut         \* history: writing the cache was cut short

loaderVars == <<model, cache, process, engine, context, buffers, starts, cut>>

Down == {"down", "ended", "failed", "killed"}

LoaderInit ==
  /\ model \in {"good", "broken", "other"}
  /\ cache = "absent" /\ process = "down" /\ engine = FALSE /\ context = FALSE
  /\ buffers = {} /\ starts = 0 /\ cut = FALSE

StartProcess ==
  /\ process \in Down /\ starts < Starts
  /\ starts' = starts + 1
  /\ process' = IF model = "other" THEN "allocate"
                ELSE IF cache # "absent" THEN "read" ELSE "build"
  /\ engine' = FALSE /\ context' = FALSE /\ buffers' = {}
  /\ UNCHANGED <<model, cache, cut>>

(* A file that is not whole gives no engine.                               *)
ReadCache ==
  /\ process = "read"
  /\ engine' = (cache = "whole")
  /\ process' = "context"
  /\ UNCHANGED <<model, cache, context, buffers, starts, cut>>

(* Variant: the file is opened before the engine is built. *)
OpenedFirst ==
  /\ process = "build"
  /\ engine' = (model = "good") /\ cache' = "partial"
  /\ process' = IF model = "good" THEN "write" ELSE "allocate"
  /\ UNCHANGED <<model, context, buffers, starts, cut>>

BuildEngine ==
  /\ process = "build"
  /\ engine' = (model = "good")
  /\ process' = IF model = "good" THEN "write" ELSE "allocate"
  /\ UNCHANGED <<model, cache, context, buffers, starts, cut>>

OpenCache ==
  /\ process = "write"
  /\ cache' = "partial"
  /\ process' = "writing"
  /\ UNCHANGED <<model, engine, context, buffers, starts, cut>>

(* Nothing looks at the state of the stream: the disk may have been full.  *)
CloseCache ==
  /\ process = "writing"
  /\ \/ cache' = "whole" /\ cut' = cut
     \/ cache' = cache /\ cut' = TRUE
  /\ process' = "context"
  /\ UNCHANGED <<model, engine, context, buffers, starts>>

(* engine_ is used without a look at it.                                   *)
CreateContext ==
  /\ process = "context"
  /\ context' = engine
  /\ process' = IF engine THEN "allocate" ELSE "failed"
  /\ UNCHANGED <<model, cache, engine, buffers, starts, cut>>

(* AlloctorMemory asks the context for the engine.                         *)
Buffers == {"cpu", "result", "input on the device", "output on the device"}
Allocate ==
  /\ process = "allocate"
  /\ buffers' = IF context THEN Buffers ELSE {}
  /\ process' = IF context THEN "ready" ELSE "failed"
  /\ UNCHANGED <<model, cache, engine, context, starts, cut>>

(* The end of the program: the destructors of the loader and of the        *)
(* memory, which frees the buffers of the results only if there are none.  *)
Release ==
  /\ process = "ready"
  /\ buffers' = {"result"}
  /\ engine' = FALSE /\ context' = FALSE
  /\ process' = "ended"
  /\ UNCHANGED <<model, cache, starts, cut>>

Kill ==
  /\ process \notin Down
  /\ process' = "killed"
  /\ engine' = FALSE /\ context' = FALSE /\ buffers' = {}
  /\ cut' = (cut \/ process = "writing")
  /\ UNCHANGED <<model, cache, starts>>

LoaderNext == \/ StartProcess \/ ReadCache \/ BuildEngine \/ OpenCache \/ CloseCache
              \/ CreateContext \/ Allocate \/ Release \/ Kill

LoaderSpec == LoaderInit /\ [][LoaderNext]_loaderVars

-----------------------------------------------------------------------------
(* A process fails to load its network only for its model, or because the  *)
(* writing of the cache was once cut short: a process that is killed       *)
(* elsewhere leaves nothing the next one would fall over.                  *)
LoaderFailsForCause == process = "failed" => model # "good" \/ cut
=============================================================================
