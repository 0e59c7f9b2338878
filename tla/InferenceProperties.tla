------------------------- MODULE InferenceProperties -------------------------
(***************************************************************************)
(* What a network behind its pools should keep to.                         *)
(***************************************************************************)
EXTENDS Inference

(* Types; the queue of tasks never holds more than max_queue_num_,         *)
(* although its length is counted in a step of its own.                    *)
InferenceTypeOK ==
  /\ task_queue \in Seq(1..MaxBatch) /\ Len(task_queue) <= MaxQueue
  /\ task_queue_size \in 0..Width - 1
  /\ workors \in [Slots -> [at : {"none", "polling", "popped", "waiting", "filling", "ended"},
                            picture : 0..MaxBatch, memory : Memories \cup {NoMemory}]]
  /\ live_thread_num \in 0..MaxThreads /\ busy_thread_num \in 0..MaxThreads
  /\ exit_thread_num \in 0..OnceAdd
  /\ pool_running \in BOOLEAN /\ running \in BOOLEAN /\ asked \in BOOLEAN
  /\ manager \in {"running", "ended"}
  /\ content \in [Memories -> 0..MaxBatch]
  /\ engine \in [Engines -> Memories \cup {Idle, Over}]
  /\ caller.at \in {"idle", "adding", "counting", "collecting", "leaving", "abandoning", "gone"}
  /\ crash \in {"none", "assert", "join", "index"}

(* Every memory is in exactly one place: in one of the three queues of the *)
(* MemoryPool, with the worker that fills it, or with the thread that      *)
(* executes it.                                                            *)
Places(memory) ==
  {<<"pre", i>> : i \in {j \in DOMAIN pre_queue : pre_queue[j] = memory}}
  \cup {<<"infer", i>> : i \in {j \in DOMAIN infer_queue : infer_queue[j] = memory}}
  \cup {<<"post", i>> : i \in {j \in DOMAIN post_queue : post_queue[j] = memory}}
  \cup {<<"worker", s>> : s \in {t \in Slots : workors[t].memory = memory}}
  \cup {<<"engine", e>> : e \in {f \in Engines : engine[f] = memory}}
MemoryConserved == \A memory \in Memories : \E place \in Places(memory) : Places(memory) = {place}

(* Every picture pushed is in exactly one place until its result is        *)
(* collected: in the queue of tasks, with a worker, in a memory, or among  *)
(* the results.  The results of a batch are those of its pictures, each    *)
(* once; they may come in any order.                                       *)
Pushed == IF caller.at \in {"idle", "counting", "collecting"} THEN 1..caller.next
          ELSE 1..caller.next - 1
Holders(picture) ==
  {<<"task", i>> : i \in {j \in DOMAIN task_queue : task_queue[j] = picture}}
  \cup {<<"worker", s>> : s \in {t \in Slots : workors[t].picture = picture}}
  \cup {<<"memory", m>> : m \in {n \in Memories : content[n] = picture}}
  \cup {<<"result", i>> : i \in {j \in DOMAIN caller.got : caller.got[j] = picture}}
PictureConserved ==
  caller.at \in {"idle", "adding", "counting", "collecting"} =>
    \A picture \in Pushed : \E holder \in Holders(picture) : Holders(picture) = {holder}

(* What can end the process: the assertion of PreProcess, only when the    *)
(* object is destroyed in the middle of a batch; a failing join, only      *)
(* after Manager asked workers to leave, which takes slots within the      *)
(* reach of its loop for more than twice MinThreads; a slot past the last  *)
(* one, only while the pool runs and every slot has a thread, when         *)
(* live_thread_num is below MaxThreads by the threads of Init, which it    *)
(* never counted.                                                          *)
CrashCauses ==
  /\ crash = "assert" => caller.at = "abandoning"
  /\ crash = "join" => asked /\ 2 * MinThreads < Least(MaxThreads, MaxQueue)
  /\ crash = "index" => /\ pool_running /\ live_thread_num = MaxThreads - MinThreads
                        /\ \A s \in Slots : workors[s].at # "none"

(* A batch that fits the pools, one memory, worker or place in the queue   *)
(* for each of its pictures, is collected although the caller pushes all   *)
(* of it before it collects the first result.                              *)
Capacity == Cardinality(Memories) + MinThreads + MaxQueue
InBatch == caller.at \in {"adding", "counting", "collecting"} /\ caller.size <= Capacity
BatchFinishes == InBatch ~> (caller.at = "idle" \/ Destroying \/ crash # "none")

(* The destructor returns, unless the process ends first.                  *)
DestroyReturns == Destroying ~> (caller.at = "gone" \/ crash # "none")
=============================================================================
