--------------------------- MODULE InferenceInvariant ---------------------------
(***************************************************************************)
(* Why a network behind its pools loses no memory and no picture: the      *)
(* invariant from which the properties of Inference follow.                *)
(***************************************************************************)
EXTENDS InferenceProperties

Calling == {"idle", "adding", "counting", "collecting"}

TaskTypes == task_queue \in Seq(1..MaxBatch) /\ task_queue_size \in 0..Width - 1
WorkerStates == [at : {"none", "polling", "popped", "waiting", "filling", "ended"},
                 picture : 0..MaxBatch, memory : Memories \cup {NoMemory}]
WorkerTypes == workors \in [Slots -> WorkerStates]
PoolTypes ==
  /\ live_thread_num \in 0..MaxThreads /\ busy_thread_num \in Int
  /\ exit_thread_num \in 0..OnceAdd
  /\ pool_running \in BOOLEAN /\ running \in BOOLEAN /\ asked \in BOOLEAN
  /\ manager \in {"running", "ended"}
  /\ crash \in {"none", "assert", "join", "index"}
MemoryTypes ==
  /\ pre_queue \in Seq(Memories) /\ infer_queue \in Seq(Memories) /\ post_queue \in Seq(Memories)
  /\ content \in [Memories -> 0..MaxBatch]
  /\ engine \in [Engines -> Memories \cup {Idle, Over}]
CallerTypes ==
  caller \in [at : Calling \cup {"leaving", "abandoning", "gone"},
              size : 0..MaxBatch, next : 0..MaxBatch, got : Seq(1..MaxBatch)]
Types == TaskTypes /\ WorkerTypes /\ PoolTypes /\ MemoryTypes /\ CallerTypes

(* Where the caller is in its batch.                                       *)
BatchInv ==
  /\ caller.at = "idle" => caller.next = caller.size /\ Len(caller.got) = caller.size
  /\ caller.at \in {"adding", "counting"} => caller.next \in 1..caller.size /\ caller.got = <<>>
  /\ caller.at = "collecting" => caller.next = caller.size /\ Len(caller.got) < caller.size

(* A worker has a picture from the pop to the end of PreProcess, and a     *)
(* memory while it fills it.                                               *)
Sound(worker) ==
  /\ worker.memory # NoMemory <=> worker.at = "filling"
  /\ worker.picture # NoPicture <=> worker.at \in {"popped", "waiting", "filling"}
WorkerInv == \A s \in Slots : Sound(workors[s])

(* The counters: task_queue_size is off by the tasks that are popped and   *)
(* not yet uncounted and by the one that is pushed and not yet counted,    *)
(* and may be below zero, where it wraps.                                  *)
Popped == {s \in Slots : workors[s].at = "popped"}
Busy == {s \in Slots : workors[s].at \in {"waiting", "filling"}}
Uncounted == IF caller.at = "counting" THEN 1 ELSE 0
Tasks == Len(task_queue) + Cardinality(Popped)
CountInv ==
  /\ Tasks <= MaxQueue
  /\ task_queue_size = IF Tasks < Uncounted THEN Width - 1 ELSE Tasks - Uncounted
  /\ busy_thread_num = Cardinality(Busy)

(* f has the value v nowhere, or in one place.                             *)
Never(f, v) == \A x \in DOMAIN f : f[x] # v
Once(f, v) == \E x \in DOMAIN f : f[x] = v /\ \A y \in DOMAIN f : f[y] = v => y = x

(* A memory is in one of five places, and which says whether it is filled. *)
Carried == [s \in Slots |-> workors[s].memory]
InPre(m) == /\ Once(pre_queue, m) /\ Never(infer_queue, m) /\ Never(post_queue, m)
            /\ Never(Carried, m) /\ Never(engine, m) /\ content[m] = NoPicture
InWorker(m) == /\ Never(pre_queue, m) /\ Never(infer_queue, m) /\ Never(post_queue, m)
               /\ Once(Carried, m) /\ Never(engine, m) /\ content[m] = NoPicture
InInfer(m) == /\ Never(pre_queue, m) /\ Once(infer_queue, m) /\ Never(post_queue, m)
              /\ Never(Carried, m) /\ Never(engine, m) /\ content[m] # NoPicture
InEngine(m) == /\ Never(pre_queue, m) /\ Never(infer_queue, m) /\ Never(post_queue, m)
               /\ Never(Carried, m) /\ Once(engine, m) /\ content[m] # NoPicture
InPost(m) == /\ Never(pre_queue, m) /\ Never(infer_queue, m) /\ Once(post_queue, m)
             /\ Never(Carried, m) /\ Never(engine, m) /\ content[m] # NoPicture
MemoryInv == \A m \in Memories : InPre(m) \/ InWorker(m) \/ InInfer(m) \/ InEngine(m) \/ InPost(m)

(* A picture that was pushed is in one of four places, and one that was    *)
(* not is nowhere.                                                         *)
Shown == [s \in Slots |-> workors[s].picture]
Nowhere(p) == Never(task_queue, p) /\ Never(Shown, p) /\ Never(content, p) /\ Never(caller.got, p)
Somewhere(p) ==
  \/ Once(task_queue, p) /\ Never(Shown, p) /\ Never(content, p) /\ Never(caller.got, p)
  \/ Never(task_queue, p) /\ Once(Shown, p) /\ Never(content, p) /\ Never(caller.got, p)
  \/ Never(task_queue, p) /\ Never(Shown, p) /\ Once(content, p) /\ Never(caller.got, p)
  \/ Never(task_queue, p) /\ Never(Shown, p) /\ Never(content, p) /\ Once(caller.got, p)
PictureInv ==
  caller.at \in Calling => \A p \in 1..MaxBatch : IF p \in Pushed THEN Somewhere(p) ELSE Nowhere(p)

(* The threads: those of Init and those counted in live_thread_num have    *)
(* the slots until the pool stops; Manager fills none past MaxQueue, and   *)
(* finds no task to add a thread for once the pool has stopped.            *)
Used == {s \in Slots : workors[s].at # "none"}
ThreadsInv ==
  /\ pool_running => /\ 1..MinThreads \subseteq Used
                     /\ Cardinality(Used) = MinThreads + live_thread_num
  /\ \A s \in Used : s <= MinThreads \/ s <= MaxQueue
  /\ live_thread_num > 0 => MinThreads + live_thread_num <= Least(MaxThreads, MaxQueue)
  /\ asked => 2 * MinThreads < Least(MaxThreads, MaxQueue)
  /\ ~pool_running => caller.at \notin Calling /\ task_queue_size = 0

(* The destructor: a batch that is complete leaves no task behind, and the *)
(* workers are gone when it returns.                                       *)
EndInv ==
  /\ running <=> caller.at \in Calling
  /\ caller.at = "leaving" => task_queue = <<>> /\ \A s \in Slots : workors[s].picture = NoPicture
  /\ caller.at = "gone" => manager = "ended" /\ AllJoined
  /\ exit_thread_num > 0 => asked
  /\ CrashCauses

InferenceInv == /\ Types /\ BatchInv /\ WorkerInv /\ CountInv /\ MemoryInv /\ PictureInv
                /\ ThreadsInv /\ EndInv
=============================================================================
