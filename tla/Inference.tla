------------------------------ MODULE Inference ------------------------------
(***************************************************************************)
(* A network behind its pools, as the plugins Fer and Etvh run it: tasks   *)
(* wait in the queue of a ThreadPool, its workers fill a free ModelMemory, *)
(* inference threads execute it, the caller collects it and puts it back.  *)
(* The two plugins have the same control; lines of Fer are mapped unless   *)
(* a definition says otherwise.                                            *)
(*                                                                         *)
(* One thread calls the object: it pushes the pictures of a batch,         *)
(* collects as many results, and destroys the object, possibly in the      *)
(* middle of a batch.  A picture is its number in the batch.               *)
(***************************************************************************)
EXTENDS Integers, Sequences, FiniteSets

CONSTANTS
  Memories,     \* the ModelMemory objects of the pool
  Engines,      \* the inference threads
  MinThreads,   \* min_thread_num_
  MaxThreads,   \* max_thread_num_
  MaxQueue,     \* max_queue_num_
  OnceAdd,      \* once_add_thread_num_
  Width,        \* unsigned integers count modulo Width
  MaxBatch,     \* bound: the pictures of a batch
  MaxBatches    \* bound: the batches of the caller

VARIABLES
  task_queue, task_queue_size,       \* the tasks of the ThreadPool and its own count of them
  workors,                           \* slot -> what the thread of the slot does
  live_thread_num, busy_thread_num, exit_thread_num,
  pool_running, manager,             \* running_ and the thread manager_ of the ThreadPool
  pre_queue, infer_queue, post_queue, \* the queues of the MemoryPool
  content,                           \* memory -> the picture its buffers hold, 0 for none
  engine,                            \* thread -> the memory it executes, or Idle, or Over
  running,                           \* running_ of the plugin
  caller,                            \* the calling thread: where, pictures left, results got
  batches,                           \* batches begun
  crash,                             \* what ended the process
  asked                              \* history: Manager has asked workers to leave

poolVars == <<task_queue, task_queue_size, workors, live_thread_num, busy_thread_num,
              exit_thread_num, pool_running, manager, asked>>
memoryVars == <<pre_queue, infer_queue, post_queue, content>>
inferenceVars == <<poolVars, memoryVars, engine, running, caller, batches, crash>>

Slots == 1..MaxThreads
NoPicture == 0
NoMemory == "none"

(* What an inference thread does besides executing a memory.               *)
Idle == "idle"
Over == "over"

ASSUME InferenceAssumption ==
  /\ MinThreads \in Nat \ {0} /\ MaxThreads \in Nat /\ MinThreads <= MaxThreads
  /\ MaxQueue \in Nat \ {0} /\ OnceAdd \in Nat \ {0}
  /\ Width \in Nat /\ Width > MaxQueue + MaxThreads + OnceAdd
  /\ MaxBatch \in Nat \ {0} /\ MaxBatches \in Nat
  /\ IsFiniteSet(Memories) /\ IsFiniteSet(Engines)
  /\ {NoMemory, Idle, Over} \cap Memories = {}

Worker(at, picture, memory) == [at |-> at, picture |-> picture, memory |-> memory]
NoThread == Worker("none", NoPicture, NoMemory)
Polling == Worker("polling", NoPicture, NoMemory)
Ended == Worker("ended", NoPicture, NoMemory)

AllFree == CHOOSE q \in [1..Cardinality(Memories) -> Memories] :
             \A i, j \in DOMAIN q : q[i] = q[j] => i = j

Started ==
  /\ task_queue = <<>> /\ task_queue_size = 0
  /\ workors = [s \in Slots |-> IF s <= MinThreads THEN Polling ELSE NoThread]
  /\ live_thread_num = 0 /\ busy_thread_num = 0 /\ exit_thread_num = 0
  /\ pool_running = TRUE /\ manager = "running" /\ asked = FALSE
  /\ pre_queue = AllFree /\ infer_queue = <<>> /\ post_queue = <<>>
  /\ content = [m \in Memories |-> NoPicture]
  /\ engine = [e \in Engines |-> Idle]
  /\ running = TRUE
  /\ caller = [at |-> "idle", size |-> 0, next |-> 0, got |-> <<>>]
  /\ batches = 0

Init == Started /\ crash = "none"

-----------------------------------------------------------------------------
(* The caller.                                                             *)

BeginBatch ==
  /\ caller.at = "idle" /\ batches < MaxBatches
  /\ batches' = batches + 1
  /\ \E n \in 1..MaxBatch : caller' = [at |-> "adding", size |-> n, next |-> 1, got |-> <<>>]
  /\ UNCHANGED <<poolVars, memoryVars, engine, running, crash>>

(* The caller waits in AddTaskToQueue while the queue is full.             *)
NeverFull == FALSE
QueueFull == task_queue_size = MaxQueue

AddTaskToQueue ==
  /\ caller.at = "adding" /\ ~QueueFull
  /\ task_queue' = Append(task_queue, caller.next)
  /\ caller' = [caller EXCEPT !.at = "counting"]
  /\ UNCHANGED <<task_queue_size, workors, live_thread_num, busy_thread_num, exit_thread_num,
                 pool_running, manager, asked, memoryVars, engine, running, batches, crash>>

CountTask ==
  /\ caller.at = "counting"
  /\ task_queue_size' = (task_queue_size + 1) % Width
  /\ caller' = IF caller.next = caller.size THEN [caller EXCEPT !.at = "collecting"]
               ELSE [caller EXCEPT !.at = "adding", !.next = @ + 1]
  /\ UNCHANGED <<task_queue, workors, live_thread_num, busy_thread_num, exit_thread_num,
                 pool_running, manager, asked, memoryVars, engine, running, batches, crash>>

(* What GetResultAsynchr leaves of the pool of free memories.              *)
KeptByCaller(memory) == pre_queue
PutBack(memory) == Append(pre_queue, memory)

GetResultAsynchr ==
  /\ caller.at = "collecting" /\ post_queue # <<>>
  /\ LET memory == Head(post_queue)
         got == Append(caller.got, content[memory])
     IN /\ post_queue' = Tail(post_queue)
        /\ pre_queue' = PutBack(memory)
        /\ content' = [content EXCEPT ![memory] = NoPicture]
        /\ caller' = [caller EXCEPT !.got = got,
                        !.at = IF Len(got) = caller.size THEN "idle" ELSE @]
  /\ UNCHANGED <<poolVars, infer_queue, engine, running, batches, crash>>

(* The destructor, from any place between two calls.                       *)
Destroy ==
  /\ caller.at \in {"idle", "adding", "collecting"}
  /\ running' = FALSE
  /\ caller' = [caller EXCEPT !.at = IF @ = "idle" THEN "leaving" ELSE "abandoning"]
  /\ UNCHANGED <<poolVars, memoryVars, engine, batches, crash>>

Destroying == caller.at \in {"leaving", "abandoning"}

(* The inference threads are joined, and the destructor of the ThreadPool  *)
(* waits for its queue before it stops the threads.                        *)
Drained == task_queue_size = 0

StopPool ==
  /\ Destroying /\ pool_running /\ \A e \in Engines : engine[e] = Over
  /\ Drained
  /\ pool_running' = FALSE
  /\ UNCHANGED <<task_queue, task_queue_size, workors, live_thread_num, busy_thread_num,
                 exit_thread_num, manager, asked, memoryVars, engine, running, caller,
                 batches, crash>>

(* The workers are joined slot by slot; joining marks the slot as 0.       *)
NextToJoin == CHOOSE s \in Slots : /\ workors[s].at # "none"
                                   /\ \A t \in Slots : t < s => workors[t].at = "none"
AllJoined == \A s \in Slots : workors[s].at = "none"

JoinWorker ==
  /\ Destroying /\ ~pool_running /\ manager = "ended" /\ ~AllJoined
  /\ workors[NextToJoin] = Ended
  /\ workors' = [workors EXCEPT ![NextToJoin] = NoThread]
  /\ UNCHANGED <<task_queue, task_queue_size, live_thread_num, busy_thread_num,
                 exit_thread_num, pool_running, manager, asked, memoryVars, engine, running,
                 caller, batches, crash>>

Destroyed ==
  /\ Destroying /\ ~pool_running /\ manager = "ended" /\ AllJoined
  /\ caller' = [caller EXCEPT !.at = "gone"]
  /\ UNCHANGED <<poolVars, memoryVars, engine, running, batches, crash>>

-----------------------------------------------------------------------------
(* The threads of the ThreadPool.                                          *)

PopTask(s) ==
  /\ workors[s] = Polling /\ task_queue # <<>>
  /\ workors' = [workors EXCEPT ![s] = Worker("popped", Head(task_queue), NoMemory)]
  /\ task_queue' = Tail(task_queue)
  /\ UNCHANGED <<task_queue_size, live_thread_num, busy_thread_num, exit_thread_num,
                 pool_running, manager, asked, memoryVars, engine, running, caller, batches,
                 crash>>

AsMany == task_queue_size
OneLess == (task_queue_size - 1) % Width

UncountTask(s) ==
  /\ workors[s].at = "popped"
  /\ task_queue_size' = OneLess
  /\ busy_thread_num' = busy_thread_num + 1
  /\ workors' = [workors EXCEPT ![s].at = "waiting"]
  /\ UNCHANGED <<task_queue, live_thread_num, exit_thread_num, pool_running, manager, asked,
                 memoryVars, engine, running, caller, batches, crash>>

(* PreProcess: a free memory is awaited while the plugin runs; without one *)
(* an assertion ends the process.                                          *)
TakeMemory(s) ==
  /\ workors[s].at = "waiting" /\ pre_queue # <<>>
  /\ workors' = [workors EXCEPT ![s].at = "filling", ![s].memory = Head(pre_queue)]
  /\ pre_queue' = Tail(pre_queue)
  /\ UNCHANGED <<task_queue, task_queue_size, live_thread_num, busy_thread_num,
                 exit_thread_num, pool_running, manager, asked, infer_queue, post_queue,
                 content, engine, running, caller, batches, crash>>

AssertMemory(s) ==
  /\ workors[s].at = "waiting" /\ ~running
  /\ crash' = "assert"
  /\ UNCHANGED <<poolVars, memoryVars, engine, running, caller, batches>>

NotFilled(s) == content
Filled(s) == [content EXCEPT ![workors[s].memory] = workors[s].picture]

PreProcess(s) ==
  /\ workors[s].at = "filling"
  /\ content' = Filled(s)
  /\ infer_queue' = Append(infer_queue, workors[s].memory)
  /\ workors' = [workors EXCEPT ![s] = Polling]
  /\ busy_thread_num' = busy_thread_num - 1
  /\ UNCHANGED <<task_queue, task_queue_size, live_thread_num, exit_thread_num, pool_running,
                 manager, asked, pre_queue, post_queue, engine, running, caller, batches,
                 crash>>

(* A worker that finds no task once the pool has stopped leaves.  Those    *)
(* Manager asked to leave take their number off, and detach themselves     *)
(* while more threads live than MinThreads: the destructor that is         *)
(* waiting in join for this very thread fails.                             *)
AskedOrNot == TRUE
AskedToLeave == exit_thread_num > 0

LeavePool(s) ==
  /\ workors[s] = Polling /\ ~pool_running /\ task_queue = <<>>
  /\ LET detach == AskedToLeave /\ live_thread_num > MinThreads
     IN /\ exit_thread_num' = exit_thread_num - (IF exit_thread_num > 0 THEN 1 ELSE 0)
        /\ live_thread_num' = IF detach THEN live_thread_num - 1 ELSE live_thread_num
        /\ workors' = [workors EXCEPT ![s] = IF detach THEN NoThread ELSE Ended]
        /\ \/ crash' = crash
           \/ detach /\ manager = "ended" /\ s = NextToJoin /\ crash' = "join"
  /\ UNCHANGED <<task_queue, task_queue_size, busy_thread_num, pool_running, manager, asked,
                 memoryVars, engine, running, caller, batches>>

(* A round of Manager: free slots get a thread while tasks wait, and idle  *)
(* threads are asked to leave.  The loop over the slots is bounded by      *)
(* max_queue_num_ and not by their number: it does not come to the slots   *)
(* after that, and reads past the last one when that is later.             *)
FreeSlots == {s \in Slots : s <= MaxQueue /\ workors[s].at = "none"}
Lowest(slots, n) == {s \in slots : Cardinality({t \in slots : t < s}) < n}
Least(a, b) == IF a < b THEN a ELSE b
Wanted == IF task_queue_size > live_thread_num /\ live_thread_num < MaxThreads
          THEN Least(OnceAdd, MaxThreads - live_thread_num) ELSE 0
Added == Lowest(FreeSlots, Wanted)
PastTheSlots == Cardinality(FreeSlots) < Wanted /\ MaxQueue > MaxThreads

ManagerRound ==
  /\ manager = "running"
  /\ workors' = [s \in Slots |-> IF s \in Added THEN Polling ELSE workors[s]]
  /\ live_thread_num' = live_thread_num + Cardinality(Added)
  /\ crash' = IF PastTheSlots THEN "index" ELSE crash
  /\ LET ask == busy_thread_num * 2 < live_thread_num' /\ live_thread_num' > MinThreads
     IN /\ exit_thread_num' = IF ask THEN OnceAdd ELSE exit_thread_num
        /\ asked' = (asked \/ ask)
  /\ manager' = IF pool_running THEN "running" ELSE "ended"
  /\ UNCHANGED <<task_queue, task_queue_size, busy_thread_num, pool_running, memoryVars,
                 engine, running, caller, batches>>

-----------------------------------------------------------------------------
(* The inference threads.                                                  *)

TakeFilled(e) ==
  /\ engine[e] = Idle /\ infer_queue # <<>>
  /\ engine' = [engine EXCEPT ![e] = Head(infer_queue)]
  /\ infer_queue' = Tail(infer_queue)
  /\ UNCHANGED <<poolVars, pre_queue, post_queue, content, running, caller, batches, crash>>

Infer(e) ==
  /\ engine[e] \in Memories
  /\ post_queue' = Append(post_queue, engine[e])
  /\ engine' = [engine EXCEPT ![e] = Idle]
  /\ UNCHANGED <<poolVars, pre_queue, infer_queue, content, running, caller, batches, crash>>

LeaveInfer(e) ==
  /\ engine[e] = Idle /\ ~running
  /\ engine' = [engine EXCEPT ![e] = Over]
  /\ UNCHANGED <<poolVars, memoryVars, running, caller, batches, crash>>

-----------------------------------------------------------------------------
Worker_(s) == \/ PopTask(s) \/ UncountTask(s) \/ TakeMemory(s) \/ AssertMemory(s)
              \/ PreProcess(s) \/ LeavePool(s)
Engine_(e) == TakeFilled(e) \/ Infer(e) \/ LeaveInfer(e)
Caller_ == \/ AddTaskToQueue \/ CountTask \/ GetResultAsynchr
           \/ StopPool \/ JoinWorker \/ Destroyed

InferenceNext ==
  /\ crash = "none"
  /\ \/ BeginBatch \/ Destroy \/ Caller_ \/ ManagerRound
     \/ \E s \in Slots : Worker_(s)
     \/ \E e \in Engines : Engine_(e)

(* The scheduler runs every thread; the caller need not begin a batch nor  *)
(* destroy the object, and nothing is assumed of the timer of Manager      *)
(* before the pool has stopped.                                            *)
InferenceFairness ==
  /\ WF_inferenceVars(crash = "none" /\ Caller_)
  /\ \A s \in Slots : WF_inferenceVars(crash = "none" /\ Worker_(s))
  /\ \A e \in Engines : WF_inferenceVars(crash = "none" /\ Engine_(e))
  /\ WF_inferenceVars(crash = "none" /\ ~pool_running /\ ManagerRound)

InferenceSpec == Init /\ [][InferenceNext]_inferenceVars /\ InferenceFairness
=============================================================================
