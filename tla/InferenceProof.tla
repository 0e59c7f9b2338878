----------------------------- MODULE InferenceProof -----------------------------
(***************************************************************************)
(* Proofs, for any number of memories, inference threads, workers and      *)
(* pictures, that a network behind its pools loses no memory and no        *)
(* picture, keeps its counters, and ends only for the causes it has.       *)
(***************************************************************************)
EXTENDS InferenceInvariant, FiniteSetTheorems, TLAPS

(***************************************************************************)
(* A value that is in a function never or once                             *)
(***************************************************************************)

LEMMA OnceIsSomewhere ==
  ASSUME NEW f, NEW v, Once(f, v)
  PROVE  ~Never(f, v)
BY DEF Once, Never

LEMMA NeverInNone ==
  ASSUME NEW v
  PROVE  Never(<<>>, v)
BY DEF Never

LEMMA HeadIsIn ==
  ASSUME NEW elements, NEW q \in Seq(elements), q # <<>>
  PROVE  Head(q) \in elements /\ Tail(q) \in Seq(elements) /\ ~Never(q, Head(q))
BY DEF Never

LEMMA PopNever ==
  ASSUME NEW elements, NEW q \in Seq(elements), q # <<>>, NEW v, Never(q, v)
  PROVE  Head(q) # v /\ Never(Tail(q), v)
BY DEF Never

LEMMA PopOnce ==
  ASSUME NEW elements, NEW q \in Seq(elements), q # <<>>, NEW v, Once(q, v)
  PROVE  IF Head(q) = v THEN Never(Tail(q), v) ELSE Once(Tail(q), v)
<1> DEFINE r == Tail(q)
           n == Len(q)
<1>1. n \in Nat \ {0} /\ DOMAIN q = 1..n /\ Head(q) = q[1]
  OBVIOUS
<1>2. DOMAIN r = 1..n - 1 /\ \A j \in 1..n - 1 : r[j] = q[j + 1]
  OBVIOUS
<1> HIDE DEF r, n
<1>3. PICK i \in 1..n : q[i] = v /\ \A j \in 1..n : q[j] = v => j = i
  BY <1>1 DEF Once
<1>4. CASE Head(q) = v
  BY <1>1, <1>2, <1>3, <1>4 DEF Never, r
<1>5. CASE Head(q) # v
  <2>1. i - 1 \in 1..n - 1 /\ r[i - 1] = v
    BY <1>1, <1>2, <1>3, <1>5
  <2>2. \A j \in 1..n - 1 : r[j] = v => j = i - 1
    BY <1>1, <1>2, <1>3
  <2>3. Once(r, v)
    BY <1>2, <2>1, <2>2 DEF Once
  <2> QED BY <1>5, <2>3 DEF r
<1> QED BY <1>4, <1>5

LEMMA PushNever ==
  ASSUME NEW elements, NEW q \in Seq(elements), NEW e \in elements, NEW v, Never(q, v)
  PROVE  IF e = v THEN Once(Append(q, e), v) ELSE Never(Append(q, e), v)
<1>1. /\ Append(q, e) \in Seq(elements) /\ Len(Append(q, e)) = Len(q) + 1
      /\ Append(q, e)[Len(q) + 1] = e
      /\ \A j \in 1..Len(q) : Append(q, e)[j] = q[j]
  OBVIOUS
<1> DEFINE r == Append(q, e)
<1> HIDE DEF r
<1>2. DOMAIN r = 1..Len(q) + 1 /\ DOMAIN q = 1..Len(q) /\ Len(q) \in Nat
  BY <1>1 DEF r
<1>3. r[Len(q) + 1] = e /\ \A j \in 1..Len(q) : r[j] # v
  BY <1>1, <1>2 DEF Never, r
<1>4. IF e = v THEN Once(r, v) ELSE Never(r, v)
  BY <1>2, <1>3 DEF Once, Never
<1> QED BY <1>4 DEF r

LEMMA PushOnce ==
  ASSUME NEW elements, NEW q \in Seq(elements), NEW e \in elements, NEW v, Once(q, v), e # v
  PROVE  Once(Append(q, e), v)
<1>1. /\ Append(q, e) \in Seq(elements) /\ Len(Append(q, e)) = Len(q) + 1
      /\ Append(q, e)[Len(q) + 1] = e
      /\ \A j \in 1..Len(q) : Append(q, e)[j] = q[j]
  OBVIOUS
<1> DEFINE r == Append(q, e)
<1> HIDE DEF r
<1>2. DOMAIN r = 1..Len(q) + 1 /\ DOMAIN q = 1..Len(q) /\ Len(q) \in Nat
  BY <1>1 DEF r
<1>3. r[Len(q) + 1] = e /\ \A j \in 1..Len(q) : r[j] = q[j]
  BY <1>1 DEF r
<1>4. Once(r, v)
  BY <1>2, <1>3 DEF Once
<1> QED BY <1>4 DEF r

(* g is f but for the value at x. *)
Changed(f, g, x) == /\ DOMAIN g = DOMAIN f /\ x \in DOMAIN f
                    /\ \A y \in DOMAIN f : y # x => g[y] = f[y]

LEMMA ChangeNever ==
  ASSUME NEW f, NEW g, NEW x, Changed(f, g, x), NEW v, Never(f, v)
  PROVE  IF g[x] = v THEN Once(g, v) ELSE Never(g, v)
BY DEF Changed, Never, Once

LEMMA ChangeOnce ==
  ASSUME NEW f, NEW g, NEW x, Changed(f, g, x), NEW v, Once(f, v), g[x] # v
  PROVE  IF f[x] = v THEN Never(g, v) ELSE Once(g, v)
BY DEF Changed, Never, Once

(***************************************************************************)
(* The pool of free memories                                               *)
(***************************************************************************)

LEMMA IntervalSize ==
  ASSUME NEW n \in Nat
  PROVE  IsFiniteSet(1..n) /\ Cardinality(1..n) = n
<1>1. IsFiniteSet(1..n) /\ Cardinality(1..n) = IF 1 > n THEN 0 ELSE n - 1 + 1
  BY FS_Interval
<1> QED BY <1>1

(* A new MemoryPool has every memory once. *)
LEMMA AllFreeHasAll ==
  /\ AllFree \in Seq(Memories)
  /\ \A m \in Memories : Once(AllFree, m)
<1> DEFINE n == Cardinality(Memories)
<1>1. n \in Nat /\ ExistsBijection(1..n, Memories) /\ IsFiniteSet(Memories)
  BY FS_CardinalityType, InferenceAssumption
<1>2. PICK f \in [1..n -> Memories] : \A i, j \in 1..n : f[i] = f[j] => i = j
  BY <1>1, Zenon DEF ExistsBijection, Bijection, Injection, IsInjective
<1>3. AllFree \in [1..n -> Memories] /\ \A i, j \in DOMAIN AllFree : AllFree[i] = AllFree[j] => i = j
  <2>1. \A i, j \in DOMAIN f : f[i] = f[j] => i = j
    BY <1>2
  <2> QED BY <2>1 DEF AllFree
<1>4. AllFree \in Injection(1..n, Memories)
  BY <1>3 DEF Injection, IsInjective
<1>5. IsFiniteSet(1..n) /\ Cardinality(1..n) = n
  BY <1>1, IntervalSize
<1>6. AllFree \in Surjection(1..n, Memories)
  BY <1>1, <1>4, <1>5, FS_Injection, Zenon
<1> HIDE DEF n
<1>7. \A m \in Memories : \E i \in 1..n : AllFree[i] = m
  BY <1>6 DEF Surjection
<1>8. \A m \in Memories : Once(AllFree, m)
  BY <1>3, <1>7 DEF Once
<1>9. AllFree \in Seq(Memories)
  BY <1>1, <1>3
<1> QED BY <1>8, <1>9

(***************************************************************************)
(* The counters                                                            *)
(***************************************************************************)

(* task_queue_size after it was incremented and decremented. *)
LEMMA CountUp ==
  ASSUME NEW n \in 0..Width - 1
  PROVE  (n + 1) % Width = IF n = Width - 1 THEN 0 ELSE n + 1
<1>1. Width \in Nat /\ Width > 1
  BY InferenceAssumption
<1>2. CASE n = Width - 1
  BY <1>1, <1>2
<1>3. CASE n # Width - 1
  BY <1>1, <1>3
<1> QED BY <1>2, <1>3

LEMMA CountDown ==
  ASSUME NEW n \in 0..Width - 1
  PROVE  (n - 1) % Width = IF n = 0 THEN Width - 1 ELSE n - 1
<1>1. Width \in Nat /\ Width > 1
  BY InferenceAssumption
<1>2. CASE n = 0
  BY <1>1, <1>2
<1>3. CASE n # 0
  BY <1>1, <1>3
<1> QED BY <1>2, <1>3

LEMMA SlotsFinite ==
  ASSUME NEW slots \in SUBSET Slots
  PROVE  IsFiniteSet(slots) /\ Cardinality(slots) \in 0..MaxThreads
<1>1. IsFiniteSet(Slots) /\ Cardinality(Slots) = MaxThreads
  BY IntervalSize, InferenceAssumption DEF Slots
<1>2. IsFiniteSet(slots) /\ Cardinality(slots) <= MaxThreads
  BY <1>1, FS_Subset
<1>3. Cardinality(slots) \in Nat
  BY <1>2, FS_CardinalityType
<1> QED BY <1>2, <1>3, InferenceAssumption

(* The n lowest of a set of slots are at most n. *)
Below(slots, s) == {t \in slots : t < s}

LEMMA FewerBelow ==
  ASSUME NEW slots \in SUBSET Slots, NEW s \in slots, NEW t \in slots, s < t
  PROVE  Cardinality(Below(slots, s)) < Cardinality(Below(slots, t))
<1>1. \A u \in slots : u \in Int
  BY InferenceAssumption DEF Slots
<1>2. Below(slots, s) \in SUBSET Below(slots, t)
  BY <1>1 DEF Below
<1>3. s \in Below(slots, t) /\ s \notin Below(slots, s)
  BY <1>1 DEF Below
<1>4. /\ IsFiniteSet(Below(slots, t)) /\ Cardinality(Below(slots, t)) \in Nat
      /\ Cardinality(Below(slots, s)) \in Nat
  <2>1. Below(slots, t) \in SUBSET Slots /\ Below(slots, s) \in SUBSET Slots
    BY DEF Below
  <2> QED BY <2>1, SlotsFinite
<1>5. /\ Cardinality(Below(slots, s)) <= Cardinality(Below(slots, t))
      /\ Cardinality(Below(slots, t)) = Cardinality(Below(slots, s)) => Below(slots, t) = Below(slots, s)
  BY <1>2, <1>4, FS_Subset
<1>6. Below(slots, t) # Below(slots, s)
  BY <1>3
<1> QED BY <1>4, <1>5, <1>6

LEMMA LowestBound ==
  ASSUME NEW slots \in SUBSET Slots, NEW n \in Nat
  PROVE  Cardinality(Lowest(slots, n)) <= n
<1> DEFINE low == Lowest(slots, n)
           f == [s \in low |-> Cardinality(Below(slots, s)) + 1]
<1>1. \A s \in slots : Cardinality(Below(slots, s)) \in Nat
  <2>1. \A s \in slots : Below(slots, s) \in SUBSET Slots
    BY DEF Below
  <2> QED BY <2>1, SlotsFinite
<1>2. low \subseteq slots /\ \A s \in low : Cardinality(Below(slots, s)) < n
  BY DEF Lowest, Below
<1> HIDE DEF low
<1>3. f \in [low -> 1..n]
  BY <1>1, <1>2
<1>4. ASSUME NEW s \in low, NEW t \in low, f[s] = f[t]
      PROVE  s = t
  <2>1. Cardinality(Below(slots, s)) = Cardinality(Below(slots, t))
    BY <1>1, <1>2, <1>4
  <2>2. s \in slots /\ t \in slots /\ s \in Int /\ t \in Int
    BY <1>2, InferenceAssumption DEF Slots
  <2>3. ~(s < t) /\ ~(t < s)
    BY <1>1, <2>1, <2>2, FewerBelow
  <2> QED BY <2>2, <2>3
<1> HIDE DEF f
<1>5. f \in Injection(low, 1..n)
  BY <1>3, <1>4 DEF Injection, IsInjective
<1>6. Cardinality(low) <= Cardinality(1..n)
  BY <1>5, IntervalSize, FS_Injection, Zenon
<1> QED BY <1>6, IntervalSize DEF low

(***************************************************************************)
(* Types, the batch and the workers                                        *)
(***************************************************************************)

Shape == Types /\ BatchInv /\ WorkerInv

LEMMA RestingWorkers ==
  \A worker \in {NoThread, Polling, Ended} :
    worker \in WorkerStates /\ Sound(worker) /\ worker.picture = NoPicture /\ worker.memory = NoMemory
BY InferenceAssumption DEF WorkerStates, Sound, NoThread, Polling, Ended, Worker, NoPicture

LEMMA ShapeInit == Init => Shape
<1> SUFFICES ASSUME Init PROVE Shape
  OBVIOUS
<1> USE InferenceAssumption DEF Init, Started
<1>1. TaskTypes
  BY DEF TaskTypes
<1>2. WorkerTypes
  BY RestingWorkers DEF WorkerTypes
<1>3. MemoryTypes
  BY AllFreeHasAll DEF MemoryTypes, NoPicture
<1>4. CallerTypes
  BY DEF CallerTypes, Calling
<1>5. BatchInv
  BY DEF BatchInv
<1>6. WorkerInv
  BY RestingWorkers DEF WorkerInv
<1>7. PoolTypes
  <2>1. live_thread_num = 0 /\ busy_thread_num = 0 /\ exit_thread_num = 0
    OBVIOUS
  <2>2. pool_running \in BOOLEAN /\ running \in BOOLEAN /\ asked \in BOOLEAN
    BY Zenon
  <2>3. manager = "running" /\ crash = "none"
    OBVIOUS
  <2> QED BY <2>1, <2>2, <2>3 DEF PoolTypes
<1> QED BY <1>1, <1>2, <1>3, <1>4, <1>5, <1>6, <1>7 DEF Shape, Types

(* What a step leaves unchanged keeps its type. *)
LEMMA TypesStutter ==
  ASSUME Types
  PROVE  /\ UNCHANGED <<task_queue, task_queue_size>> => TaskTypes'
         /\ UNCHANGED workors => WorkerTypes'
         /\ UNCHANGED <<live_thread_num, busy_thread_num, exit_thread_num, pool_running, running,
                        asked, manager, crash>> => PoolTypes'
         /\ UNCHANGED <<pre_queue, infer_queue, post_queue, content, engine>> => MemoryTypes'
         /\ UNCHANGED caller => CallerTypes'
BY DEF Types, TaskTypes, WorkerTypes, PoolTypes, MemoryTypes, CallerTypes

LEMMA ShapeCaller ==
  ASSUME Shape, MemoryInv, BeginBatch \/ Destroy \/ Caller_
  PROVE  Shape'
<1> USE InferenceAssumption
<1>1. Types /\ BatchInv /\ WorkerInv
  BY DEF Shape
<1>2. workors' = workors => WorkerTypes' /\ WorkerInv'
  BY <1>1, TypesStutter DEF WorkerInv
<1>3. caller' = caller => CallerTypes' /\ BatchInv'
  BY <1>1, TypesStutter DEF BatchInv
<1>4. CASE BeginBatch
  <2>1. PICK n \in 1..MaxBatch : caller' = [at |-> "adding", size |-> n, next |-> 1, got |-> <<>>]
    BY <1>4 DEF BeginBatch
  <2>2. UNCHANGED <<poolVars, memoryVars, engine, running, crash>>
    BY <1>4 DEF BeginBatch
  <2>3. CallerTypes'
    BY <2>1 DEF CallerTypes, Calling
  <2>4. BatchInv'
    BY <2>1 DEF BatchInv
  <2> QED BY <1>1, <1>2, <2>2, <2>3, <2>4, TypesStutter DEF Shape, Types, poolVars, memoryVars
<1>5. CASE AddTaskToQueue
  <2>1. /\ caller.at = "adding" /\ caller' = [caller EXCEPT !.at = "counting"]
        /\ task_queue' = Append(task_queue, caller.next) /\ task_queue_size' = task_queue_size
        /\ UNCHANGED <<workors, live_thread_num, busy_thread_num, exit_thread_num,
                       pool_running, manager, asked, memoryVars, engine, running, crash>>
    BY <1>5 DEF AddTaskToQueue
  <2>2. caller.next \in 1..MaxBatch
    BY <1>1, <2>1 DEF Types, CallerTypes, BatchInv
  <2>3. TaskTypes'
    BY <1>1, <2>1, <2>2 DEF Types, TaskTypes
  <2>4. CallerTypes'
    BY <1>1, <2>1 DEF Types, CallerTypes, Calling
  <2>5. BatchInv'
    BY <1>1, <2>1 DEF Types, CallerTypes, BatchInv
  <2> QED BY <1>1, <1>2, <2>1, <2>3, <2>4, <2>5, TypesStutter DEF Shape, Types, memoryVars
<1>6. CASE CountTask
  <2>1. /\ caller.at = "counting"
        /\ caller' = IF caller.next = caller.size THEN [caller EXCEPT !.at = "collecting"]
                     ELSE [caller EXCEPT !.at = "adding", !.next = @ + 1]
        /\ task_queue' = task_queue /\ task_queue_size' = (task_queue_size + 1) % Width
        /\ UNCHANGED <<workors, live_thread_num, busy_thread_num, exit_thread_num,
                       pool_running, manager, asked, memoryVars, engine, running, crash>>
    BY <1>6 DEF CountTask
  <2>2. caller.next \in 1..caller.size /\ caller.got = <<>> /\ caller.size \in 0..MaxBatch
    BY <1>1, <2>1 DEF Types, CallerTypes, BatchInv
  <2>3. TaskTypes'
    BY <1>1, <2>1, CountUp DEF Types, TaskTypes
  <2>4. CallerTypes'
    <3>1. CASE caller.next = caller.size
      BY <1>1, <2>1, <3>1 DEF Types, CallerTypes, Calling
    <3>2. CASE caller.next # caller.size
      <4>1. caller.next + 1 \in 0..MaxBatch
        BY <2>2, <3>2
      <4> QED BY <1>1, <2>1, <3>2, <4>1 DEF Types, CallerTypes, Calling
    <3> QED BY <3>1, <3>2
  <2>5. BatchInv'
    BY <1>1, <2>1, <2>2 DEF Types, CallerTypes, BatchInv
  <2> QED BY <1>1, <1>2, <2>1, <2>3, <2>4, <2>5, TypesStutter DEF Shape, Types, memoryVars
<1>7. CASE StopPool
  BY <1>1, <1>2, <1>3, <1>7, TypesStutter DEF StopPool, Shape, Types, PoolTypes, memoryVars
<1>8. CASE JoinWorker
  <2>1. workors' = [workors EXCEPT ![NextToJoin] = NoThread]
    BY <1>8 DEF JoinWorker
  <2>2. WorkerTypes'
    BY <1>1, <2>1, RestingWorkers DEF Types, WorkerTypes
  <2>3. WorkerInv'
    BY <1>1, <2>1, RestingWorkers DEF Types, WorkerTypes, WorkerInv
  <2> QED BY <1>1, <1>3, <1>8, <2>2, <2>3, TypesStutter DEF JoinWorker, Shape, Types, memoryVars
<1>9. CASE Destroyed
  <2>1. Destroying /\ caller' = [caller EXCEPT !.at = "gone"]
    BY <1>9 DEF Destroyed
  <2>2. CallerTypes' /\ BatchInv'
    BY <1>1, <2>1 DEF Types, CallerTypes, BatchInv, Destroying
  <2> QED BY <1>1, <1>2, <1>9, <2>2, TypesStutter DEF Destroyed, Shape, Types, poolVars, memoryVars
<1>10. CASE Destroy
  <2>1. caller' = [caller EXCEPT !.at = IF @ = "idle" THEN "leaving" ELSE "abandoning"]
    BY <1>10 DEF Destroy
  <2>2. CallerTypes' /\ BatchInv'
    BY <1>1, <2>1 DEF Types, CallerTypes, BatchInv
  <2>3. PoolTypes'
    BY <1>1, <1>10 DEF Destroy, Types, PoolTypes, poolVars
  <2> QED BY <1>1, <1>2, <1>10, <2>2, <2>3, TypesStutter DEF Destroy, Shape, Types, poolVars, memoryVars
<1>11. CASE GetResultAsynchr
  <2> DEFINE memory == Head(post_queue)
             got == Append(caller.got, content[memory])
  <2>1. /\ caller.at = "collecting" /\ post_queue # <<>>
        /\ post_queue' = Tail(post_queue)
        /\ pre_queue' = Append(pre_queue, memory)
        /\ content' = [content EXCEPT ![memory] = NoPicture]
        /\ caller' = [caller EXCEPT !.got = got, !.at = IF Len(got) = caller.size THEN "idle" ELSE @]
        /\ UNCHANGED <<poolVars, infer_queue, engine, running, crash>>
    BY <1>11 DEF GetResultAsynchr, PutBack
  <2>2. memory \in Memories /\ Tail(post_queue) \in Seq(Memories) /\ ~Never(post_queue, memory)
    BY <1>1, <2>1, HeadIsIn DEF Types, MemoryTypes
  <2>3. content[memory] \in 1..MaxBatch
    BY <1>1, <2>2 DEF MemoryInv, InPre, InWorker, InInfer, InEngine, InPost, Types, MemoryTypes, NoPicture
  <2>4. caller.got \in Seq(1..MaxBatch)
    BY <1>1 DEF Types, CallerTypes
  <2>5. got \in Seq(1..MaxBatch) /\ Len(got) = Len(caller.got) + 1
    BY <2>3, <2>4
  <2>6. MemoryTypes'
    BY <1>1, <2>1, <2>2, SMTT(20) DEF Types, MemoryTypes, NoPicture
  <2> HIDE DEF got
  <2>7. CallerTypes'
    BY <1>1, <2>1, <2>5 DEF Types, CallerTypes, Calling
  <2>8. BatchInv'
    BY <1>1, <2>1, <2>5, SMTT(20) DEF Types, CallerTypes, BatchInv
  <2> QED BY <1>1, <1>2, <2>1, <2>6, <2>7, <2>8, TypesStutter DEF Shape, Types, poolVars
<1> QED BY <1>4, <1>5, <1>6, <1>7, <1>8, <1>9, <1>10, <1>11 DEF Caller_

(* The step of the worker in slot s makes it w. *)
Becomes(s, w) == workors' = [workors EXCEPT ![s] = w]

LEMMA BecomesKeeps ==
  ASSUME WorkerTypes, WorkerInv, NEW s \in Slots, NEW w \in WorkerStates, Sound(w), Becomes(s, w)
  PROVE  WorkerTypes' /\ WorkerInv'
BY DEF WorkerTypes, WorkerInv, Becomes

LEMMA PopBecomes ==
  ASSUME Shape, NEW s \in Slots, PopTask(s)
  PROVE  \E w \in WorkerStates :
           /\ Becomes(s, w) /\ Sound(w)
           /\ w.at = "popped" /\ w.picture = Head(task_queue) /\ w.memory = NoMemory
<1> DEFINE w == Worker("popped", Head(task_queue), NoMemory)
<1>1. Becomes(s, w)
  BY DEF PopTask, Becomes
<1>2. Head(task_queue) \in 1..MaxBatch
  BY HeadIsIn DEF PopTask, Shape, Types, TaskTypes
<1>3. w \in WorkerStates /\ Sound(w) /\ w.at = "popped" /\ w.picture = Head(task_queue) /\ w.memory = NoMemory
  BY <1>2, InferenceAssumption DEF Worker, WorkerStates, Sound, NoPicture
<1> QED BY <1>1, <1>3

LEMMA UncountBecomes ==
  ASSUME Shape, NEW s \in Slots, UncountTask(s)
  PROVE  \E w \in WorkerStates :
           /\ Becomes(s, w) /\ Sound(w)
           /\ w.at = "waiting" /\ w.picture = workors[s].picture /\ w.memory = NoMemory
<1> DEFINE w == [workors[s] EXCEPT !.at = "waiting"]
<1>1. Becomes(s, w)
  BY DEF UncountTask, Becomes
<1>2. workors[s] \in WorkerStates /\ Sound(workors[s]) /\ workors[s].at = "popped"
  BY DEF UncountTask, Shape, Types, WorkerTypes, WorkerInv
<1>3. w \in WorkerStates /\ Sound(w) /\ w.at = "waiting" /\ w.picture = workors[s].picture /\ w.memory = NoMemory
  BY <1>2 DEF WorkerStates, Sound
<1> QED BY <1>1, <1>3

LEMMA TakeBecomes ==
  ASSUME Shape, NEW s \in Slots, TakeMemory(s)
  PROVE  \E w \in WorkerStates :
           /\ Becomes(s, w) /\ Sound(w)
           /\ w.at = "filling" /\ w.picture = workors[s].picture /\ w.memory = Head(pre_queue)
<1> DEFINE w == [workors[s] EXCEPT !.at = "filling", !.memory = Head(pre_queue)]
<1>1. workors[s] \in WorkerStates /\ Sound(workors[s]) /\ workors[s].at = "waiting"
  BY DEF TakeMemory, Shape, Types, WorkerTypes, WorkerInv
<1>2. Becomes(s, w)
  BY DEF TakeMemory, Becomes, Shape, Types, WorkerTypes
<1>3. Head(pre_queue) \in Memories /\ Head(pre_queue) # NoMemory
  BY HeadIsIn, InferenceAssumption DEF TakeMemory, Shape, Types, MemoryTypes
<1>4. w \in WorkerStates /\ Sound(w) /\ w.at = "filling" /\ w.picture = workors[s].picture
      /\ w.memory = Head(pre_queue)
  BY <1>1, <1>3 DEF WorkerStates, Sound
<1> QED BY <1>2, <1>4

LEMMA ShapeWorker ==
  ASSUME Shape, crash = "none", NEW s \in Slots, Worker_(s)
  PROVE  Shape'
<1> USE InferenceAssumption
<1>1. Types /\ BatchInv /\ WorkerInv
  BY DEF Shape
<1>2. caller' = caller => CallerTypes' /\ BatchInv'
  BY <1>1, TypesStutter DEF BatchInv
<1>3. \A w \in WorkerStates : Sound(w) /\ Becomes(s, w) => WorkerTypes' /\ WorkerInv'
  BY <1>1, BecomesKeeps DEF Types
<1>4. CASE PopTask(s)
  <2>1. WorkerTypes' /\ WorkerInv'
    BY <1>3, <1>4, PopBecomes
  <2>2. TaskTypes'
    BY <1>1, <1>4, HeadIsIn DEF PopTask, Types, TaskTypes
  <2> QED BY <1>1, <1>2, <1>4, <2>1, <2>2, TypesStutter DEF PopTask, Shape, Types, memoryVars
<1>5. CASE UncountTask(s)
  <2>1. WorkerTypes' /\ WorkerInv'
    BY <1>3, <1>5, UncountBecomes
  <2>2. TaskTypes'
    BY <1>1, <1>5, CountDown DEF UncountTask, OneLess, Types, TaskTypes
  <2>3. PoolTypes'
    BY <1>1, <1>5 DEF UncountTask, Types, PoolTypes
  <2> QED BY <1>1, <1>2, <1>5, <2>1, <2>2, <2>3, TypesStutter DEF UncountTask, Shape, Types, memoryVars
<1>6. CASE TakeMemory(s)
  <2>1. WorkerTypes' /\ WorkerInv'
    BY <1>3, <1>6, TakeBecomes
  <2>2. MemoryTypes'
    BY <1>1, <1>6, HeadIsIn DEF TakeMemory, Types, MemoryTypes
  <2> QED BY <1>1, <1>2, <1>6, <2>1, <2>2, TypesStutter DEF TakeMemory, Shape, Types
<1>7. CASE AssertMemory(s)
  <2>1. PoolTypes'
    BY <1>1, <1>7 DEF AssertMemory, Types, PoolTypes, poolVars
  <2> QED BY <1>1, <1>2, <1>7, <2>1, TypesStutter
          DEF AssertMemory, Shape, Types, WorkerInv, poolVars, memoryVars
<1>8. CASE PreProcess(s)
  <2>1. Becomes(s, Polling)
    BY <1>8 DEF PreProcess, Becomes
  <2>2. WorkerTypes' /\ WorkerInv'
    BY <1>3, <2>1, RestingWorkers
  <2>3. workors[s] \in WorkerStates /\ Sound(workors[s]) /\ workors[s].at = "filling"
    BY <1>1, <1>8 DEF PreProcess, Types, WorkerTypes, WorkerInv
  <2>4. workors[s].memory \in Memories /\ workors[s].picture \in 0..MaxBatch
    BY <2>3 DEF WorkerStates, Sound
  <2>5. MemoryTypes'
    BY <1>1, <1>8, <2>4 DEF PreProcess, Filled, Types, MemoryTypes
  <2>6. PoolTypes'
    BY <1>1, <1>8 DEF PreProcess, Types, PoolTypes
  <2> QED BY <1>1, <1>2, <1>8, <2>2, <2>5, <2>6, TypesStutter DEF PreProcess, Shape, Types
<1>9. CASE LeavePool(s)
  <2>1. Becomes(s, NoThread) \/ Becomes(s, Ended)
    BY <1>9 DEF LeavePool, Becomes
  <2>2. WorkerTypes' /\ WorkerInv'
    BY <1>3, <2>1, RestingWorkers
  <2>3. PoolTypes'
    <3>1. exit_thread_num' \in 0..OnceAdd
      BY <1>1, <1>9 DEF LeavePool, Types, PoolTypes
    <3>2. live_thread_num' \in 0..MaxThreads
      BY <1>1, <1>9 DEF LeavePool, Types, PoolTypes
    <3>3. crash' \in {"none", "join"}
      BY <1>9 DEF LeavePool
    <3>4. UNCHANGED <<busy_thread_num, pool_running, running, asked, manager>>
      BY <1>9 DEF LeavePool
    <3> QED BY <1>1, <3>1, <3>2, <3>3, <3>4 DEF Types, PoolTypes
  <2> QED BY <1>1, <1>2, <1>9, <2>2, <2>3, TypesStutter DEF LeavePool, Shape, Types, memoryVars
<1> QED BY <1>4, <1>5, <1>6, <1>7, <1>8, <1>9 DEF Worker_

(* Manager starts threads in free slots, and no more than MaxThreads live. *)
LEMMA AddedFit ==
  ASSUME Shape
  PROVE  /\ Added \subseteq {s \in Slots : workors[s].at = "none"}
         /\ Cardinality(Added) \in 0..MaxThreads - live_thread_num
<1> USE InferenceAssumption
<1>1. live_thread_num \in 0..MaxThreads
  BY DEF Shape, Types, PoolTypes
<1>2. Wanted \in 0..MaxThreads - live_thread_num
  BY <1>1 DEF Wanted, Least
<1>3. FreeSlots \in SUBSET Slots /\ Added \subseteq FreeSlots
  BY DEF FreeSlots, Added, Lowest
<1>4. Cardinality(Added) <= Wanted
  BY <1>2, <1>3, LowestBound DEF Added
<1>5. Cardinality(Added) \in Nat
  BY <1>3, SlotsFinite
<1>6. Added \subseteq {s \in Slots : workors[s].at = "none"}
  BY <1>3 DEF FreeSlots
<1> QED BY <1>1, <1>2, <1>4, <1>5, <1>6

(* A round of Manager changes no picture, no memory and no counted worker. *)
LEMMA RoundWorkers ==
  ASSUME Shape, ManagerRound
  PROVE  \A s \in Slots :
           \/ workors'[s] = workors[s]
           \/ workors[s].at = "none" /\ workors'[s] = Polling
<1>1. workors' = [s \in Slots |-> IF s \in Added THEN Polling ELSE workors[s]]
  BY DEF ManagerRound
<1> QED BY <1>1, AddedFit

LEMMA ShapeManager ==
  ASSUME Shape, crash = "none", ManagerRound
  PROVE  Shape'
<1> USE InferenceAssumption
<1>1. Types /\ BatchInv /\ WorkerInv
  BY DEF Shape
<1>2. WorkerTypes' /\ WorkerInv'
  <2>1. workors' = [s \in Slots |-> IF s \in Added THEN Polling ELSE workors[s]]
    BY DEF ManagerRound
  <2>2. Polling \in WorkerStates /\ Sound(Polling)
    BY RestingWorkers
  <2> QED BY <1>1, <2>1, <2>2 DEF Types, WorkerTypes, WorkerInv
<1>3. PoolTypes'
  <2>1. live_thread_num' \in 0..MaxThreads
    BY <1>1, AddedFit DEF ManagerRound, Types, PoolTypes
  <2>2. exit_thread_num' \in 0..OnceAdd
    BY <1>1 DEF ManagerRound, Types, PoolTypes
  <2>3. asked' \in BOOLEAN
    BY <1>1, Zenon DEF ManagerRound, Types, PoolTypes
  <2>4. manager' \in {"running", "ended"} /\ crash' \in {"none", "index"}
    BY DEF ManagerRound
  <2>5. UNCHANGED <<busy_thread_num, pool_running, running>>
    BY DEF ManagerRound
  <2> QED BY <1>1, <2>1, <2>2, <2>3, <2>4, <2>5 DEF Types, PoolTypes
<1>4. UNCHANGED <<task_queue, task_queue_size, pre_queue, infer_queue, post_queue, content, engine,
                  caller>>
  BY DEF ManagerRound, memoryVars
<1>5. BatchInv'
  BY <1>1, <1>4 DEF BatchInv
<1> QED BY <1>1, <1>2, <1>3, <1>4, <1>5, TypesStutter DEF Shape, Types

LEMMA ShapeEngine ==
  ASSUME Shape, NEW e \in Engines, Engine_(e)
  PROVE  Shape'
<1> USE InferenceAssumption
<1>1. Types /\ BatchInv /\ WorkerInv
  BY DEF Shape
<1>2. UNCHANGED <<poolVars, running, caller, crash>>
  BY DEF Engine_, TakeFilled, Infer, LeaveInfer
<1>3. MemoryTypes'
  <2>1. CASE TakeFilled(e)
    BY <1>1, <2>1, HeadIsIn DEF TakeFilled, Types, MemoryTypes
  <2>2. CASE Infer(e)
    BY <1>1, <2>2 DEF Infer, Types, MemoryTypes
  <2>3. CASE LeaveInfer(e)
    BY <1>1, <2>3 DEF LeaveInfer, Types, MemoryTypes, memoryVars
  <2> QED BY <2>1, <2>2, <2>3 DEF Engine_
<1>4. BatchInv' /\ WorkerInv'
  BY <1>1, <1>2 DEF BatchInv, WorkerInv, poolVars
<1> QED BY <1>1, <1>2, <1>3, <1>4, TypesStutter DEF Shape, Types, poolVars

LEMMA ShapeStep ==
  ASSUME Shape, MemoryInv, [InferenceNext]_inferenceVars
  PROVE  Shape'
<1>1. CASE UNCHANGED inferenceVars
  <2>1. UNCHANGED <<poolVars, memoryVars, engine, running, caller, crash>>
    BY <1>1 DEF inferenceVars
  <2>2. BatchInv' /\ WorkerInv'
    BY <2>1 DEF Shape, BatchInv, WorkerInv, poolVars
  <2> QED BY <2>1, <2>2, TypesStutter DEF Shape, Types, poolVars, memoryVars
<1>2. CASE InferenceNext
  BY <1>2, ShapeCaller, ShapeWorker, ShapeManager, ShapeEngine DEF InferenceNext
<1> QED BY <1>1, <1>2

(***************************************************************************)
(* The queue of tasks and its count                                        *)
(***************************************************************************)

LEMMA CountedSlots ==
  /\ IsFiniteSet(Popped) /\ Cardinality(Popped) \in 0..MaxThreads
  /\ IsFiniteSet(Busy) /\ Cardinality(Busy) \in 0..MaxThreads
<1>1. Popped \in SUBSET Slots /\ Busy \in SUBSET Slots
  BY DEF Popped, Busy
<1> QED BY <1>1, SlotsFinite

LEMMA CountInit == Init => CountInv
<1> SUFFICES ASSUME Init PROVE CountInv
  OBVIOUS
<1>1. \A s \in Slots : workors[s].at \in {"polling", "none"}
  BY DEF Init, Started, Polling, NoThread, Worker
<1>2. Popped = {} /\ Busy = {}
  BY <1>1 DEF Popped, Busy
<1>3. Cardinality(Popped) = 0 /\ Cardinality(Busy) = 0
  BY <1>2, FS_EmptySet
<1>4. Len(task_queue) = 0 /\ task_queue_size = 0 /\ busy_thread_num = 0 /\ caller.at = "idle"
  BY DEF Init, Started
<1> QED BY <1>3, <1>4, InferenceAssumption DEF CountInv, Tasks, Uncounted

(* The slots that are counted after the worker in slot s became w. *)
LEMMA BecomesCounted ==
  ASSUME WorkerTypes, NEW s \in Slots, NEW w, Becomes(s, w)
  PROVE  /\ Popped' = IF w.at = "popped" THEN Popped \cup {s} ELSE Popped \ {s}
         /\ Busy' = IF w.at \in {"waiting", "filling"} THEN Busy \cup {s} ELSE Busy \ {s}
<1>1. workors'[s] = w /\ \A t \in Slots : t # s => workors'[t] = workors[t]
  BY DEF Becomes, WorkerTypes
<1> QED BY <1>1 DEF Popped, Busy

LEMMA CountStutter ==
  ASSUME CountInv, UNCHANGED <<task_queue, task_queue_size, busy_thread_num>>,
         Popped' = Popped, Busy' = Busy,
         caller.at = "counting" <=> caller'.at = "counting"
  PROVE  CountInv'
BY DEF CountInv, Tasks, Uncounted

LEMMA CountStep ==
  ASSUME Shape, CountInv, [InferenceNext]_inferenceVars
  PROVE  CountInv'
<1> USE InferenceAssumption
<1> DEFINE p == Cardinality(Popped)
           b == Cardinality(Busy)
           n == Len(task_queue)
<1>1. /\ n \in Nat /\ task_queue_size \in 0..Width - 1
      /\ task_queue \in Seq(1..MaxBatch) /\ WorkerTypes
  BY DEF Shape, Types, TaskTypes
<1>2. p \in 0..MaxThreads /\ b \in 0..MaxThreads
  BY CountedSlots
<1>3. /\ n + p <= MaxQueue
      /\ task_queue_size = IF n + p < Uncounted THEN Width - 1 ELSE n + p - Uncounted
      /\ busy_thread_num = b
  <2>1. Tasks = n + p /\ Uncounted \in {0, 1}
    BY DEF Tasks, Uncounted
  <2> HIDE DEF p, b, n
  <2>2. busy_thread_num = b
    BY DEF CountInv, b
  <2> QED BY <1>1, <1>2, <2>1, <2>2 DEF CountInv
<1>4. workors' = workors => Popped' = Popped /\ Busy' = Busy
  BY DEF Popped, Busy
<1>5. CASE AddTaskToQueue
  <2>1. caller.at = "adding" /\ caller'.at = "counting" /\ task_queue_size # MaxQueue
    BY <1>5 DEF AddTaskToQueue, QueueFull, Shape, Types, CallerTypes
  <2>2. Len(task_queue') = n + 1
    BY <1>1, <1>5 DEF AddTaskToQueue
  <2>3. UNCHANGED <<task_queue_size, workors, busy_thread_num>>
    BY <1>5 DEF AddTaskToQueue
  <2> HIDE DEF p, b, n
  <2>4. Cardinality(Popped') = p /\ Cardinality(Busy') = b
    BY <1>4, <2>3 DEF p, b
  <2>5. n + 1 + p <= MaxQueue /\ task_queue_size = n + p
    BY <1>1, <1>2, <1>3, <2>1 DEF Uncounted
  <2> QED BY <1>1, <1>2, <1>3, <2>1, <2>2, <2>3, <2>4, <2>5 DEF CountInv, Tasks, Uncounted
<1>6. CASE CountTask
  <2>1. caller.at = "counting" /\ caller'.at # "counting"
    BY <1>6 DEF CountTask, Shape, Types, CallerTypes
  <2>2. UNCHANGED <<task_queue, workors, busy_thread_num>>
    BY <1>6 DEF CountTask
  <2>3. task_queue_size' = IF task_queue_size = Width - 1 THEN 0 ELSE task_queue_size + 1
    BY <1>1, <1>6, CountUp DEF CountTask
  <2>4. Cardinality(Popped') = p /\ Cardinality(Busy') = b /\ Len(task_queue') = n
    BY <1>4, <2>2
  <2> HIDE DEF p, b, n
  <2>5. task_queue_size' = n + p
    BY <1>1, <1>2, <1>3, <2>1, <2>3 DEF Uncounted
  <2> QED BY <1>1, <1>2, <1>3, <2>1, <2>2, <2>4, <2>5 DEF CountInv, Tasks, Uncounted
<1>7. ASSUME NEW s \in Slots, PopTask(s) PROVE CountInv'
  <2>1. PICK w : Becomes(s, w) /\ w.at = "popped"
    BY <1>7, PopBecomes
  <2>2. workors[s].at = "polling"
    BY <1>7 DEF PopTask, Polling, Worker
  <2>3. Popped' = Popped \cup {s} /\ Busy' = Busy \ {s} /\ s \notin Popped /\ s \notin Busy
    BY <1>1, <2>1, <2>2, BecomesCounted DEF Popped, Busy
  <2>4. Cardinality(Popped') = p + 1 /\ Cardinality(Busy') = b
    BY <2>3, CountedSlots, FS_AddElement, FS_RemoveElement
  <2>5. Len(task_queue') = n - 1 /\ UNCHANGED <<task_queue_size, busy_thread_num, caller>>
    BY <1>1, <1>7 DEF PopTask
  <2> HIDE DEF p, b, n
  <2> QED BY <1>1, <1>2, <1>3, <2>4, <2>5 DEF CountInv, Tasks, Uncounted
<1>8. ASSUME NEW s \in Slots, UncountTask(s) PROVE CountInv'
  <2>1. PICK w : Becomes(s, w) /\ w.at = "waiting"
    BY <1>8, UncountBecomes
  <2>2. workors[s].at = "popped"
    BY <1>8 DEF UncountTask
  <2>3. Popped' = Popped \ {s} /\ Busy' = Busy \cup {s} /\ s \in Popped /\ s \notin Busy
    BY <1>1, <2>1, <2>2, BecomesCounted DEF Popped, Busy
  <2>4. Cardinality(Popped') = p - 1 /\ Cardinality(Busy') = b + 1
    BY <2>3, CountedSlots, FS_AddElement, FS_RemoveElement
  <2>5. Cardinality(Popped') \in Nat
    BY CountedSlots, <2>3, FS_RemoveElement, FS_CardinalityType
  <2>6. task_queue_size' = IF task_queue_size = 0 THEN Width - 1 ELSE task_queue_size - 1
    BY <1>1, <1>8, CountDown DEF UncountTask, OneLess
  <2>7. Len(task_queue') = n /\ busy_thread_num' = busy_thread_num + 1 /\ caller' = caller
    BY <1>8 DEF UncountTask
  <2> HIDE DEF p, b, n
  <2>8. Uncounted \in {0, 1} /\ Uncounted' = Uncounted
    BY <2>7 DEF Uncounted
  <2> QED BY <1>1, <1>2, <1>3, <2>4, <2>5, <2>6, <2>7, <2>8 DEF CountInv, Tasks
<1>9. ASSUME NEW s \in Slots, TakeMemory(s) PROVE CountInv'
  <2>1. PICK w : Becomes(s, w) /\ w.at = "filling"
    BY <1>9, TakeBecomes
  <2>2. workors[s].at = "waiting"
    BY <1>9 DEF TakeMemory
  <2>3. Popped' = Popped /\ Busy' = Busy
    BY <1>1, <2>1, <2>2, BecomesCounted DEF Popped, Busy
  <2> QED BY <1>9, <2>3, CountStutter DEF TakeMemory
<1>10. ASSUME NEW s \in Slots, PreProcess(s) PROVE CountInv'
  <2>1. Becomes(s, Polling) /\ Polling.at = "polling"
    BY <1>10 DEF PreProcess, Becomes, Polling, Worker
  <2>2. workors[s].at = "filling"
    BY <1>10 DEF PreProcess
  <2>3. Popped' = Popped /\ Busy' = Busy \ {s} /\ s \in Busy
    BY <1>1, <2>1, <2>2, BecomesCounted DEF Popped, Busy
  <2>4. Cardinality(Popped') = p /\ Cardinality(Busy') = b - 1
    BY <2>3, CountedSlots, FS_RemoveElement
  <2>5. /\ Len(task_queue') = n /\ busy_thread_num' = busy_thread_num - 1
        /\ UNCHANGED <<task_queue_size, caller>>
    BY <1>10 DEF PreProcess
  <2> HIDE DEF p, b, n
  <2> QED BY <1>1, <1>2, <1>3, <2>4, <2>5 DEF CountInv, Tasks, Uncounted
<1>11. ASSUME NEW s \in Slots, LeavePool(s) PROVE CountInv'
  <2>1. PICK w \in {NoThread, Ended} : Becomes(s, w)
    BY <1>11 DEF LeavePool, Becomes
  <2>2. w.at \in {"none", "ended"} /\ workors[s].at = "polling"
    BY <1>11 DEF LeavePool, NoThread, Ended, Polling, Worker
  <2>3. Popped' = Popped /\ Busy' = Busy
    BY <1>1, <2>1, <2>2, BecomesCounted DEF Popped, Busy
  <2> QED BY <1>11, <2>3, CountStutter DEF LeavePool
<1>12. CASE JoinWorker
  <2>1. Becomes(NextToJoin, NoThread) /\ NoThread.at = "none"
    BY <1>12 DEF JoinWorker, Becomes, NoThread, Worker
  <2>2. workors[NextToJoin].at = "ended"
    BY <1>12 DEF JoinWorker, Ended, Worker
  <2>3. CASE NextToJoin \in Slots
    <3>1. Popped' = Popped /\ Busy' = Busy
      BY <1>1, <2>1, <2>2, <2>3, BecomesCounted DEF Popped, Busy
    <3> QED BY <1>12, <3>1, CountStutter DEF JoinWorker
  <2>4. CASE NextToJoin \notin Slots
    <3>1. workors' = workors
      BY <1>1, <2>1, <2>4 DEF Becomes, WorkerTypes
    <3> QED BY <1>4, <1>12, <3>1, CountStutter DEF JoinWorker
  <2> QED BY <2>3, <2>4
<1>13. CASE ManagerRound
  <2>1. \A s \in Slots : workors'[s] = workors[s] \/ (workors[s].at = "none" /\ workors'[s].at = "polling")
    BY <1>13, RoundWorkers DEF Polling, Worker
  <2>2. Popped' = Popped /\ Busy' = Busy
    BY <2>1 DEF Popped, Busy
  <2> QED BY <1>13, <2>2, CountStutter DEF ManagerRound
<1>14. CASE BeginBatch \/ Destroy \/ GetResultAsynchr \/ StopPool \/ Destroyed
  <2>1. UNCHANGED <<task_queue, task_queue_size, workors, busy_thread_num>>
    BY <1>14 DEF BeginBatch, Destroy, GetResultAsynchr, StopPool, Destroyed, poolVars
  <2>2. caller.at # "counting" /\ caller'.at # "counting"
    <3>1. caller.at # "counting"
      BY <1>14 DEF BeginBatch, Destroy, GetResultAsynchr, StopPool, Destroyed, Destroying
    <3>2. CASE BeginBatch \/ StopPool
      BY <3>1, <3>2 DEF BeginBatch, StopPool
    <3>3. CASE Destroy
      BY <3>1, <3>3 DEF Destroy, Shape, Types, CallerTypes
    <3>4. CASE GetResultAsynchr
      BY <3>1, <3>4 DEF GetResultAsynchr, Shape, Types, CallerTypes
    <3>5. CASE Destroyed
      BY <3>1, <3>5 DEF Destroyed, Shape, Types, CallerTypes
    <3> QED BY <1>14, <3>1, <3>2, <3>3, <3>4, <3>5
  <2> QED BY <1>4, <2>1, <2>2, CountStutter
<1>15. ASSUME NEW e \in Engines, Engine_(e) PROVE CountInv'
  BY <1>4, <1>15, CountStutter DEF Engine_, TakeFilled, Infer, LeaveInfer, poolVars
<1>16. ASSUME NEW s \in Slots, AssertMemory(s) PROVE CountInv'
  BY <1>4, <1>16, CountStutter DEF AssertMemory, poolVars
<1>17. CASE UNCHANGED inferenceVars
  BY <1>4, <1>17, CountStutter DEF inferenceVars, poolVars
<1> QED BY <1>5, <1>6, <1>7, <1>8, <1>9, <1>10, <1>11, <1>12, <1>13, <1>14, <1>15, <1>16, <1>17
        DEF InferenceNext, Caller_, Worker_

(***************************************************************************)
(* Memories                                                                *)
(***************************************************************************)

Located(m) == InPre(m) \/ InWorker(m) \/ InInfer(m) \/ InEngine(m) \/ InPost(m)

LEMMA MemoryInit == Init => MemoryInv
<1> SUFFICES ASSUME Init, NEW m \in Memories PROVE InPre(m)
  BY DEF MemoryInv
<1>1. Once(pre_queue, m)
  BY AllFreeHasAll DEF Init, Started
<1>2. Never(infer_queue, m) /\ Never(post_queue, m)
  BY NeverInNone DEF Init, Started
<1>3. \A s \in Slots : workors[s].memory = NoMemory
  BY RestingWorkers DEF Init, Started
<1>4. Never(Carried, m)
  BY <1>3, InferenceAssumption DEF Never, Carried
<1>5. Never(engine, m)
  BY InferenceAssumption DEF Never, Init, Started
<1>6. content[m] = NoPicture
  BY DEF Init, Started
<1> QED BY <1>1, <1>2, <1>4, <1>5, <1>6 DEF InPre

LEMMA BecomesCarries ==
  ASSUME WorkerTypes, NEW s \in Slots, NEW w, Becomes(s, w)
  PROVE  /\ Changed(Carried, Carried', s) /\ Carried[s] = workors[s].memory /\ Carried'[s] = w.memory
         /\ Changed(Shown, Shown', s) /\ Shown[s] = workors[s].picture /\ Shown'[s] = w.picture
<1>1. workors'[s] = w /\ \A t \in Slots : t # s => workors'[t] = workors[t]
  BY DEF Becomes, WorkerTypes
<1> QED BY <1>1 DEF Changed, Carried, Shown

LEMMA MemoryStutter ==
  ASSUME MemoryInv, UNCHANGED <<pre_queue, infer_queue, post_queue, content, engine>>,
         \A s \in Slots : workors'[s].memory = workors[s].memory
  PROVE  MemoryInv'
<1>1. Carried' = Carried
  BY DEF Carried
<1> QED BY <1>1 DEF MemoryInv, InPre, InWorker, InInfer, InEngine, InPost

LEMMA MemoryTaken ==
  ASSUME Shape, MemoryInv, NEW s \in Slots, TakeMemory(s)
  PROVE  MemoryInv'
<1> DEFINE k == Head(pre_queue)
<1>1. PICK w \in WorkerStates : Becomes(s, w) /\ w.memory = k
  BY TakeBecomes
<1>2. pre_queue \in Seq(Memories) /\ pre_queue # <<>> /\ pre_queue' = Tail(pre_queue)
  BY DEF TakeMemory, Shape, Types, MemoryTypes
<1>3. UNCHANGED <<infer_queue, post_queue, content, engine>>
  BY DEF TakeMemory
<1>4. workors[s].memory = NoMemory
  BY DEF TakeMemory, Shape, WorkerInv, Sound
<1>5. /\ Changed(Carried, Carried', s) /\ Carried[s] = NoMemory /\ Carried'[s] = k
  BY <1>1, <1>4, BecomesCarries DEF Shape, Types
<1> SUFFICES ASSUME NEW m \in Memories PROVE Located(m)'
  BY DEF MemoryInv, Located
<1>6. Located(m)
  BY DEF MemoryInv, Located
<1>7. CASE m = k
  <2>1. ~Never(pre_queue, m)
    BY <1>2, <1>7, HeadIsIn
  <2>2. InPre(m)
    BY <1>6, <2>1 DEF Located, InPre, InWorker, InInfer, InEngine, InPost
  <2>3. Never(pre_queue', m)
    BY <1>2, <1>7, <2>2, PopOnce DEF InPre
  <2>4. Once(Carried', m)
    BY <1>5, <1>7, <2>2, ChangeNever DEF InPre
  <2> QED BY <1>3, <2>2, <2>3, <2>4 DEF InPre, InWorker, Located
<1>8. CASE m # k
  <2>1. Once(pre_queue, m) => Once(pre_queue', m)
    BY <1>2, <1>8, PopOnce
  <2>2. Never(pre_queue, m) => Never(pre_queue', m)
    BY <1>2, PopNever
  <2>3. Once(Carried, m) => Once(Carried', m)
    BY <1>5, <1>8, ChangeOnce, InferenceAssumption
  <2>4. Never(Carried, m) => Never(Carried', m)
    BY <1>5, <1>8, ChangeNever
  <2> QED BY <1>3, <1>6, <2>1, <2>2, <2>3, <2>4
          DEF Located, InPre, InWorker, InInfer, InEngine, InPost
<1> QED BY <1>7, <1>8

LEMMA MemoryFilled ==
  ASSUME Shape, MemoryInv, NEW s \in Slots, PreProcess(s)
  PROVE  MemoryInv'
<1> DEFINE k == workors[s].memory
<1>1. Becomes(s, Polling) /\ Polling.memory = NoMemory
  BY RestingWorkers DEF PreProcess, Becomes
<1>2. k \in Memories /\ workors[s].picture # NoPicture
  BY DEF PreProcess, Shape, Types, WorkerTypes, WorkerStates, WorkerInv, Sound
<1>3. /\ infer_queue \in Seq(Memories) /\ infer_queue' = Append(infer_queue, k)
      /\ content' = [content EXCEPT ![k] = workors[s].picture]
      /\ UNCHANGED <<pre_queue, post_queue, engine>>
  BY DEF PreProcess, Filled, Shape, Types, MemoryTypes
<1>4. /\ Changed(Carried, Carried', s) /\ Carried[s] = k /\ Carried'[s] = NoMemory
  BY <1>1, BecomesCarries DEF Shape, Types
<1>5. content'[k] # NoPicture /\ \A m \in Memories : m # k => content'[m] = content[m]
  BY <1>2, <1>3 DEF Shape, Types, MemoryTypes
<1> HIDE DEF k
<1> SUFFICES ASSUME NEW m \in Memories PROVE Located(m)'
  BY DEF MemoryInv, Located
<1>6. Located(m)
  BY DEF MemoryInv, Located
<1>7. CASE m = k
  <2>1. ~Never(Carried, m)
    BY <1>4, <1>7 DEF Never, Changed
  <2>2. InWorker(m)
    BY <1>6, <2>1 DEF Located, InPre, InWorker, InInfer, InEngine, InPost
  <2>3. Never(Carried', m)
    BY <1>4, <1>7, <2>2, ChangeOnce, InferenceAssumption DEF InWorker
  <2>4. Once(infer_queue', m)
    BY <1>3, <1>7, <2>2, PushNever DEF InWorker
  <2> QED BY <1>3, <1>5, <1>7, <2>2, <2>3, <2>4 DEF InWorker, InInfer, Located
<1>8. CASE m # k
  <2>1. Once(infer_queue, m) => Once(infer_queue', m)
    BY <1>2, <1>3, <1>8, PushOnce
  <2>2. Never(infer_queue, m) => Never(infer_queue', m)
    BY <1>2, <1>3, <1>8, PushNever
  <2>3. Once(Carried, m) => Once(Carried', m)
    BY <1>4, <1>8, ChangeOnce, InferenceAssumption
  <2>4. Never(Carried, m) => Never(Carried', m)
    BY <1>4, ChangeNever, InferenceAssumption
  <2> QED BY <1>3, <1>5, <1>6, <1>8, <2>1, <2>2, <2>3, <2>4
          DEF Located, InPre, InWorker, InInfer, InEngine, InPost
<1> QED BY <1>7, <1>8

LEMMA MemoryExecuted ==
  ASSUME Shape, MemoryInv, NEW e \in Engines, TakeFilled(e)
  PROVE  MemoryInv'
<1> DEFINE k == Head(infer_queue)
<1>1. infer_queue \in Seq(Memories) /\ infer_queue # <<>> /\ infer_queue' = Tail(infer_queue)
  BY DEF TakeFilled, Shape, Types, MemoryTypes
<1>2. UNCHANGED <<pre_queue, post_queue, content, workors>>
  BY DEF TakeFilled, poolVars
<1>3. Changed(engine, engine', e) /\ engine[e] = Idle /\ engine'[e] = k
  BY DEF TakeFilled, Shape, Types, MemoryTypes, Changed
<1>4. Carried' = Carried
  BY <1>2 DEF Carried
<1> SUFFICES ASSUME NEW m \in Memories PROVE Located(m)'
  BY DEF MemoryInv, Located
<1>5. Located(m) /\ m # Idle
  BY InferenceAssumption DEF MemoryInv, Located
<1>6. CASE m = k
  <2>1. ~Never(infer_queue, m)
    BY <1>1, <1>6, HeadIsIn
  <2>2. InInfer(m)
    BY <1>5, <2>1 DEF Located, InPre, InWorker, InInfer, InEngine, InPost
  <2>3. Never(infer_queue', m)
    BY <1>1, <1>6, <2>2, PopOnce DEF InInfer
  <2>4. Once(engine', m)
    BY <1>3, <1>6, <2>2, ChangeNever DEF InInfer
  <2> QED BY <1>2, <1>4, <2>2, <2>3, <2>4 DEF InInfer, InEngine, Located
<1>7. CASE m # k
  <2>1. Once(infer_queue, m) => Once(infer_queue', m)
    BY <1>1, <1>7, PopOnce
  <2>2. Never(infer_queue, m) => Never(infer_queue', m)
    BY <1>1, PopNever
  <2>3. Once(engine, m) => Once(engine', m)
    BY <1>3, <1>5, <1>7, ChangeOnce
  <2>4. Never(engine, m) => Never(engine', m)
    BY <1>3, <1>7, ChangeNever
  <2> QED BY <1>2, <1>4, <1>5, <2>1, <2>2, <2>3, <2>4
          DEF Located, InPre, InWorker, InInfer, InEngine, InPost
<1> QED BY <1>6, <1>7

LEMMA MemoryInferred ==
  ASSUME Shape, MemoryInv, NEW e \in Engines, Infer(e)
  PROVE  MemoryInv'
<1> DEFINE k == engine[e]
<1>1. /\ k \in Memories /\ post_queue \in Seq(Memories)
      /\ post_queue' = Append(post_queue, k)
  BY DEF Infer, Shape, Types, MemoryTypes
<1>2. UNCHANGED <<pre_queue, infer_queue, content, workors>>
  BY DEF Infer, poolVars
<1>3. Changed(engine, engine', e) /\ engine'[e] = Idle
  BY DEF Infer, Shape, Types, MemoryTypes, Changed
<1>4. Carried' = Carried
  BY <1>2 DEF Carried
<1> SUFFICES ASSUME NEW m \in Memories PROVE Located(m)'
  BY DEF MemoryInv, Located
<1>5. Located(m) /\ m # Idle
  BY InferenceAssumption DEF MemoryInv, Located
<1>6. CASE m = k
  <2>1. ~Never(engine, m)
    BY <1>3, <1>6 DEF Never, Changed
  <2>2. InEngine(m)
    BY <1>5, <2>1 DEF Located, InPre, InWorker, InInfer, InEngine, InPost
  <2>3. Never(engine', m)
    BY <1>3, <1>5, <1>6, <2>2, ChangeOnce DEF InEngine
  <2>4. Once(post_queue', m)
    BY <1>1, <1>6, <2>2, PushNever DEF InEngine
  <2> QED BY <1>2, <1>4, <2>2, <2>3, <2>4 DEF InEngine, InPost, Located
<1>7. CASE m # k
  <2>1. Once(post_queue, m) => Once(post_queue', m)
    BY <1>1, <1>7, PushOnce
  <2>2. Never(post_queue, m) => Never(post_queue', m)
    BY <1>1, <1>7, PushNever
  <2>3. Once(engine, m) => Once(engine', m)
    BY <1>3, <1>5, <1>7, ChangeOnce
  <2>4. Never(engine, m) => Never(engine', m)
    BY <1>3, <1>5, ChangeNever
  <2> QED BY <1>2, <1>4, <1>5, <2>1, <2>2, <2>3, <2>4
          DEF Located, InPre, InWorker, InInfer, InEngine, InPost
<1> QED BY <1>6, <1>7

(* GetResultAsynchr collects a memory that is filled. *)
LEMMA CollectedMemory ==
  ASSUME Shape, MemoryInv, GetResultAsynchr
  PROVE  /\ Head(post_queue) \in Memories /\ InPost(Head(post_queue))
         /\ content' = [content EXCEPT ![Head(post_queue)] = NoPicture]
         /\ pre_queue' = Append(pre_queue, Head(post_queue))
         /\ post_queue # <<>> /\ post_queue' = Tail(post_queue)
         /\ caller'.got = Append(caller.got, content[Head(post_queue)])
         /\ UNCHANGED <<infer_queue, engine, workors, task_queue>>
         /\ caller'.at = IF Len(caller'.got) = caller.size THEN "idle" ELSE "collecting"
         /\ caller.at = "collecting" /\ caller'.next = caller.next /\ caller'.size = caller.size
<1> DEFINE k == Head(post_queue)
<1>1. /\ caller.at = "collecting" /\ post_queue # <<>> /\ post_queue' = Tail(post_queue)
      /\ pre_queue' = Append(pre_queue, k)
      /\ content' = [content EXCEPT ![k] = NoPicture]
      /\ caller' = [caller EXCEPT !.got = Append(caller.got, content[k]),
                     !.at = IF Len(Append(caller.got, content[k])) = caller.size THEN "idle" ELSE @]
      /\ UNCHANGED <<infer_queue, engine, workors, task_queue>>
  BY DEF GetResultAsynchr, PutBack, poolVars
<1>2. k \in Memories /\ ~Never(post_queue, k)
  BY <1>1, HeadIsIn DEF Shape, Types, MemoryTypes
<1>3. InPost(k)
  BY <1>2 DEF MemoryInv, InPre, InWorker, InInfer, InEngine, InPost
<1>4. /\ caller'.got = Append(caller.got, content[k])
      /\ caller'.at = IF Len(Append(caller.got, content[k])) = caller.size THEN "idle" ELSE "collecting"
      /\ caller'.next = caller.next /\ caller'.size = caller.size
  BY <1>1 DEF Shape, Types, CallerTypes
<1> HIDE DEF k
<1>5. caller'.at = IF Len(caller'.got) = caller.size THEN "idle" ELSE "collecting"
  BY <1>4
<1> QED BY <1>1, <1>2, <1>3, <1>4, <1>5 DEF k

LEMMA MemoryCollected ==
  ASSUME Shape, MemoryInv, GetResultAsynchr
  PROVE  MemoryInv'
<1> DEFINE k == Head(post_queue)
<1>1. /\ k \in Memories /\ InPost(k)
      /\ content' = [content EXCEPT ![k] = NoPicture]
      /\ pre_queue' = Append(pre_queue, k)
      /\ post_queue # <<>> /\ post_queue' = Tail(post_queue)
      /\ UNCHANGED <<infer_queue, engine, workors>>
  BY CollectedMemory
<1>2. pre_queue \in Seq(Memories) /\ post_queue \in Seq(Memories)
  BY DEF Shape, Types, MemoryTypes
<1>3. Carried' = Carried
  BY <1>1 DEF Carried
<1>4. content'[k] = NoPicture /\ \A m \in Memories : m # k => content'[m] = content[m]
  BY <1>1 DEF Shape, Types, MemoryTypes
<1> SUFFICES ASSUME NEW m \in Memories PROVE Located(m)'
  BY DEF MemoryInv, Located
<1>5. Located(m)
  BY DEF MemoryInv, Located
<1>6. CASE m = k
  <2>1. Never(post_queue', m)
    BY <1>1, <1>2, <1>6, PopOnce DEF InPost
  <2>2. Once(pre_queue', m)
    BY <1>1, <1>2, <1>6, PushNever DEF InPost
  <2> QED BY <1>1, <1>3, <1>4, <1>6, <2>1, <2>2 DEF InPost, InPre, Located
<1>7. CASE m # k
  <2>1. Once(post_queue, m) => Once(post_queue', m)
    BY <1>1, <1>2, <1>7, PopOnce
  <2>2. Never(post_queue, m) => Never(post_queue', m)
    BY <1>1, <1>2, PopNever
  <2>3. Once(pre_queue, m) => Once(pre_queue', m)
    BY <1>1, <1>2, <1>7, PushOnce
  <2>4. Never(pre_queue, m) => Never(pre_queue', m)
    BY <1>1, <1>2, <1>7, PushNever
  <2> HIDE DEF k
  <2> QED BY <1>1, <1>3, <1>4, <1>5, <1>7, <2>1, <2>2, <2>3, <2>4
          DEF Located, InPre, InWorker, InInfer, InEngine, InPost
<1> QED BY <1>6, <1>7

(* The other steps of workers carry nothing before or after. *)
LEMMA MemoryUncarried ==
  ASSUME Shape, NEW s \in Slots, PopTask(s) \/ UncountTask(s) \/ LeavePool(s)
  PROVE  \A t \in Slots : workors'[t].memory = workors[t].memory
<1>1. workors[s].memory = NoMemory
  BY RestingWorkers DEF PopTask, UncountTask, LeavePool, Shape, WorkerInv, Sound
<1>2. \E w : Becomes(s, w) /\ w.memory = NoMemory
  <2>1. CASE PopTask(s)
    BY <2>1, PopBecomes
  <2>2. CASE UncountTask(s)
    BY <2>2, UncountBecomes
  <2>3. CASE LeavePool(s)
    <3>1. Becomes(s, NoThread) \/ Becomes(s, Ended)
      BY <2>3 DEF LeavePool, Becomes
    <3> QED BY <3>1, RestingWorkers
  <2> QED BY <2>1, <2>2, <2>3
<1> QED BY <1>1, <1>2 DEF Becomes, Shape, Types, WorkerTypes

LEMMA JoinRests ==
  ASSUME Shape, JoinWorker
  PROVE  \A t \in Slots : /\ workors'[t].memory = workors[t].memory
                          /\ workors'[t].picture = workors[t].picture
<1>1. workors[NextToJoin] = Ended /\ workors' = [workors EXCEPT ![NextToJoin] = NoThread]
  BY DEF JoinWorker
<1> QED BY <1>1, RestingWorkers DEF Shape, Types, WorkerTypes

LEMMA RoundRests ==
  ASSUME Shape, ManagerRound
  PROVE  \A t \in Slots : /\ workors'[t].memory = workors[t].memory
                          /\ workors'[t].picture = workors[t].picture
BY RoundWorkers, RestingWorkers DEF Shape, WorkerInv, Sound

LEMMA MemoryStep ==
  ASSUME Shape, MemoryInv, [InferenceNext]_inferenceVars
  PROVE  MemoryInv'
<1>1. CASE UNCHANGED <<workors, pre_queue, infer_queue, post_queue, content, engine>>
  BY <1>1, MemoryStutter
<1>2. CASE \/ BeginBatch \/ Destroy \/ AddTaskToQueue \/ CountTask \/ StopPool \/ Destroyed
           \/ UNCHANGED inferenceVars
  BY <1>1, <1>2 DEF BeginBatch, Destroy, AddTaskToQueue, CountTask, StopPool, Destroyed,
       inferenceVars, memoryVars, poolVars
<1>3. CASE JoinWorker
  BY <1>3, JoinRests, MemoryStutter DEF JoinWorker, memoryVars
<1>4. CASE ManagerRound
  BY <1>4, RoundRests, MemoryStutter DEF ManagerRound, memoryVars
<1>5. ASSUME NEW s \in Slots, PopTask(s) \/ UncountTask(s) \/ LeavePool(s) PROVE MemoryInv'
  BY <1>5, MemoryUncarried, MemoryStutter DEF PopTask, UncountTask, LeavePool, memoryVars
<1>6. ASSUME NEW s \in Slots, AssertMemory(s) PROVE MemoryInv'
  BY <1>1, <1>6 DEF AssertMemory, memoryVars, poolVars
<1>7. ASSUME NEW e \in Engines, LeaveInfer(e) PROVE MemoryInv'
  <2>1. UNCHANGED <<workors, pre_queue, infer_queue, post_queue, content>>
    BY <1>7 DEF LeaveInfer, memoryVars, poolVars
  <2>2. Changed(engine, engine', e) /\ engine[e] = Idle /\ engine'[e] = Over
    BY <1>7 DEF LeaveInfer, Changed, Shape, Types, MemoryTypes
  <2>3. ASSUME NEW m \in Memories
        PROVE  /\ Once(engine, m) => Once(engine', m)
               /\ Never(engine, m) => Never(engine', m)
    BY <2>2, ChangeOnce, ChangeNever, InferenceAssumption
  <2>4. Carried' = Carried
    BY <2>1 DEF Carried
  <2> QED BY <2>1, <2>3, <2>4 DEF MemoryInv, InPre, InWorker, InInfer, InEngine, InPost
<1> QED BY <1>2, <1>3, <1>4, <1>5, <1>6, <1>7, MemoryTaken, MemoryFilled, MemoryExecuted,
           MemoryInferred, MemoryCollected DEF InferenceNext, Caller_, Worker_, Engine_

PoolInv == Shape /\ CountInv /\ MemoryInv

LEMMA PoolAlways == InferenceSpec => []PoolInv
<1>1. Init => PoolInv
  BY ShapeInit, CountInit, MemoryInit DEF PoolInv
<1>2. PoolInv /\ [InferenceNext]_inferenceVars => PoolInv'
  BY ShapeStep, CountStep, MemoryStep DEF PoolInv
<1> QED BY <1>1, <1>2, PTL DEF InferenceSpec

(* The counters stay in their range and the queue of tasks never grows     *)
(* past max_queue_num_, however pushing, popping and counting interleave.  *)
THEOREM InferenceTypesKept == InferenceSpec => []InferenceTypeOK
<1>1. ASSUME PoolInv PROVE InferenceTypeOK
  <2> USE InferenceAssumption
  <2>1. Types /\ CountInv
    BY <1>1 DEF PoolInv, Shape
  <2>2. task_queue \in Seq(1..MaxBatch) /\ task_queue_size \in 0..Width - 1
    BY <2>1 DEF Types, TaskTypes
  <2>3. Len(task_queue) <= MaxQueue
    <3>1. Tasks <= MaxQueue /\ Tasks = Len(task_queue) + Cardinality(Popped)
      BY <2>1 DEF CountInv, Tasks
    <3>2. Len(task_queue) \in Nat /\ Cardinality(Popped) \in Nat
      BY <2>2, CountedSlots
    <3> QED BY <3>1, <3>2
  <2>4. busy_thread_num \in 0..MaxThreads
    BY <2>1, CountedSlots DEF CountInv
  <2>5. workors \in [Slots -> [at : {"none", "polling", "popped", "waiting", "filling", "ended"},
                               picture : 0..MaxBatch, memory : Memories \cup {NoMemory}]]
    BY <2>1 DEF Types, WorkerTypes, WorkerStates
  <2>6. content \in [Memories -> 0..MaxBatch] /\ engine \in [Engines -> Memories \cup {Idle, Over}]
    BY <2>1 DEF Types, MemoryTypes
  <2>7. caller.at \in {"idle", "adding", "counting", "collecting", "leaving", "abandoning", "gone"}
    BY <2>1 DEF Types, CallerTypes, Calling
  <2>8. /\ live_thread_num \in 0..MaxThreads /\ exit_thread_num \in 0..OnceAdd
        /\ pool_running \in BOOLEAN /\ running \in BOOLEAN /\ asked \in BOOLEAN
        /\ manager \in {"running", "ended"}
        /\ crash \in {"none", "assert", "join", "index"}
    BY <2>1 DEF Types, PoolTypes
  <2> QED BY <2>2, <2>3, <2>4, <2>5, <2>6, <2>7, <2>8 DEF InferenceTypeOK
<1> QED BY <1>1, PoolAlways, PTL

(* The places of a value in f, labelled. *)
Labelled(label, f, v) == {<<label, x>> : x \in {y \in DOMAIN f : f[y] = v}}

LEMMA LabelledNever ==
  ASSUME NEW label, NEW f, NEW v, Never(f, v)
  PROVE  Labelled(label, f, v) = {}
BY DEF Labelled, Never

LEMMA LabelledOnce ==
  ASSUME NEW label, NEW f, NEW v, Once(f, v)
  PROVE  \E x : Labelled(label, f, v) = {<<label, x>>}
<1>1. PICK x \in DOMAIN f : f[x] = v /\ \A y \in DOMAIN f : f[y] = v => y = x
  BY DEF Once
<1>2. {y \in DOMAIN f : f[y] = v} = {x}
  BY <1>1
<1> QED BY <1>2 DEF Labelled

LEMMA PlacesLabelled ==
  ASSUME Shape, NEW m \in Memories
  PROVE  Places(m) = Labelled("pre", pre_queue, m) \cup Labelled("infer", infer_queue, m)
                     \cup Labelled("post", post_queue, m) \cup Labelled("worker", Carried, m)
                     \cup Labelled("engine", engine, m)
<1>1. {t \in Slots : workors[t].memory = m} = {t \in DOMAIN Carried : Carried[t] = m}
  BY DEF Carried
<1>2. DOMAIN engine = Engines
  BY DEF Shape, Types, MemoryTypes
<1> QED BY <1>1, <1>2 DEF Places, Labelled

(* No memory of the pool is lost, and no two threads ever work on one.     *)
THEOREM MemoriesConserved == InferenceSpec => []MemoryConserved
<1>1. ASSUME PoolInv PROVE MemoryConserved
  <2> SUFFICES ASSUME NEW m \in Memories
               PROVE  \E place : Places(m) = {place}
    BY DEF MemoryConserved
  <2> DEFINE pre == Labelled("pre", pre_queue, m)
             infer == Labelled("infer", infer_queue, m)
             post == Labelled("post", post_queue, m)
             worker == Labelled("worker", Carried, m)
             exec == Labelled("engine", engine, m)
  <2>1. Places(m) = pre \cup infer \cup post \cup worker \cup exec
    BY <1>1, PlacesLabelled DEF PoolInv
  <2>2. /\ Never(pre_queue, m) => pre = {}
        /\ Never(infer_queue, m) => infer = {}
        /\ Never(post_queue, m) => post = {}
        /\ Never(Carried, m) => worker = {}
        /\ Never(engine, m) => exec = {}
    BY LabelledNever
  <2>3. /\ Once(pre_queue, m) => \E x : pre = {<<"pre", x>>}
        /\ Once(infer_queue, m) => \E x : infer = {<<"infer", x>>}
        /\ Once(post_queue, m) => \E x : post = {<<"post", x>>}
        /\ Once(Carried, m) => \E x : worker = {<<"worker", x>>}
        /\ Once(engine, m) => \E x : exec = {<<"engine", x>>}
    BY LabelledOnce, Zenon
  <2>4. Located(m)
    BY <1>1 DEF PoolInv, MemoryInv, Located
  <2> HIDE DEF pre, infer, post, worker, exec
  <2>5. CASE InPre(m)
    BY <2>1, <2>2, <2>3, <2>5 DEF InPre
  <2>6. CASE InWorker(m)
    BY <2>1, <2>2, <2>3, <2>6 DEF InWorker
  <2>7. CASE InInfer(m)
    BY <2>1, <2>2, <2>3, <2>7 DEF InInfer
  <2>8. CASE InEngine(m)
    BY <2>1, <2>2, <2>3, <2>8 DEF InEngine
  <2>9. CASE InPost(m)
    BY <2>1, <2>2, <2>3, <2>9 DEF InPost
  <2> QED BY <2>4, <2>5, <2>6, <2>7, <2>8, <2>9 DEF Located
<1> QED BY <1>1, PoolAlways, PTL

(***************************************************************************)
(* Pictures                                                                *)
(***************************************************************************)

(* In a batch that is complete the results are all there is. *)
LEMMA BatchComplete ==
  ASSUME Shape, PictureInv, caller.at = "idle"
  PROVE  \A p \in 1..MaxBatch : Never(task_queue, p) /\ Never(Shown, p) /\ Never(content, p)
<1> DEFINE n == caller.size
           got == caller.got
<1>1. /\ n \in 0..MaxBatch /\ got \in Seq(1..MaxBatch) /\ Len(got) = n
      /\ Pushed = 1..n
  BY DEF Shape, Types, CallerTypes, BatchInv, Pushed
<1>2. \A p \in 1..MaxBatch : IF p \in Pushed THEN Somewhere(p) ELSE Nowhere(p)
  BY DEF PictureInv, Calling
<1>3. got \in [1..n -> 1..MaxBatch] /\ n \in Nat
  BY <1>1, InferenceAssumption
<1>4. \A i \in 1..n : ~Never(got, got[i])
  BY <1>3 DEF Never
<1>5. \A i \in 1..n : got[i] \in 1..n
  BY <1>1, <1>2, <1>3, <1>4 DEF Nowhere
<1>6. \A p \in 1..n : ~Never(got, p) => Once(got, p)
  <2>1. \A p \in 1..n : Somewhere(p)
    BY <1>1, <1>2, InferenceAssumption
  <2> QED BY <2>1 DEF Somewhere
<1>7. \A i, j \in 1..n : got[i] = got[j] => i = j
  <2> SUFFICES ASSUME NEW i \in 1..n, NEW j \in 1..n, got[i] = got[j] PROVE i = j
    OBVIOUS
  <2>1. Once(got, got[i])
    BY <1>4, <1>5, <1>6
  <2> QED BY <1>3, <2>1 DEF Once
<1> HIDE DEF n, got
<1>8. got \in Injection(1..n, 1..n)
  <2>1. got \in [1..n -> 1..n]
    BY <1>3, <1>5
  <2> QED BY <1>7, <2>1 DEF Injection, IsInjective
<1>9. got \in Surjection(1..n, 1..n)
  BY <1>3, <1>8, IntervalSize, FS_Injection, Zenon
<1>10. \A p \in 1..n : ~Never(got, p)
  BY <1>3, <1>9 DEF Surjection, Never
<1>11. ASSUME NEW p \in 1..MaxBatch
       PROVE  Never(task_queue, p) /\ Never(Shown, p) /\ Never(content, p)
  <2>1. CASE p \in 1..n
    BY <1>1, <1>2, <1>10, <2>1 DEF Somewhere, got
  <2>2. CASE p \notin 1..n
    BY <1>1, <1>2, <2>2 DEF Nowhere
  <2> QED BY <2>1, <2>2
<1> QED BY <1>11

LEMMA PictureInit == Init => PictureInv
<1> SUFFICES ASSUME Init, NEW p \in 1..MaxBatch PROVE p \notin Pushed /\ Nowhere(p)
  BY DEF PictureInv
<1>1. caller = [at |-> "idle", size |-> 0, next |-> 0, got |-> <<>>]
  BY DEF Init, Started
<1>2. p \notin Pushed
  BY <1>1 DEF Pushed
<1>3. \A s \in Slots : workors[s].picture = NoPicture
  BY RestingWorkers DEF Init, Started
<1>4. Never(Shown, p)
  BY <1>3 DEF Never, Shown, NoPicture
<1>5. Never(content, p)
  BY DEF Never, NoPicture, Init, Started
<1>6. Never(task_queue, p) /\ Never(caller.got, p)
  BY <1>1, NeverInNone DEF Init, Started
<1> QED BY <1>2, <1>4, <1>5, <1>6 DEF Nowhere

LEMMA PictureStutter ==
  ASSUME PictureInv, UNCHANGED <<task_queue, content, Shown>>, caller'.got = caller.got,
         caller.at \in Calling, Pushed' = Pushed
  PROVE  PictureInv'
BY DEF PictureInv, Somewhere, Nowhere

(* A step that moves a picture places it, and leaves the other ones alone. *)
Placed(p) == IF p \in Pushed THEN Somewhere(p) ELSE Nowhere(p)

LEMMA PictureAdded ==
  ASSUME Shape, PictureInv, AddTaskToQueue
  PROVE  PictureInv'
<1> DEFINE k == caller.next
<1>1. /\ caller.at = "adding" /\ task_queue' = Append(task_queue, k)
      /\ caller' = [caller EXCEPT !.at = "counting"]
      /\ UNCHANGED <<content, workors>>
  BY DEF AddTaskToQueue, memoryVars
<1>2. k \in 1..MaxBatch /\ task_queue \in Seq(1..MaxBatch)
  BY <1>1, InferenceAssumption DEF Shape, Types, TaskTypes, CallerTypes, BatchInv
<1>3. caller'.at = "counting" /\ caller'.next = k /\ caller'.got = caller.got
  BY <1>1 DEF Shape, Types, CallerTypes
<1>4. Pushed = 1..k - 1 /\ Pushed' = 1..k
  BY <1>1, <1>3 DEF Pushed
<1>5. Shown' = Shown
  BY <1>1 DEF Shown
<1> SUFFICES ASSUME NEW p \in 1..MaxBatch PROVE Placed(p)'
  BY DEF PictureInv, Placed
<1>6. Placed(p)
  BY <1>1 DEF PictureInv, Placed, Calling
<1> HIDE DEF k
<1>7. CASE p = k
  <2>1. p \notin Pushed /\ p \in Pushed'
    BY <1>2, <1>4, <1>7
  <2>2. Nowhere(p)
    BY <1>6, <2>1 DEF Placed
  <2>3. Once(task_queue', p)
    BY <1>1, <1>2, <1>7, <2>2, PushNever DEF Nowhere
  <2> QED BY <1>1, <1>3, <1>5, <2>1, <2>2, <2>3 DEF Placed, Somewhere, Nowhere
<1>8. CASE p # k
  <2>1. p \in Pushed <=> p \in Pushed'
    BY <1>2, <1>4, <1>8
  <2>2. Once(task_queue, p) => Once(Append(task_queue, k), p)
    <3> DEFINE pictures == 1..MaxBatch
    <3>1. k \in pictures /\ task_queue \in Seq(pictures)
      BY <1>2
    <3> HIDE DEF pictures
    <3> QED BY <1>8, <3>1, PushOnce
  <2>3. Never(task_queue, p) => Never(Append(task_queue, k), p)
    BY <1>2, <1>8, PushNever
  <2>4. task_queue' = Append(task_queue, k)
    BY <1>1 DEF k
  <2> QED BY <1>1, <1>3, <1>5, <1>6, <2>1, <2>2, <2>3, <2>4 DEF Placed, Somewhere, Nowhere
<1> QED BY <1>7, <1>8

LEMMA PicturePopped ==
  ASSUME Shape, PictureInv, NEW s \in Slots, PopTask(s), caller.at \in Calling
  PROVE  PictureInv'
<1> DEFINE k == Head(task_queue)
<1>1. PICK w \in WorkerStates : Becomes(s, w) /\ w.picture = k
  BY PopBecomes
<1>2. /\ task_queue # <<>> /\ task_queue' = Tail(task_queue) /\ task_queue \in Seq(1..MaxBatch)
      /\ UNCHANGED <<content, caller>>
  BY DEF PopTask, memoryVars, Shape, Types, TaskTypes
<1>3. workors[s].picture = NoPicture
  BY RestingWorkers DEF PopTask
<1>4. Changed(Shown, Shown', s) /\ Shown[s] = NoPicture /\ Shown'[s] = k
  BY <1>1, <1>3, BecomesCarries DEF Shape, Types
<1>5. Pushed' = Pushed
  BY <1>2 DEF Pushed
<1> SUFFICES ASSUME NEW p \in 1..MaxBatch PROVE Placed(p)'
  BY DEF PictureInv, Placed
<1>6. Placed(p) /\ p # NoPicture
  BY DEF PictureInv, Placed, NoPicture
<1>7. CASE p = k
  <2>1. ~Never(task_queue, p)
    BY <1>2, <1>7, HeadIsIn
  <2>2. /\ p \in Pushed /\ Once(task_queue, p) /\ Never(Shown, p)
        /\ Never(content, p) /\ Never(caller.got, p)
    BY <1>6, <2>1 DEF Placed, Somewhere, Nowhere
  <2>3. Never(task_queue', p)
    BY <1>2, <1>7, <2>2, PopOnce
  <2>4. Once(Shown', p)
    BY <1>4, <1>7, <2>2, ChangeNever
  <2> QED BY <1>2, <1>5, <2>2, <2>3, <2>4 DEF Placed, Somewhere
<1>8. CASE p # k
  <2>1. Once(task_queue, p) => Once(task_queue', p)
    BY <1>2, <1>8, PopOnce
  <2>2. Never(task_queue, p) => Never(task_queue', p)
    BY <1>2, PopNever
  <2>3. Once(Shown, p) => Once(Shown', p)
    BY <1>4, <1>6, <1>8, ChangeOnce
  <2>4. Never(Shown, p) => Never(Shown', p)
    BY <1>4, <1>8, ChangeNever
  <2> QED BY <1>2, <1>5, <1>6, <2>1, <2>2, <2>3, <2>4 DEF Placed, Somewhere, Nowhere
<1> QED BY <1>7, <1>8

LEMMA PictureFilled ==
  ASSUME Shape, MemoryInv, PictureInv, NEW s \in Slots, PreProcess(s), caller.at \in Calling
  PROVE  PictureInv'
<1> DEFINE k == workors[s].memory
           q == workors[s].picture
<1>1. Becomes(s, Polling) /\ Polling.picture = NoPicture
  BY RestingWorkers DEF PreProcess, Becomes
<1>2. k \in Memories /\ q \in 1..MaxBatch
  BY DEF PreProcess, Shape, Types, WorkerTypes, WorkerStates, WorkerInv, Sound, NoPicture
<1>3. content' = [content EXCEPT ![k] = q] /\ UNCHANGED <<task_queue, caller>>
  BY DEF PreProcess, Filled
<1>4. ~Never(Carried, k)
  BY DEF Never, Carried
<1>5. content[k] = NoPicture
  BY <1>2, <1>4 DEF MemoryInv, InPre, InWorker, InInfer, InEngine, InPost
<1>6. Changed(content, content', k) /\ content'[k] = q
  BY <1>2, <1>3 DEF Changed, Shape, Types, MemoryTypes
<1>7. Changed(Shown, Shown', s) /\ Shown[s] = q /\ Shown'[s] = NoPicture
  BY <1>1, BecomesCarries DEF Shape, Types
<1>8. Pushed' = Pushed
  BY <1>3 DEF Pushed
<1> HIDE DEF k, q
<1> SUFFICES ASSUME NEW p \in 1..MaxBatch PROVE Placed(p)'
  BY DEF PictureInv, Placed
<1>9. Placed(p) /\ p # NoPicture
  BY DEF PictureInv, Placed, NoPicture
<1>10. CASE p = q
  <2>1. ~Never(Shown, p)
    BY <1>7, <1>10 DEF Never, Changed
  <2>2. /\ p \in Pushed /\ Never(task_queue, p) /\ Once(Shown, p)
        /\ Never(content, p) /\ Never(caller.got, p)
    BY <1>9, <2>1 DEF Placed, Somewhere, Nowhere
  <2>3. Never(Shown', p)
    BY <1>7, <1>9, <1>10, <2>2, ChangeOnce
  <2>4. Once(content', p)
    BY <1>6, <1>10, <2>2, ChangeNever
  <2> QED BY <1>3, <1>8, <2>2, <2>3, <2>4 DEF Placed, Somewhere
<1>11. CASE p # q
  <2>1. Once(Shown, p) => Once(Shown', p)
    BY <1>7, <1>9, <1>11, ChangeOnce
  <2>2. Never(Shown, p) => Never(Shown', p)
    BY <1>7, <1>9, ChangeNever
  <2>3. Once(content, p) => Once(content', p)
    BY <1>5, <1>6, <1>9, <1>11, ChangeOnce
  <2>4. Never(content, p) => Never(content', p)
    BY <1>6, <1>11, ChangeNever
  <2> QED BY <1>3, <1>8, <1>9, <2>1, <2>2, <2>3, <2>4 DEF Placed, Somewhere, Nowhere
<1> QED BY <1>10, <1>11

LEMMA PictureCollected ==
  ASSUME Shape, MemoryInv, PictureInv, GetResultAsynchr
  PROVE  PictureInv'
<1> DEFINE k == Head(post_queue)
           q == content[k]
<1>1. /\ k \in Memories /\ InPost(k)
      /\ content' = [content EXCEPT ![k] = NoPicture]
      /\ caller'.got = Append(caller.got, q)
      /\ UNCHANGED <<workors, task_queue>>
      /\ caller.at = "collecting" /\ caller'.at \in {"idle", "collecting"}
      /\ caller'.next = caller.next
  BY CollectedMemory
<1>2. q \in 1..MaxBatch /\ caller.got \in Seq(1..MaxBatch)
  BY <1>1 DEF InPost, Shape, Types, MemoryTypes, CallerTypes, NoPicture
<1>3. Changed(content, content', k) /\ content'[k] = NoPicture
  BY <1>1 DEF Changed, Shape, Types, MemoryTypes
<1>4. Shown' = Shown
  BY <1>1 DEF Shown
<1>5. Pushed' = Pushed
  BY <1>1 DEF Pushed
<1>6. content[k] = q
  OBVIOUS
<1> HIDE DEF k, q
<1> SUFFICES ASSUME NEW p \in 1..MaxBatch PROVE Placed(p)'
  BY DEF PictureInv, Placed
<1>7. Placed(p) /\ p # NoPicture
  BY <1>1 DEF PictureInv, Placed, NoPicture, Calling
<1>8. CASE p = q
  <2>1. ~Never(content, p)
    BY <1>3, <1>6, <1>8 DEF Never, Changed
  <2>2. /\ p \in Pushed /\ Never(task_queue, p) /\ Never(Shown, p)
        /\ Once(content, p) /\ Never(caller.got, p)
    BY <1>7, <2>1 DEF Placed, Somewhere, Nowhere
  <2>3. Never(content', p)
    BY <1>3, <1>6, <1>7, <1>8, <2>2, ChangeOnce
  <2>4. Once(caller'.got, p)
    BY <1>1, <1>2, <1>8, <2>2, PushNever
  <2> QED BY <1>1, <1>4, <1>5, <2>2, <2>3, <2>4 DEF Placed, Somewhere
<1>9. CASE p # q
  <2>1. Once(content, p) => Once(content', p)
    BY <1>3, <1>6, <1>7, <1>9, ChangeOnce
  <2>2. Never(content, p) => Never(content', p)
    BY <1>3, <1>7, ChangeNever
  <2>3. Once(caller.got, p) => Once(Append(caller.got, q), p)
    <3> DEFINE pictures == 1..MaxBatch
    <3>1. q \in pictures /\ caller.got \in Seq(pictures)
      BY <1>2
    <3> HIDE DEF pictures
    <3> QED BY <1>9, <3>1, PushOnce
  <2>4. Never(caller.got, p) => Never(Append(caller.got, q), p)
    BY <1>2, <1>9, PushNever
  <2> QED BY <1>1, <1>4, <1>5, <1>7, <2>1, <2>2, <2>3, <2>4 DEF Placed, Somewhere, Nowhere
<1> QED BY <1>8, <1>9

(* The steps of workers and of Manager that move no picture. *)
LEMMA ShownRests ==
  ASSUME Shape
  PROVE  /\ JoinWorker \/ ManagerRound => Shown' = Shown
         /\ \A s \in Slots : UncountTask(s) \/ TakeMemory(s) \/ LeavePool(s) => Shown' = Shown
<1>1. CASE JoinWorker
  BY <1>1, JoinRests DEF Shown
<1>2. CASE ManagerRound
  BY <1>2, RoundRests DEF Shown
<1>3. ASSUME NEW s \in Slots, UncountTask(s) \/ TakeMemory(s) \/ LeavePool(s)
      PROVE  Shown' = Shown
  <2>1. \E w : Becomes(s, w) /\ w.picture = workors[s].picture
    <3>1. CASE UncountTask(s)
      BY <3>1, UncountBecomes
    <3>2. CASE TakeMemory(s)
      BY <3>2, TakeBecomes
    <3>3. CASE LeavePool(s)
      <4>1. Becomes(s, NoThread) \/ Becomes(s, Ended)
        BY <3>3 DEF LeavePool, Becomes
      <4>2. workors[s] = Polling
        BY <3>3 DEF LeavePool
      <4> QED BY <4>1, <4>2, RestingWorkers
    <3> QED BY <1>3, <3>1, <3>2, <3>3
  <2> QED BY <2>1 DEF Becomes, Shown, Shape, Types, WorkerTypes
<1> QED BY <1>1, <1>2, <1>3

LEMMA PictureStep ==
  ASSUME Shape, MemoryInv, PictureInv, [InferenceNext]_inferenceVars
  PROVE  PictureInv'
<1>1. CASE caller'.at \notin Calling
  BY <1>1 DEF PictureInv
<1>2. CASE BeginBatch
  <2>1. PICK n \in 1..MaxBatch : caller' = [at |-> "adding", size |-> n, next |-> 1, got |-> <<>>]
    BY <1>2 DEF BeginBatch
  <2>2. UNCHANGED <<task_queue, Shown, content>>
    BY <1>2 DEF BeginBatch, poolVars, memoryVars, Shown
  <2>3. \A p \in 1..MaxBatch : Never(task_queue, p) /\ Never(Shown, p) /\ Never(content, p)
    BY <1>2, BatchComplete DEF BeginBatch
  <2>4. Pushed' = {}
    BY <2>1 DEF Pushed
  <2>5. \A p \in 1..MaxBatch : Never(caller'.got, p)
    BY <2>1, NeverInNone
  <2> QED BY <2>2, <2>3, <2>4, <2>5 DEF PictureInv, Nowhere
<1>3. CASE CountTask
  <2>1. /\ caller.at = "counting"
        /\ caller' = IF caller.next = caller.size THEN [caller EXCEPT !.at = "collecting"]
                     ELSE [caller EXCEPT !.at = "adding", !.next = @ + 1]
        /\ UNCHANGED <<task_queue, workors, content>>
    BY <1>3 DEF CountTask, memoryVars
  <2>2. caller.next \in Int
    BY InferenceAssumption DEF Shape, Types, CallerTypes
  <2>3. caller'.got = caller.got
    BY <2>1 DEF Shape, Types, CallerTypes
  <2>4. \/ caller'.at = "collecting" /\ caller'.next = caller.next
        \/ caller'.at = "adding" /\ caller'.next = caller.next + 1
    BY <2>1 DEF Shape, Types, CallerTypes
  <2>5. Pushed = 1..caller.next
    BY <2>1 DEF Pushed
  <2>6. Pushed' = 1..caller.next
    <3>1. CASE caller'.at = "collecting" /\ caller'.next = caller.next
      BY <3>1 DEF Pushed
    <3>2. CASE caller'.at = "adding" /\ caller'.next = caller.next + 1
      <4>1. caller'.next - 1 = caller.next
        BY <2>2, <3>2
      <4>2. Pushed' = 1..caller'.next - 1
        BY <3>2 DEF Pushed
      <4> QED BY <4>1, <4>2
    <3> QED BY <2>4, <3>1, <3>2
  <2>7. Shown' = Shown
    BY <2>1 DEF Shown
  <2> QED BY <2>1, <2>3, <2>5, <2>6, <2>7, PictureStutter DEF Calling
<1>4. CASE Destroy \/ StopPool \/ JoinWorker \/ Destroyed
  <2>1. CASE Destroy
    BY <2>1 DEF Destroy, Shape, Types, CallerTypes, PictureInv, Calling
  <2>2. CASE StopPool \/ JoinWorker
    BY <2>2 DEF StopPool, JoinWorker, Destroying, PictureInv, Calling
  <2>3. CASE Destroyed
    BY <2>3 DEF Destroyed, Shape, Types, CallerTypes, PictureInv, Calling
  <2> QED BY <1>4, <2>1, <2>2, <2>3
<1>5. ASSUME UNCHANGED <<task_queue, content, caller>>, Shown' = Shown PROVE PictureInv'
  <2>1. Pushed' = Pushed
    BY <1>5 DEF Pushed
  <2> QED BY <1>1, <1>5, <2>1, PictureStutter
<1>6. CASE ManagerRound
  BY <1>5, <1>6, ShownRests DEF ManagerRound, memoryVars
<1>7. CASE UNCHANGED inferenceVars
  BY <1>5, <1>7 DEF inferenceVars, poolVars, memoryVars, Shown
<1>8. ASSUME NEW e \in Engines, Engine_(e) PROVE PictureInv'
  <2>1. UNCHANGED <<task_queue, content, caller, workors>>
    BY <1>8 DEF Engine_, TakeFilled, Infer, LeaveInfer, poolVars, memoryVars
  <2> QED BY <1>5, <2>1 DEF Shown
<1>9. ASSUME NEW s \in Slots, Worker_(s) PROVE PictureInv'
  <2>1. CASE UncountTask(s) \/ TakeMemory(s) \/ LeavePool(s)
    <3>1. UNCHANGED <<task_queue, content, caller>>
      BY <2>1 DEF UncountTask, TakeMemory, LeavePool, memoryVars
    <3> QED BY <1>5, <2>1, <3>1, ShownRests
  <2>2. CASE AssertMemory(s)
    BY <1>5, <2>2 DEF AssertMemory, poolVars, memoryVars, Shown
  <2>3. CASE PopTask(s) \/ PreProcess(s)
    <3>1. caller' = caller
      BY <2>3 DEF PopTask, PreProcess
    <3>2. CASE caller.at \in Calling
      BY <2>3, <3>2, PicturePopped, PictureFilled
    <3> QED BY <1>1, <3>1, <3>2
  <2> QED BY <1>9, <2>1, <2>2, <2>3 DEF Worker_
<1> QED BY <1>2, <1>3, <1>4, <1>6, <1>7, <1>8, <1>9, PictureAdded, PictureCollected
        DEF InferenceNext, Caller_

LEMMA HoldersLabelled ==
  ASSUME Shape, NEW p
  PROVE  Holders(p) = Labelled("task", task_queue, p) \cup Labelled("worker", Shown, p)
                      \cup Labelled("memory", content, p) \cup Labelled("result", caller.got, p)
<1>1. {t \in Slots : workors[t].picture = p} = {t \in DOMAIN Shown : Shown[t] = p}
  BY DEF Shown
<1>2. DOMAIN content = Memories
  BY DEF Shape, Types, MemoryTypes
<1> QED BY <1>1, <1>2 DEF Holders, Labelled

(* No picture of a batch is lost or answered twice, and none is answered   *)
(* that was not pushed, although workers and inference threads take them   *)
(* in any order.                                                           *)
THEOREM PicturesConserved == InferenceSpec => []PictureConserved
<1>1. ASSUME Shape, PictureInv PROVE PictureConserved
  <2> SUFFICES ASSUME caller.at \in Calling, NEW p \in Pushed
               PROVE  \E holder : Holders(p) = {holder}
    <3>1. caller.at \in Calling =>
            \A p \in Pushed : \E holder : Holders(p) = {holder}
      OBVIOUS
    <3> QED BY <3>1 DEF PictureConserved, Calling
  <2> DEFINE task == Labelled("task", task_queue, p)
             worker == Labelled("worker", Shown, p)
             memory == Labelled("memory", content, p)
             result == Labelled("result", caller.got, p)
  <2>1. Holders(p) = task \cup worker \cup memory \cup result
    BY <1>1, HoldersLabelled
  <2>2. /\ Never(task_queue, p) => task = {}
        /\ Never(Shown, p) => worker = {}
        /\ Never(content, p) => memory = {}
        /\ Never(caller.got, p) => result = {}
    BY LabelledNever
  <2>3. /\ Once(task_queue, p) => \E x : task = {<<"task", x>>}
        /\ Once(Shown, p) => \E x : worker = {<<"worker", x>>}
        /\ Once(content, p) => \E x : memory = {<<"memory", x>>}
        /\ Once(caller.got, p) => \E x : result = {<<"result", x>>}
    BY LabelledOnce, Zenon
  <2>4. p \in 1..MaxBatch
    <3>1. caller.next \in 0..MaxBatch
      BY <1>1 DEF Shape, Types, CallerTypes
    <3>2. p \in 1..caller.next
      BY <3>1, InferenceAssumption DEF Pushed
    <3> QED BY <3>1, <3>2, InferenceAssumption
  <2>5. Somewhere(p)
    BY <1>1, <2>4 DEF PictureInv
  <2> HIDE DEF task, worker, memory, result
  <2> QED BY <2>1, <2>2, <2>3, <2>5 DEF Somewhere
<1>2. Init => PoolInv /\ PictureInv
  BY ShapeInit, CountInit, MemoryInit, PictureInit DEF PoolInv
<1>3. PoolInv /\ PictureInv /\ [InferenceNext]_inferenceVars => (PoolInv /\ PictureInv)'
  BY ShapeStep, CountStep, MemoryStep, PictureStep DEF PoolInv
<1>4. PoolInv /\ PictureInv => PictureConserved
  BY <1>1 DEF PoolInv
<1> QED BY <1>2, <1>3, <1>4, PTL DEF InferenceSpec

(***************************************************************************)
(* The threads of the pool                                                 *)
(***************************************************************************)

LEMMA UsedFinite ==
  /\ Used \in SUBSET Slots /\ IsFiniteSet(Used) /\ Cardinality(Used) \in 0..MaxThreads
<1>1. Used \in SUBSET Slots
  BY DEF Used
<1> QED BY <1>1, SlotsFinite

LEMMA ThreadsInit == Init => ThreadsInv
<1> SUFFICES ASSUME Init PROVE ThreadsInv
  OBVIOUS
<1>1. Used = 1..MinThreads
  BY InferenceAssumption DEF Init, Started, Used, Slots, Polling, NoThread, Worker
<1>2. Cardinality(Used) = MinThreads
  BY <1>1, IntervalSize, InferenceAssumption
<1>3. live_thread_num = 0 /\ pool_running = TRUE /\ asked = FALSE
  BY DEF Init, Started
<1> QED BY <1>1, <1>2, <1>3, InferenceAssumption DEF ThreadsInv

(* The slots that Manager can fill beyond those of Init.                   *)
LEMMA InReach ==
  ASSUME NEW slots \in SUBSET Slots, MinThreads < MaxQueue,
         \A s \in slots : s <= MinThreads \/ s <= MaxQueue
  PROVE  Cardinality(slots) <= Least(MaxThreads, MaxQueue)
<1> DEFINE n == Least(MaxThreads, MaxQueue)
<1>1. n \in Nat /\ slots \in SUBSET (1..n)
  BY InferenceAssumption DEF Least, Slots
<1>2. IsFiniteSet(1..n) /\ Cardinality(1..n) = n
  BY <1>1, IntervalSize
<1> HIDE DEF n
<1>3. Cardinality(slots) <= Cardinality(1..n)
  BY <1>1, <1>2, FS_Subset
<1> QED BY <1>2, <1>3 DEF n

(* A round of Manager adds as many threads as it counts, in free slots     *)
(* within its reach, and none once the pool has stopped.                   *)
LEMMA RoundAdds ==
  ASSUME Shape, ThreadsInv, ManagerRound
  PROVE  /\ Used' = Used \cup Added
         /\ Cardinality(Used') = Cardinality(Used) + Cardinality(Added)
         /\ live_thread_num' = live_thread_num + Cardinality(Added)
         /\ \A s \in Added : pool_running /\ s <= MaxQueue /\ MinThreads < MaxQueue
<1> USE InferenceAssumption
<1>1. Added \subseteq FreeSlots /\ FreeSlots \in SUBSET Slots
  BY DEF FreeSlots, Added, Lowest
<1>2. Added \in SUBSET Slots /\ IsFiniteSet(Added) /\ Cardinality(Added) \in Nat
  BY <1>1, SlotsFinite
<1>3. Added \cap Used = {}
  BY <1>1 DEF FreeSlots, Used
<1>4. workors' = [s \in Slots |-> IF s \in Added THEN Polling ELSE workors[s]]
  BY DEF ManagerRound
<1>5. Used' = Used \cup Added
  BY <1>2, <1>4 DEF Used, Polling, Worker
<1>6. Cardinality(Used') = Cardinality(Used) + Cardinality(Added)
  <2>1. Cardinality(Used \cap Added) = 0
    BY <1>3, FS_EmptySet
  <2>2. Cardinality(Used \cup Added)
        = Cardinality(Used) + Cardinality(Added) - Cardinality(Used \cap Added)
    BY <1>2, UsedFinite, FS_Union
  <2>3. Cardinality(Used) \in Nat
    BY UsedFinite
  <2> QED BY <1>2, <1>5, <2>1, <2>2, <2>3
<1>7. live_thread_num' = live_thread_num + Cardinality(Added)
  BY DEF ManagerRound
<1>8. ASSUME NEW s \in Added
      PROVE  pool_running /\ s <= MaxQueue /\ MinThreads < MaxQueue
  <2>1. s \in Slots /\ s <= MaxQueue /\ s \notin Used
    BY <1>1 DEF FreeSlots, Used
  <2>2. pool_running
    <3> SUFFICES ASSUME ~pool_running PROVE FALSE
      OBVIOUS
    <3>1. task_queue_size = 0 /\ live_thread_num \in Nat
      BY DEF ThreadsInv, Shape, Types, PoolTypes
    <3>2. Wanted = 0
      BY <3>1 DEF Wanted
    <3>3. Cardinality(Below(FreeSlots, s)) < 0
      BY <3>2 DEF Added, Lowest, Below
    <3>4. Below(FreeSlots, s) \in SUBSET Slots
      BY <1>1 DEF Below
    <3> QED BY <3>3, <3>4, SlotsFinite
  <2>3. s \notin 1..MinThreads
    BY <2>1, <2>2 DEF ThreadsInv
  <2> QED BY <2>1, <2>2, <2>3 DEF Slots
<1> QED BY <1>5, <1>6, <1>7, <1>8

LEMMA ThreadsRound ==
  ASSUME Shape, ThreadsInv, ManagerRound
  PROVE  ThreadsInv'
<1> USE InferenceAssumption
<1>1. /\ live_thread_num \in 0..MaxThreads /\ asked \in BOOLEAN /\ pool_running \in BOOLEAN
      /\ Least(MaxThreads, MaxQueue) \in Nat
  BY DEF Shape, Types, PoolTypes, Least
<1>2. pool_running' = pool_running /\ caller' = caller /\ task_queue_size' = task_queue_size
  BY DEF ManagerRound
<1>3. Cardinality(Added) \in Nat /\ Cardinality(Used) \in Nat
  BY AddedFit, UsedFinite
<1>4. pool_running' => /\ 1..MinThreads \subseteq Used'
                       /\ Cardinality(Used') = MinThreads + live_thread_num'
  BY <1>1, <1>2, <1>3, RoundAdds DEF ThreadsInv
<1>5. \A s \in Used' : s <= MinThreads \/ s <= MaxQueue
  BY RoundAdds DEF ThreadsInv
<1>6. live_thread_num' > 0 => MinThreads + live_thread_num' <= Least(MaxThreads, MaxQueue)
  <2>1. CASE Added = {}
    <3>1. live_thread_num' = live_thread_num
      BY <1>1, <2>1, RoundAdds, FS_EmptySet
    <3> QED BY <3>1 DEF ThreadsInv
  <2>2. CASE Added # {}
    <3>1. pool_running /\ MinThreads < MaxQueue
      BY <2>2, RoundAdds
    <3>2. Used' \in SUBSET Slots
      BY RoundAdds, UsedFinite, AddedFit
    <3>3. Cardinality(Used') <= Least(MaxThreads, MaxQueue)
      BY <1>5, <3>1, <3>2, InReach
    <3> QED BY <1>2, <1>4, <3>1, <3>3
  <2> QED BY <2>1, <2>2
<1>7. asked' => 2 * MinThreads < Least(MaxThreads, MaxQueue)
  <2>1. live_thread_num' \in Nat
    BY <1>1, <1>3, RoundAdds
  <2>2. asked' => asked \/ live_thread_num' > MinThreads
    BY <1>1 DEF ManagerRound
  <2>3. asked => 2 * MinThreads < Least(MaxThreads, MaxQueue)
    BY DEF ThreadsInv
  <2> QED BY <1>1, <1>6, <2>1, <2>2, <2>3
<1> QED BY <1>2, <1>4, <1>5, <1>6, <1>7 DEF ThreadsInv

(* A stopped pool only loses threads, and counts no task.                  *)
LEMMA ThreadsLeave ==
  ASSUME Shape, ThreadsInv, ~pool_running, ~pool_running', Used' \subseteq Used,
         live_thread_num' \in 0..live_thread_num, UNCHANGED <<asked, caller, task_queue_size>>
  PROVE  ThreadsInv'
<1>1. live_thread_num \in 0..MaxThreads /\ Least(MaxThreads, MaxQueue) \in Nat
  BY InferenceAssumption DEF Shape, Types, PoolTypes, Least
<1> QED BY <1>1, InferenceAssumption DEF ThreadsInv

(* Nothing is taken off the count of tasks once the pool has stopped.      *)
LEMMA NothingPopped ==
  ASSUME Shape, CountInv, ThreadsInv, ~pool_running
  PROVE  \A s \in Slots : workors[s].at # "popped"
<1>1. task_queue_size = 0 /\ Uncounted = 0
  BY DEF ThreadsInv, Uncounted, Calling
<1>2. Len(task_queue) \in Nat /\ Cardinality(Popped) \in 0..MaxThreads
  BY CountedSlots DEF Shape, Types, TaskTypes
<1>3. Cardinality(Popped) = 0
  BY <1>1, <1>2, InferenceAssumption DEF CountInv, Tasks
<1>4. Popped = {}
  BY <1>3, CountedSlots, FS_EmptySet
<1> QED BY <1>4 DEF Popped

LEMMA ThreadsWorker ==
  ASSUME Shape, CountInv, ThreadsInv, NEW s \in Slots, Worker_(s)
  PROVE  ThreadsInv'
<1> USE InferenceAssumption
<1>1. live_thread_num \in 0..MaxThreads /\ WorkerTypes
  BY DEF Shape, Types, PoolTypes
<1>2. CASE LeavePool(s)
  <2>1. ~pool_running /\ ~pool_running'
    BY <1>2 DEF LeavePool
  <2>2. UNCHANGED <<asked, caller, task_queue_size>>
    BY <1>2 DEF LeavePool
  <2>3. Used' \subseteq Used
    BY <1>1, <1>2 DEF LeavePool, Used, WorkerTypes, Polling, Worker
  <2>4. live_thread_num' \in 0..live_thread_num
    BY <1>1, <1>2 DEF LeavePool
  <2> QED BY <2>1, <2>2, <2>3, <2>4, ThreadsLeave
<1>3. CASE PopTask(s) \/ UncountTask(s) \/ TakeMemory(s) \/ AssertMemory(s) \/ PreProcess(s)
  <2>1. UNCHANGED <<pool_running, live_thread_num, asked, caller>>
    BY <1>3 DEF PopTask, UncountTask, TakeMemory, AssertMemory, PreProcess, poolVars
  <2>2. Used' = Used
    <3>1. CASE PopTask(s)
      BY <1>1, <3>1 DEF PopTask, Used, WorkerTypes, Polling, Worker
    <3>2. CASE UncountTask(s)
      BY <1>1, <3>2 DEF UncountTask, Used, WorkerTypes, WorkerStates
    <3>3. CASE TakeMemory(s)
      BY <1>1, <3>3 DEF TakeMemory, Used, WorkerTypes, WorkerStates
    <3>4. CASE AssertMemory(s)
      BY <3>4 DEF AssertMemory, Used, poolVars
    <3>5. CASE PreProcess(s)
      BY <1>1, <3>5 DEF PreProcess, Used, WorkerTypes, Polling, Worker
    <3> QED BY <1>3, <3>1, <3>2, <3>3, <3>4, <3>5
  <2>3. ~pool_running => task_queue_size' = task_queue_size
    <3>1. CASE UncountTask(s)
      BY <3>1, NothingPopped DEF UncountTask
    <3>2. CASE PopTask(s) \/ TakeMemory(s) \/ AssertMemory(s) \/ PreProcess(s)
      BY <3>2 DEF PopTask, TakeMemory, AssertMemory, PreProcess, poolVars
    <3> QED BY <1>3, <3>1, <3>2
  <2> QED BY <2>1, <2>2, <2>3 DEF ThreadsInv
<1> QED BY <1>2, <1>3 DEF Worker_

LEMMA ThreadsStep ==
  ASSUME Shape, CountInv, ThreadsInv, EndInv, [InferenceNext]_inferenceVars
  PROVE  ThreadsInv'
<1>1. ASSUME UNCHANGED <<workors, pool_running, live_thread_num, asked>>,
             ~pool_running => task_queue_size' = task_queue_size /\ caller'.at \notin Calling
      PROVE  ThreadsInv'
  <2>1. Used' = Used
    BY <1>1 DEF Used
  <2> QED BY <1>1, <2>1 DEF ThreadsInv
<1>2. CASE UNCHANGED inferenceVars
  BY <1>1, <1>2 DEF inferenceVars, poolVars, ThreadsInv
<1>3. CASE ManagerRound
  BY <1>3, ThreadsRound
<1>4. CASE \E s \in Slots : Worker_(s)
  BY <1>4, ThreadsWorker
<1>5. ASSUME NEW e \in Engines, Engine_(e) PROVE ThreadsInv'
  BY <1>1, <1>5 DEF Engine_, TakeFilled, Infer, LeaveInfer, poolVars, ThreadsInv
<1>6. CASE BeginBatch \/ AddTaskToQueue \/ CountTask \/ GetResultAsynchr
  <2>1. caller.at \in Calling
    BY <1>6 DEF BeginBatch, AddTaskToQueue, CountTask, GetResultAsynchr, Calling
  <2>2. pool_running
    BY <2>1 DEF ThreadsInv
  <2>3. UNCHANGED <<workors, pool_running, live_thread_num, asked>>
    BY <1>6 DEF BeginBatch, AddTaskToQueue, CountTask, GetResultAsynchr, poolVars
  <2> QED BY <1>1, <2>2, <2>3
<1>7. CASE Destroy \/ Destroyed
  <2>1. UNCHANGED poolVars /\ caller'.at \notin Calling
    BY <1>7 DEF Destroy, Destroyed, Calling, Shape, Types, CallerTypes
  <2> QED BY <1>1, <2>1 DEF poolVars, ThreadsInv
<1>8. CASE StopPool
  <2>1. /\ caller.at \notin Calling /\ task_queue_size = 0 /\ ~pool_running'
        /\ UNCHANGED <<caller, task_queue_size, workors, live_thread_num, asked>>
    BY <1>8 DEF StopPool, Destroying, Drained, Calling
  <2>2. Used' = Used
    BY <2>1 DEF Used
  <2> QED BY <2>1, <2>2 DEF ThreadsInv
<1>9. CASE JoinWorker
  <2>1. /\ ~pool_running /\ ~pool_running'
        /\ UNCHANGED <<caller, task_queue_size, live_thread_num, asked>>
        /\ workors' = [workors EXCEPT ![NextToJoin] = NoThread]
    BY <1>9 DEF JoinWorker
  <2>2. Used' \subseteq Used
    BY <2>1 DEF Used, Shape, Types, WorkerTypes, NoThread, Worker
  <2>3. live_thread_num' \in 0..live_thread_num
    BY <2>1 DEF Shape, Types, PoolTypes
  <2> QED BY <2>1, <2>2, <2>3, ThreadsLeave
<1> QED BY <1>2, <1>3, <1>4, <1>5, <1>6, <1>7, <1>8, <1>9 DEF InferenceNext, Caller_

(* Manager runs past the slots while each of them has a thread, those of   *)
(* Init not counted.                                                       *)
LEMMA PastSlots ==
  ASSUME Shape, ThreadsInv, ManagerRound, PastTheSlots
  PROVE  /\ pool_running' /\ live_thread_num' = MaxThreads - MinThreads
         /\ \A s \in Slots : workors'[s].at # "none"
<1> USE InferenceAssumption
<1>1. FreeSlots \in SUBSET Slots
  BY DEF FreeSlots
<1>2. Cardinality(FreeSlots) \in Nat /\ IsFiniteSet(FreeSlots)
  BY <1>1, SlotsFinite
<1>3. live_thread_num \in 0..MaxThreads /\ task_queue_size \in Nat
  BY DEF Shape, Types, PoolTypes, TaskTypes
<1>4. Wanted \in Nat /\ Cardinality(FreeSlots) < Wanted /\ MaxQueue > MaxThreads
  BY <1>3 DEF PastTheSlots, Wanted, Least
<1>5. pool_running
  <2>1. task_queue_size # 0
    BY <1>2, <1>3, <1>4 DEF Wanted
  <2> QED BY <2>1 DEF ThreadsInv
<1>6. FreeSlots \subseteq Added
  <2> SUFFICES ASSUME NEW s \in FreeSlots PROVE s \in Added
    OBVIOUS
  <2> DEFINE below == {t \in FreeSlots : t < s}
  <2>1. below \in SUBSET FreeSlots /\ below \in SUBSET Slots
    BY <1>1
  <2>2. Cardinality(below) <= Cardinality(FreeSlots) /\ Cardinality(below) \in Nat
    BY <1>2, <2>1, FS_Subset, SlotsFinite
  <2>3. Cardinality(below) < Wanted
    BY <1>2, <1>4, <2>2
  <2> QED BY <2>3 DEF Added, Lowest
<1>7. Used' = Slots
  <2>1. Slots \subseteq Used \cup FreeSlots
    BY <1>4 DEF Used, FreeSlots, Slots
  <2>2. Used' = Used \cup Added /\ Added \subseteq Slots /\ Used \subseteq Slots
    BY RoundAdds, AddedFit, UsedFinite
  <2> QED BY <1>6, <2>1, <2>2
<1>8. \A s \in Slots : workors'[s].at # "none"
  BY <1>7 DEF Used
<1>9. Cardinality(Used') = MaxThreads
  BY <1>7, IntervalSize DEF Slots
<1>10. ThreadsInv' /\ pool_running' = pool_running
  BY ThreadsRound DEF ManagerRound
<1>11. live_thread_num' \in Int
  BY <1>3, AddedFit DEF ManagerRound
<1>12. Cardinality(Used') = MinThreads + live_thread_num'
  BY <1>5, <1>10 DEF ThreadsInv
<1>13. live_thread_num' = MaxThreads - MinThreads
  <2>1. MaxThreads = MinThreads + live_thread_num'
    BY <1>9, <1>12, Zenon
  <2>2. MaxThreads \in Int /\ MinThreads \in Int
    OBVIOUS
  <2> HIDE InferenceAssumption
  <2>3. ASSUME NEW a \in Int, NEW b \in Int, NEW c \in Int, a = b + c PROVE c = a - b
    BY <2>3
  <2> QED BY <1>11, <2>1, <2>2, <2>3
<1> QED BY <1>5, <1>8, <1>10, <1>13

(***************************************************************************)
(* The end of the object, and of the process                               *)
(***************************************************************************)

(* A complete batch that is destroyed leaves nothing to do. *)
LEMMA LeavingIsQuiet ==
  ASSUME Shape, PictureInv, caller.at = "idle"
  PROVE  task_queue = <<>> /\ \A s \in Slots : workors[s].picture = NoPicture
<1>1. \A p \in 1..MaxBatch : Never(task_queue, p) /\ Never(Shown, p)
  BY BatchComplete
<1>2. task_queue = <<>>
  <2> SUFFICES ASSUME task_queue # <<>> PROVE FALSE
    OBVIOUS
  <2>1. Head(task_queue) \in 1..MaxBatch /\ ~Never(task_queue, Head(task_queue))
    BY HeadIsIn DEF Shape, Types, TaskTypes
  <2> QED BY <1>1, <2>1
<1>3. ASSUME NEW s \in Slots PROVE workors[s].picture = NoPicture
  <2>1. workors[s].picture \in 0..MaxBatch
    BY DEF Shape, Types, WorkerTypes, WorkerStates
  <2>2. ~Never(Shown, workors[s].picture)
    BY DEF Never, Shown
  <2>3. workors[s].picture \notin 1..MaxBatch
    BY <1>1, <2>2
  <2> QED BY <2>1, <2>3, InferenceAssumption DEF NoPicture
<1> QED BY <1>2, <1>3

LEMMA EndInit == Init => EndInv
BY InferenceAssumption DEF Init, Started, EndInv, CrashCauses, Calling

Quiet == task_queue = <<>> /\ \A s \in Slots : workors[s].picture = NoPicture

(* The threads of the pool, once the caller is in the destructor. *)
LEMMA EndThreads ==
  ASSUME Shape, ThreadsInv, EndInv, crash = "none",
         \/ ManagerRound \/ JoinWorker \/ \E s \in Slots : Worker_(s)
  PROVE  /\ caller' = caller /\ running' = running
         /\ caller.at = "leaving" => Quiet'
         /\ caller.at # "gone"
         /\ exit_thread_num' > 0 => asked'
         /\ CrashCauses'
<1> USE InferenceAssumption
<1>1. caller' = caller /\ running' = running
  BY DEF ManagerRound, JoinWorker, Worker_, PopTask, UncountTask, TakeMemory, AssertMemory,
         PreProcess, LeavePool
<1>2. \A s \in Slots : caller.at = "gone" => workors[s].at = "none"
  BY DEF EndInv, AllJoined
<1>3. exit_thread_num \in 0..OnceAdd /\ OnceAdd \in Nat
  BY DEF Shape, Types, PoolTypes
<1>4. CASE ManagerRound
  <2>1. caller.at # "gone"
    BY <1>4 DEF ManagerRound, EndInv
  <2>2. Shown' = Shown /\ task_queue' = task_queue
    BY <1>4, ShownRests DEF ManagerRound
  <2>3. caller.at = "leaving" => Quiet'
    BY <2>2 DEF Quiet, EndInv, Shown
  <2>4. exit_thread_num' > 0 => asked'
    BY <1>4 DEF ManagerRound, EndInv
  <2>5. crash' = "none" \/ (crash' = "index" /\ PastTheSlots)
    BY <1>4 DEF ManagerRound
  <2>6. CrashCauses'
    BY <1>4, <2>5, PastSlots DEF CrashCauses
  <2> QED BY <1>1, <2>1, <2>3, <2>4, <2>6
<1>5. CASE JoinWorker
  <2>1. caller.at # "gone"
    BY <1>5 DEF JoinWorker, Destroying
  <2>2. Shown' = Shown /\ task_queue' = task_queue
    BY <1>5, ShownRests DEF JoinWorker
  <2>3. caller.at = "leaving" => Quiet'
    BY <2>2 DEF Quiet, EndInv, Shown
  <2>4. UNCHANGED <<exit_thread_num, asked, crash>>
    BY <1>5 DEF JoinWorker
  <2> QED BY <1>1, <2>1, <2>3, <2>4 DEF CrashCauses, EndInv
<1>6. ASSUME NEW s \in Slots, Worker_(s)
      PROVE  /\ caller.at = "leaving" => Quiet'
             /\ caller.at # "gone"
             /\ exit_thread_num' > 0 => asked'
             /\ CrashCauses'
  <2>1. workors[s].at # "none"
    BY <1>6 DEF Worker_, PopTask, UncountTask, TakeMemory, AssertMemory, PreProcess, LeavePool,
                Polling, Worker
  <2>2. caller.at # "gone"
    BY <1>2, <2>1
  <2>3. caller.at = "leaving" => workors[s].at \notin {"popped", "waiting", "filling"}
    BY DEF EndInv, Shape, WorkerInv, Sound
  <2>4. CASE LeavePool(s)
    <3>1. Shown' = Shown /\ task_queue' = task_queue
      BY <2>4, ShownRests DEF LeavePool
    <3>2. caller.at = "leaving" => Quiet'
      BY <3>1 DEF Quiet, EndInv, Shown
    <3>3. asked' = asked
      BY <2>4 DEF LeavePool
    <3>4. exit_thread_num' > 0 => exit_thread_num > 0
      BY <1>3, <2>4 DEF LeavePool
    <3>5. crash' = "none" \/ (crash' = "join" /\ exit_thread_num > 0)
      BY <2>4 DEF LeavePool, AskedToLeave
    <3>6. CrashCauses'
      BY <3>3, <3>5, <1>3 DEF CrashCauses, EndInv, ThreadsInv
    <3> QED BY <1>1, <2>2, <3>2, <3>3, <3>4, <3>6 DEF EndInv
  <2>5. CASE AssertMemory(s)
    <3>1. caller.at = "abandoning"
      <4>1. workors[s].at = "waiting" /\ ~running
        BY <2>5 DEF AssertMemory
      <4>2. caller.at \notin Calling /\ caller.at # "leaving"
        BY <2>3, <4>1 DEF EndInv
      <4> QED BY <2>2, <4>2 DEF Shape, Types, CallerTypes
    <3>2. crash' = "assert" /\ UNCHANGED <<exit_thread_num, asked>>
      BY <2>5 DEF AssertMemory, poolVars
    <3> QED BY <1>1, <3>1, <3>2 DEF CrashCauses, EndInv
  <2>6. CASE PopTask(s) \/ UncountTask(s) \/ TakeMemory(s) \/ PreProcess(s)
    <3>1. caller.at # "leaving"
      BY <2>3, <2>6 DEF PopTask, UncountTask, TakeMemory, PreProcess, EndInv
    <3>2. UNCHANGED <<exit_thread_num, asked, crash>>
      BY <2>6 DEF PopTask, UncountTask, TakeMemory, PreProcess
    <3> QED BY <1>1, <2>2, <3>1, <3>2 DEF CrashCauses, EndInv
  <2> QED BY <1>6, <2>4, <2>5, <2>6 DEF Worker_
<1> QED BY <1>1, <1>4, <1>5, <1>6

LEMMA EndStep ==
  ASSUME Shape, PictureInv, ThreadsInv, EndInv, [InferenceNext]_inferenceVars
  PROVE  EndInv'
<1>1. CASE crash = "none" /\ (ManagerRound \/ JoinWorker \/ \E s \in Slots : Worker_(s))
  BY <1>1, EndThreads DEF EndInv, Quiet
<1>2. ASSUME UNCHANGED <<task_queue, workors, exit_thread_num, asked, manager, crash>>,
             UNCHANGED <<running, caller>>,
             crash = "none" \/ UNCHANGED <<live_thread_num, pool_running>>
      PROVE  EndInv'
  BY <1>2 DEF EndInv, CrashCauses, AllJoined
<1>3. CASE UNCHANGED inferenceVars
  BY <1>2, <1>3 DEF inferenceVars, poolVars
<1>4. ASSUME NEW e \in Engines, Engine_(e) PROVE EndInv'
  BY <1>2, <1>4 DEF Engine_, TakeFilled, Infer, LeaveInfer, poolVars
<1>5. CASE crash = "none" /\ StopPool
  BY <1>2, <1>5 DEF StopPool
<1>6. ASSUME crash = "none", caller.at \in Calling, caller'.at \in Calling,
             UNCHANGED <<exit_thread_num, asked, crash, running>>
      PROVE  EndInv'
  BY <1>6 DEF EndInv, CrashCauses, Calling
<1>7. CASE crash = "none" /\ (BeginBatch \/ AddTaskToQueue \/ CountTask \/ GetResultAsynchr)
  <2>1. CASE BeginBatch
    BY <1>6, <1>7, <2>1 DEF BeginBatch, Calling, poolVars
  <2>2. CASE AddTaskToQueue
    BY <1>6, <1>7, <2>2 DEF AddTaskToQueue, Calling, Shape, Types, CallerTypes
  <2>3. CASE CountTask
    BY <1>6, <1>7, <2>3 DEF CountTask, Calling, Shape, Types, CallerTypes
  <2>4. CASE GetResultAsynchr
    BY <1>6, <1>7, <2>4 DEF GetResultAsynchr, Calling, Shape, Types, CallerTypes, poolVars
  <2> QED BY <1>7, <2>1, <2>2, <2>3, <2>4
<1>8. CASE crash = "none" /\ Destroy
  <2>1. /\ caller'.at = IF caller.at = "idle" THEN "leaving" ELSE "abandoning"
        /\ running' = FALSE
    BY <1>8 DEF Destroy, Shape, Types, CallerTypes
  <2>2. UNCHANGED <<task_queue, workors, exit_thread_num, asked, crash>>
    BY <1>8 DEF Destroy, poolVars
  <2> QED BY <1>8, <2>1, <2>2, LeavingIsQuiet DEF EndInv, CrashCauses, Calling
<1>9. CASE crash = "none" /\ Destroyed
  <2>1. /\ caller'.at = "gone" /\ Destroying /\ manager = "ended" /\ AllJoined
        /\ UNCHANGED <<task_queue, workors, exit_thread_num, asked, manager, crash, running>>
    BY <1>9 DEF Destroyed, Shape, Types, CallerTypes, poolVars
  <2>2. caller.at \notin Calling /\ caller'.at \notin Calling
    BY <2>1 DEF Destroying, Calling
  <2> QED BY <1>9, <2>1, <2>2 DEF EndInv, CrashCauses, AllJoined
<1> QED BY <1>1, <1>3, <1>4, <1>5, <1>7, <1>8, <1>9 DEF InferenceNext, Caller_

(* The process ends only for its three causes: the assertion of PreProcess *)
(* only in an object that is destroyed in the middle of a batch, never in  *)
(* one whose last batch was collected; a failing join only in a pool that  *)
(* can have more than twice MinThreads threads, after Manager asked some   *)
(* to leave; a slot past the last one only when each slot has a thread,    *)
(* which live_thread_num does not tell.                                    *)
THEOREM EndsOnlyForCause == InferenceSpec => [](InferenceInv /\ CrashCauses)
<1>1. Init => InferenceInv
  BY ShapeInit, CountInit, MemoryInit, PictureInit, ThreadsInit, EndInit DEF InferenceInv, Shape
<1>2. InferenceInv /\ [InferenceNext]_inferenceVars => InferenceInv'
  BY ShapeStep, CountStep, MemoryStep, PictureStep, ThreadsStep, EndStep DEF InferenceInv, Shape
<1>3. InferenceInv => CrashCauses
  BY DEF InferenceInv, EndInv
<1> QED BY <1>1, <1>2, <1>3, PTL DEF InferenceSpec

==============================================================================
