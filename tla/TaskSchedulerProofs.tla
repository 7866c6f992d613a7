--------------------------- MODULE TaskSchedulerProofs ---------------------------
(***************************************************************************)
(* TaskScheduler.tla for any tasks, priorities, queue size, number of      *)
(* workers and number of restarts: no task is executed twice, and the      *)
(* scheduler implements TaskContract.                                      *)
(***************************************************************************)
EXTENDS TaskScheduler, FiniteSetTheorems, FunctionTheorems, SequenceTheorems,
        WellFoundedInduction, TLAPS

-------------------------------------------------------------------------------
(* The operators of the queue.                                             *)

(* A non-empty set of naturals has a least element.                        *)
LEMMA LeastNatural ==
  ASSUME NEW T, T \subseteq Nat, T # {}
  PROVE  \E m \in T : \A n \in T : m <= n
<1>1. PICK m \in T : \A n \in T : ~(<<n, m>> \in OpToRel(<, Nat))
  BY WFMin, NatLessThanWellFounded
<1>2. \A n \in T : ~(n < m)
  BY <1>1 DEF OpToRel
<1>3. QED
  BY <1>2

(* The search loop of Enqueue always finds a position.                     *)
LEMMA InsertIndexProperties ==
  ASSUME NEW q \in Seq(Tasks), NEW t \in Tasks
  PROVE  LET k == InsertIndex(q, t)
         IN  /\ k \in 1..Len(q) + 1
             /\ \A i \in 1..k - 1 : Priority[q[i]] >= Priority[t]
             /\ k <= Len(q) => Priority[q[k]] < Priority[t]
<1> DEFINE P(k) == /\ \A i \in 1..k - 1 : Priority[q[i]] >= Priority[t]
                   /\ k <= Len(q) => Priority[q[k]] < Priority[t]
           Lower == {i \in 1..Len(q) : Priority[q[i]] < Priority[t]}
<1>1. Len(q) \in Nat /\ (\A i \in 1..Len(q) : Priority[q[i]] \in Int) /\ Priority[t] \in Int
  BY TasksAssumption
<1>2. \E k \in 1..Len(q) + 1 : P(k)
  <2>1. CASE Lower = {}
    <3>1. P(Len(q) + 1)
      BY <1>1, <2>1
    <3> QED
      BY <1>1, <3>1
  <2>2. CASE Lower # {}
    <3>0. Lower \subseteq Nat
      BY <1>1
    <3>1. PICK m \in Lower : \A n \in Lower : m <= n
      <4> HIDE DEF Lower
      <4> QED
        BY <2>2, <3>0, LeastNatural
    <3>2. P(m)
      BY <1>1, <3>1
    <3> QED
      BY <1>1, <3>1, <3>2
  <2> QED
    BY <2>1, <2>2
<1>3. InsertIndex(q, t) = CHOOSE k \in 1..Len(q) + 1 : P(k)
  BY DEF InsertIndex
<1> HIDE DEF P
<1>4. InsertIndex(q, t) \in 1..Len(q) + 1 /\ P(InsertIndex(q, t))
  BY <1>2, <1>3
<1>5. QED
  BY <1>4 DEF P

(* Insert returns the sequence with one more element at that position.     *)
LEMMA InsertProperties ==
  ASSUME NEW q \in Seq(Tasks), NEW t \in Tasks
  PROVE  LET k == InsertIndex(q, t)
             r == Insert(q, t)
         IN  /\ r \in Seq(Tasks)
             /\ Len(r) = Len(q) + 1
             /\ \A i \in 1..Len(q) + 1 :
                  r[i] = IF i < k THEN q[i] ELSE IF i = k THEN t ELSE q[i - 1]
<1> DEFINE k == InsertIndex(q, t)
           r == Insert(q, t)
<1>1. k \in 1..Len(q) + 1 /\ Len(q) \in Nat
  BY InsertIndexProperties
<1>2. \A i \in 1..Len(q) + 1 :
        /\ r[i] = IF i < k THEN q[i] ELSE IF i = k THEN t ELSE q[i - 1]
        /\ r[i] \in Tasks
  <2> SUFFICES ASSUME NEW i \in 1..Len(q) + 1
               PROVE  /\ r[i] = IF i < k THEN q[i] ELSE IF i = k THEN t ELSE q[i - 1]
                      /\ r[i] \in Tasks
    OBVIOUS
  <2>1. r[i] = IF i < k THEN q[i] ELSE IF i = k THEN t ELSE q[i - 1]
    BY DEF Insert
  <2>2. i < k => i \in 1..Len(q)
    BY <1>1
  <2>3. ~(i < k) /\ i # k => i - 1 \in 1..Len(q)
    BY <1>1
  <2> HIDE DEF k, r
  <2> QED
    BY <2>1, <2>2, <2>3, ElementOfSeq
<1>3. r \in [1..Len(q) + 1 -> Tasks]
  BY <1>1, <1>2 DEF Insert
<1>4. r \in Seq(Tasks)
  BY <1>1, <1>3, SeqDef
<1>5. Len(r) = Len(q) + 1
  BY <1>1, <1>3, <1>4, LenProperties
<1>6. QED
  BY <1>2, <1>4, <1>5

(* The tasks that wait after an Enqueue.                                   *)
LEMMA InsertElements ==
  ASSUME NEW q \in Seq(Tasks), NEW t \in Tasks
  PROVE  {Insert(q, t)[i] : i \in 1..Len(Insert(q, t))} = {q[i] : i \in 1..Len(q)} \cup {t}
<1> DEFINE k == InsertIndex(q, t)
           r == Insert(q, t)
<1>1. k \in 1..Len(q) + 1 /\ Len(q) \in Nat /\ Len(r) = Len(q) + 1
  BY InsertIndexProperties, InsertProperties
<1>2. \A i \in 1..Len(q) + 1 :
        r[i] = IF i < k THEN q[i] ELSE IF i = k THEN t ELSE q[i - 1]
  BY InsertProperties
<1> HIDE DEF k, r
<1>3. ASSUME NEW i \in 1..Len(r)
      PROVE  r[i] \in {q[j] : j \in 1..Len(q)} \cup {t}
  <2>1. CASE i < k
    BY <1>1, <1>2, <2>1
  <2>2. CASE i = k
    BY <1>1, <1>2, <2>2
  <2>3. CASE i > k
    <3>1. i - 1 \in 1..Len(q) /\ r[i] = q[i - 1]
      BY <1>1, <1>2, <2>3
    <3> QED
      BY <3>1
  <2> QED
    BY <1>1, <2>1, <2>2, <2>3
<1>4. ASSUME NEW j \in 1..Len(q)
      PROVE  q[j] \in {r[i] : i \in 1..Len(r)}
  <2>1. CASE j < k
    <3>1. j \in 1..Len(r) /\ r[j] = q[j]
      BY <1>1, <1>2, <2>1
    <3> QED
      BY <3>1
  <2>2. CASE j >= k
    <3>1. j + 1 \in 1..Len(r) /\ r[j + 1] = q[j]
      BY <1>1, <1>2, <2>2
    <3> QED
      BY <3>1
  <2> QED
    BY <1>1, <2>1, <2>2
<1>5. t \in {r[i] : i \in 1..Len(r)}
  BY <1>1, <1>2
<1>6. QED
  BY <1>3, <1>4, <1>5 DEF r

-------------------------------------------------------------------------------
(* The inductive invariant.                                                *)

(* A goroutine that has not been spawned is nowhere; one that executes has *)
(* a task.                                                                 *)
SpawnInv ==
  /\ main = "idle" => cursor = 1
  /\ \A g \in Goroutines : g[2] > starts => pc[g] = "none"
  /\ main = "starting" => \A w \in Workers : w >= cursor => pc[<<w, starts>>] = "none"
  /\ \A g \in Goroutines : pc[g] = "execute" => task[g] \in Tasks

(* The queue is in the order of the contract, and older than the clock.    *)
OrderInv ==
  /\ \A i, j \in 1..Len(queue) : i < j => Contract!Precedes(queue[i], queue[j])
  /\ \A i \in 1..Len(queue) : stamp[queue[i]] < clock

IInv == TypeOK /\ SpawnInv /\ OrderInv /\ NoTaskTwice

-------------------------------------------------------------------------------
(* What each step does to the tasks that wait and that are executed.       *)

LEMMA QueueElements ==
  ASSUME TypeOK
  PROVE  /\ Len(queue) \in Nat
         /\ \A i \in 1..Len(queue) : queue[i] \in Tasks
         /\ Waiting \subseteq Tasks
<1>1. Len(queue) \in Nat /\ \A i \in 1..Len(queue) : queue[i] \in Tasks
  BY LenProperties, ElementOfSeq DEF TypeOK
<1>2. QED
  BY <1>1 DEF Waiting

LEMMA SameQueue == UNCHANGED queue => Waiting' = Waiting
  BY DEF Waiting

LEMMA SameExecuting ==
  ASSUME \A g \in Goroutines : pc'[g] = "execute" <=> pc[g] = "execute",
         \A g \in Goroutines : pc[g] = "execute" => task'[g] = task[g]
  PROVE  Executing' = Executing
  BY DEF Executing

(* main never touches a goroutine that executes.                           *)
LEMMA MainEffect ==
  ASSUME TypeOK, SpawnInv, MainNext
  PROVE  /\ UNCHANGED <<queueVars, history, task>>
         /\ \A g \in Goroutines : pc'[g] = "execute" <=> pc[g] = "execute"
         /\ Waiting' = Waiting /\ Executing' = Executing
<1>1. UNCHANGED <<queueVars, history, task>>
  BY DEF MainNext, Start, StartWorker, Stop, StopWorker, goVars
<1>2. \A g \in Goroutines : pc'[g] = "execute" <=> pc[g] = "execute"
  <2>1. CASE StartWorker
    <3>1. <<cursor, starts>> \in Goroutines /\ pc[<<cursor, starts>>] = "none"
      BY <2>1, SizesAssumption DEF StartWorker, SpawnInv, TypeOK, Goroutines, Workers
    <3> QED
      BY <2>1, <3>1 DEF StartWorker, TypeOK
  <2>2. CASE Start \/ Stop \/ StopWorker
    BY <2>2 DEF Start, Stop, StopWorker, goVars
  <2> QED
    BY <2>1, <2>2 DEF MainNext
<1>3. QED
  BY <1>1, <1>2, SameQueue, SameExecuting DEF queueVars

LEMMA EnqueueEffect ==
  ASSUME TypeOK, NEW t \in Tasks, SubmitTask(t), Enqueue(t)
  PROVE  Waiting' = Waiting \cup {t} /\ Executing' = Executing
<1>1. Waiting' = Waiting \cup {t}
  <2>1. queue' = Insert(queue, t) /\ queue \in Seq(Tasks)
    BY DEF Enqueue, TypeOK
  <2>2. Waiting' = {Insert(queue, t)[i] : i \in 1..Len(Insert(queue, t))}
    BY <2>1 DEF Waiting
  <2> QED
    BY <2>1, <2>2, InsertElements DEF Waiting
<1>2. QED
  BY <1>1, SameExecuting DEF SubmitTask, goVars

(* Dequeue takes the head out of the queue.                                *)
LEMMA TickEffect ==
  ASSUME TypeOK, NoTaskTwice, NEW g \in Goroutines, WorkerTick(g)
  PROVE  /\ Head(queue) \in Waiting
         /\ Waiting' = Waiting \ {Head(queue)}
         /\ Executing' = Executing \cup {Head(queue)}
<1>1. /\ Len(queue) \in Nat \ {0} /\ Head(queue) = queue[1]
      /\ Len(Tail(queue)) = Len(queue) - 1
      /\ \A i \in 1..Len(queue) - 1 : Tail(queue)[i] = queue[i + 1]
  BY HeadTailProperties, EmptySeq DEF WorkerTick, Dequeue, TypeOK
<1>2. Head(queue) \in Waiting
  BY <1>1 DEF Waiting
<1>3. Waiting' = Waiting \ {Head(queue)}
  <2>1. ASSUME NEW i \in 1..Len(queue) - 1
        PROVE  queue[i + 1] \in Waiting \ {queue[1]}
    <3>1. i + 1 \in 1..Len(queue) /\ 1 \in 1..Len(queue) /\ i + 1 # 1
      BY <1>1
    <3> QED
      BY <3>1 DEF Waiting, NoTaskTwice
  <2>2. ASSUME NEW i \in 1..Len(queue), queue[i] # queue[1]
        PROVE  i - 1 \in 1..Len(queue) - 1 /\ queue[i] = queue[(i - 1) + 1]
    BY <1>1, <2>2
  <2>3. Waiting' = {queue[i + 1] : i \in 1..Len(queue) - 1}
    BY <1>1 DEF Waiting, WorkerTick, Dequeue
  <2>4. Waiting \ {queue[1]} \subseteq Waiting'
    BY <2>2, <2>3 DEF Waiting
  <2> QED
    BY <1>1, <2>1, <2>3, <2>4
<1>4. Executing' = Executing \cup {Head(queue)}
  BY DEF WorkerTick, Dequeue, Executing, TypeOK
<1>5. QED
  BY <1>2, <1>3, <1>4

LEMMA ExecutedEffect ==
  ASSUME TypeOK, NoTaskTwice, NEW g \in Goroutines, WorkerExecuted(g)
  PROVE  /\ task[g] \in Executing
         /\ Waiting' = Waiting
         /\ Executing' = Executing \ {task[g]}
<1>1. task[g] \in Executing
  BY DEF WorkerExecuted, Executing
<1>2. Executing' = Executing \ {task[g]}
  BY DEF WorkerExecuted, Executing, TypeOK, NoTaskTwice
<1>3. QED
  BY <1>1, <1>2, SameQueue DEF WorkerExecuted, queueVars

LEMMA ReturnsEffect ==
  ASSUME TypeOK, NEW g \in Goroutines, WorkerReturns(g)
  PROVE  Waiting' = Waiting /\ Executing' = Executing
  BY SameQueue, SameExecuting DEF WorkerReturns, queueVars, TypeOK

LEMMA CloseEffect ==
  ASSUME QueueClose
  PROVE  Waiting' = {} /\ Executing' = Executing
<1>1. Waiting' = {}
  BY DEF QueueClose, Waiting
<1>2. QED
  BY <1>1, SameExecuting DEF QueueClose, goVars

-------------------------------------------------------------------------------
(* Each part of the invariant is kept by every step.                       *)

LEMMA TypeStep ==
  ASSUME TypeOK, SpawnInv, [Next]_vars
  PROVE  TypeOK'
<1> USE TasksAssumption, SizesAssumption DEF queueVars, history, mainVars, goVars
<1>1. ASSUME NEW t \in Tasks, SubmitTask(t)
      PROVE  TypeOK'
  <2>1. CASE Enqueue(t)
    <3>1. queue \in Seq(Tasks) /\ queue' = Insert(queue, t)
      BY <2>1 DEF Enqueue, TypeOK
    <3>2. queue' \in Seq(Tasks)
      BY <3>1, InsertProperties
    <3> QED
      BY <1>1, <2>1, <3>2 DEF SubmitTask, Enqueue, TypeOK
  <2>2. CASE EnqueueFull(t)
    BY <1>1, <2>2 DEF SubmitTask, EnqueueFull, TypeOK
  <2> QED
    BY <1>1, <2>1, <2>2 DEF SubmitTask
<1>2. CASE QueueClose
  BY <1>2, QueueElements, EmptySeq DEF QueueClose, TypeOK
<1>3. CASE Start
  BY <1>3 DEF Start, TypeOK
<1>4. CASE StartWorker
  <2>1. <<cursor, starts>> \in Goroutines /\ cursor \in Workers
    BY <1>4 DEF StartWorker, TypeOK, Workers, Goroutines
  <2>2. /\ pc' \in [Goroutines -> {"none", "select", "execute", "done"}]
        /\ wRunning' \in [Workers -> BOOLEAN]
    BY <1>4, <2>1 DEF StartWorker, TypeOK
  <2>3. /\ cursor' \in Workers /\ starts' \in 0..MaxStarts
        /\ main' \in {"idle", "starting", "stopping", "panicked"}
        /\ main' = "starting" => starts' > 0
    BY <1>4 DEF StartWorker, AdvanceCursor, TypeOK, Workers
  <2> QED
    BY <1>4, <2>2, <2>3 DEF StartWorker, TypeOK
<1>5. CASE Stop
  BY <1>5 DEF Stop, TypeOK
<1>6. CASE StopWorker
  BY <1>6 DEF StopWorker, AdvanceCursor, TypeOK, Workers
<1>7. ASSUME NEW g \in Goroutines, WorkerReturns(g)
      PROVE  TypeOK'
  BY <1>7 DEF WorkerReturns, TypeOK
<1>8. ASSUME NEW g \in Goroutines, WorkerTick(g)
      PROVE  TypeOK'
  <2>1. Head(queue) \in Tasks /\ Tail(queue) \in Seq(Tasks)
    BY <1>8, HeadTailProperties DEF WorkerTick, Dequeue, TypeOK
  <2> QED
    BY <1>8, <2>1 DEF WorkerTick, Dequeue, TypeOK
<1>9. ASSUME NEW g \in Goroutines, WorkerExecuted(g)
      PROVE  TypeOK'
  BY <1>9 DEF WorkerExecuted, TypeOK, SpawnInv
<1>10. CASE UNCHANGED vars
  BY <1>10 DEF vars, TypeOK
<1> QED
  BY <1>1, <1>2, <1>3, <1>4, <1>5, <1>6, <1>7, <1>8, <1>9, <1>10
  DEF Next, submitTask, MainNext, WorkerNext

LEMMA SpawnStep ==
  ASSUME TypeOK, SpawnInv, [Next]_vars
  PROVE  SpawnInv'
<1> USE TasksAssumption, SizesAssumption
    DEF queueVars, history, mainVars, goVars, TypeOK, SpawnInv, Goroutines, Workers
<1>1. ASSUME NEW t \in Tasks, SubmitTask(t)
      PROVE  SpawnInv'
  BY <1>1 DEF SubmitTask
<1>2. CASE QueueClose
  BY <1>2 DEF QueueClose
<1>3. CASE Start
  BY <1>3 DEF Start
<1>4. CASE StartWorker
  <2>1. /\ starts' = starts /\ task' = task
        /\ cursor \in Workers /\ <<cursor, starts>> \in Goroutines
    BY <1>4 DEF StartWorker
  <2>2. \A g \in Goroutines : pc'[g] = pc[g] \/ (g = <<cursor, starts>> /\ pc'[g] = "select")
    <3>1. \/ pc' = pc
          \/ pc' = [pc EXCEPT ![<<cursor, starts>>] = "select"]
      BY <1>4 DEF StartWorker
    <3> QED
      BY <3>1
  <2>3. main' = "idle" => cursor' = 1
    BY <1>4 DEF StartWorker, AdvanceCursor
  <2>4. ASSUME NEW g \in Goroutines, g[2] > starts'
        PROVE  pc'[g] = "none"
    <3>1. g[2] > starts /\ starts \in Nat
      BY <2>1, <2>4
    <3>2. g # <<cursor, starts>>
      BY <3>1
    <3>3. pc[g] = "none"
      BY <3>1
    <3> QED
      BY <2>2, <3>2, <3>3
  <2>5. main' = "starting" => \A w \in Workers : w >= cursor' => pc'[<<w, starts'>>] = "none"
    <3> SUFFICES ASSUME main' = "starting", NEW w \in Workers, w >= cursor'
                 PROVE  pc'[<<w, starts'>>] = "none"
      OBVIOUS
    <3>1. w > cursor /\ <<w, starts>> \in Goroutines /\ <<w, starts>> # <<cursor, starts>>
      BY <1>4, <2>1 DEF StartWorker, AdvanceCursor
    <3>2. pc[<<w, starts>>] = "none"
      BY <1>4, <3>1 DEF StartWorker
    <3> QED
      BY <2>1, <2>2, <3>1, <3>2
  <2>6. \A g \in Goroutines : pc'[g] = "execute" => task'[g] \in Tasks
    BY <2>1, <2>2
  <2> QED
    BY <2>3, <2>4, <2>5, <2>6
<1>5. CASE Stop
  BY <1>5 DEF Stop
<1>6. CASE StopWorker
  BY <1>6 DEF StopWorker, AdvanceCursor
<1>7. ASSUME NEW g \in Goroutines, WorkerReturns(g)
      PROVE  SpawnInv'
  BY <1>7 DEF WorkerReturns
<1>8. ASSUME NEW g \in Goroutines, WorkerTick(g)
      PROVE  SpawnInv'
  <2>1. Head(queue) \in Tasks
    BY <1>8, HeadTailProperties DEF WorkerTick, Dequeue
  <2> QED
    BY <1>8, <2>1 DEF WorkerTick, Dequeue
<1>9. ASSUME NEW g \in Goroutines, WorkerExecuted(g)
      PROVE  SpawnInv'
  BY <1>9 DEF WorkerExecuted
<1>10. CASE UNCHANGED vars
  BY <1>10 DEF vars
<1> QED
  BY <1>1, <1>2, <1>3, <1>4, <1>5, <1>6, <1>7, <1>8, <1>9, <1>10
  DEF Next, submitTask, MainNext, WorkerNext

(* Insertion keeps the queue in order: everything before the position has  *)
(* at least the new priority and is older, everything after has less.      *)
LEMMA EnqueueKeepsOrder ==
  ASSUME TypeOK, OrderInv, NEW t \in Tasks, t \notin Waiting, Enqueue(t)
  PROVE  OrderInv'
<1> DEFINE k == InsertIndex(queue, t)
           n == Len(queue)
<1>1. queue \in Seq(Tasks) /\ n \in Nat /\ k \in 1..n + 1
  BY InsertIndexProperties DEF TypeOK
<1>2. /\ \A i \in 1..k - 1 : Priority[queue[i]] >= Priority[t]
      /\ k <= n => Priority[queue[k]] < Priority[t]
  BY <1>1, InsertIndexProperties
<1>3. /\ Len(queue') = n + 1
      /\ \A i \in 1..n + 1 :
           queue'[i] = IF i < k THEN queue[i] ELSE IF i = k THEN t ELSE queue[i - 1]
  BY <1>1, InsertProperties DEF Enqueue
<1>4. \A i \in 1..n : queue[i] \in Tasks /\ queue[i] # t /\ stamp'[queue[i]] = stamp[queue[i]]
  BY QueueElements DEF Enqueue, TypeOK, Waiting
<1>5. stamp'[t] = clock /\ clock' = clock + 1 /\ clock \in Nat
  BY DEF Enqueue, TypeOK
<1>6. /\ Priority[t] \in Int
      /\ \A i \in 1..n : Priority[queue[i]] \in Int /\ stamp[queue[i]] \in Nat
  BY <1>4, TasksAssumption DEF TypeOK
<1>7. \A i, j \in 1..n : i < j =>
        \/ Priority[queue[i]] > Priority[queue[j]]
        \/ Priority[queue[i]] = Priority[queue[j]] /\ stamp[queue[i]] < stamp[queue[j]]
  BY DEF OrderInv, Contract!Precedes
<1>8. \A i \in 1..n : stamp[queue[i]] < clock
  BY DEF OrderInv
<1>9. \A i \in 1..n : i >= k => Priority[queue[i]] < Priority[t]
  BY <1>1, <1>2, <1>6, <1>7
<1> HIDE DEF k, n
<1>10. ASSUME NEW i \in 1..n + 1, NEW j \in 1..n + 1, i < j
       PROVE  \/ Priority[queue'[i]] > Priority[queue'[j]]
              \/ Priority[queue'[i]] = Priority[queue'[j]] /\ stamp'[queue'[i]] < stamp'[queue'[j]]
  <2>1. CASE j < k
    <3>1. i \in 1..n /\ j \in 1..n /\ queue'[i] = queue[i] /\ queue'[j] = queue[j]
      BY <1>1, <1>3, <1>10, <2>1
    <3> QED
      BY <1>4, <1>7, <1>10, <3>1
  <2>2. CASE j = k
    <3>1. i \in 1..k - 1 /\ i \in 1..n /\ queue'[i] = queue[i] /\ queue'[j] = t
      BY <1>1, <1>3, <1>10, <2>2
    <3> QED
      BY <1>2, <1>4, <1>5, <1>6, <1>8, <3>1
  <2>3. CASE i < k /\ k < j
    <3>1. i \in 1..n /\ j - 1 \in 1..n /\ i \in 1..k - 1 /\ j - 1 >= k
          /\ queue'[i] = queue[i] /\ queue'[j] = queue[j - 1]
      BY <1>1, <1>3, <1>10, <2>3
    <3>2. Priority[queue[i]] >= Priority[t] /\ Priority[t] > Priority[queue[j - 1]]
      BY <1>2, <1>9, <3>1
    <3> QED
      BY <1>6, <3>1, <3>2
  <2>4. CASE i = k
    <3>1. j - 1 \in 1..n /\ j - 1 >= k /\ queue'[i] = t /\ queue'[j] = queue[j - 1]
      BY <1>1, <1>3, <1>10, <2>4
    <3> QED
      BY <1>6, <1>9, <3>1
  <2>5. CASE k < i
    <3>1. i - 1 \in 1..n /\ j - 1 \in 1..n /\ i - 1 < j - 1
          /\ queue'[i] = queue[i - 1] /\ queue'[j] = queue[j - 1]
      BY <1>1, <1>3, <1>10, <2>5
    <3> QED
      BY <1>4, <1>7, <3>1
  <2> QED
    BY <1>1, <1>10, <2>1, <2>2, <2>3, <2>4, <2>5
<1>11. ASSUME NEW i \in 1..n + 1
       PROVE  stamp'[queue'[i]] < clock'
  <2>1. queue'[i] = t \/ \E j \in 1..n : queue'[i] = queue[j]
    <3>1. CASE i < k
      BY <1>1, <1>3, <3>1
    <3>2. CASE i = k
      BY <1>1, <1>3, <3>2
    <3>3. CASE i > k
      <4>1. i - 1 \in 1..n /\ queue'[i] = queue[i - 1]
        BY <1>1, <1>3, <3>3
      <4> QED
        BY <4>1
    <3> QED
      BY <1>1, <3>1, <3>2, <3>3
  <2> QED
    BY <1>4, <1>5, <1>6, <1>8, <2>1
<1>12. QED
  BY <1>3, <1>10, <1>11 DEF OrderInv, Contract!Precedes

(* Taking the head leaves the rest in order.                               *)
LEMMA TickKeepsOrder ==
  ASSUME TypeOK, OrderInv, NEW g \in Goroutines, WorkerTick(g)
  PROVE  OrderInv'
<1>1. /\ Len(queue) \in Nat \ {0} /\ Len(queue') = Len(queue) - 1
      /\ \A i \in 1..Len(queue) - 1 : queue'[i] = queue[i + 1]
      /\ stamp' = stamp /\ clock' = clock
  BY HeadTailProperties, EmptySeq DEF WorkerTick, Dequeue, TypeOK
<1>2. ASSUME NEW i \in 1..Len(queue'), NEW j \in 1..Len(queue'), i < j
      PROVE  \/ Priority[queue'[i]] > Priority[queue'[j]]
             \/ Priority[queue'[i]] = Priority[queue'[j]] /\ stamp'[queue'[i]] < stamp'[queue'[j]]
  <2>1. i + 1 \in 1..Len(queue) /\ j + 1 \in 1..Len(queue) /\ i + 1 < j + 1
    BY <1>1, <1>2
  <2>2. queue'[i] = queue[i + 1] /\ queue'[j] = queue[j + 1]
    BY <1>1
  <2> QED
    BY <1>1, <2>1, <2>2 DEF OrderInv, Contract!Precedes
<1>3. ASSUME NEW i \in 1..Len(queue')
      PROVE  stamp'[queue'[i]] < clock'
  <2>1. i + 1 \in 1..Len(queue) /\ queue'[i] = queue[i + 1]
    BY <1>1
  <2> QED
    BY <1>1, <2>1 DEF OrderInv
<1>4. QED
  BY <1>2, <1>3 DEF OrderInv, Contract!Precedes

LEMMA SameOrder == OrderInv /\ UNCHANGED queueVars => OrderInv'
  BY DEF OrderInv, Contract!Precedes, queueVars

LEMMA OrderStep ==
  ASSUME TypeOK, SpawnInv, OrderInv, [Next]_vars
  PROVE  OrderInv'
<1>1. ASSUME NEW t \in Tasks, SubmitTask(t)
      PROVE  OrderInv'
  <2>1. t \notin Waiting
    BY <1>1 DEF SubmitTask, New
  <2> QED
    BY <1>1, <2>1, EnqueueKeepsOrder, SameOrder DEF SubmitTask, EnqueueFull
<1>2. CASE QueueClose
  <2>1. Len(queue') = 0
    BY <1>2 DEF QueueClose
  <2> QED
    BY <2>1 DEF OrderInv
<1>3. CASE MainNext
  BY <1>3, MainEffect, SameOrder
<1>4. ASSUME NEW g \in Goroutines, WorkerNext(g)
      PROVE  OrderInv'
  BY <1>4, TickKeepsOrder, SameOrder DEF WorkerNext, WorkerReturns, WorkerExecuted
<1>5. CASE UNCHANGED vars
  BY <1>5, SameOrder DEF vars
<1> QED
  BY <1>1, <1>2, <1>3, <1>4, <1>5 DEF Next, submitTask

(* No step brings a task to a second place.                                *)
LEMMA NoTaskTwiceStep ==
  ASSUME TypeOK, SpawnInv, NoTaskTwice, [Next]_vars
  PROVE  NoTaskTwice'
<1> DEFINE Once(q) == \A i, j \in 1..Len(q) : q[i] = q[j] => i = j
           Alone == \A g, h \in Goroutines :
                      pc[g] = "execute" /\ pc[h] = "execute" /\ task[g] = task[h] => g = h
           Apart == /\ Waiting \cap (Executing \cup finished \cup refused \cup dropped) = {}
                    /\ Executing \cap (finished \cup refused \cup dropped) = {}
                    /\ finished \cap (refused \cup dropped) = {}
<1>0. Once(queue) /\ Alone /\ Apart
  BY DEF NoTaskTwice
<1>1. ASSUME NEW t \in Tasks, SubmitTask(t)
      PROVE  Once(queue') /\ Alone' /\ Apart'
  <2>1. Alone'
    BY <1>0, <1>1 DEF SubmitTask, goVars
  <2>2. CASE Enqueue(t)
    <3> DEFINE k == InsertIndex(queue, t)
               n == Len(queue)
    <3>1. queue \in Seq(Tasks) /\ n \in Nat /\ k \in 1..n + 1
      BY InsertIndexProperties DEF TypeOK
    <3>2. /\ Len(queue') = n + 1
          /\ \A i \in 1..n + 1 :
               queue'[i] = IF i < k THEN queue[i] ELSE IF i = k THEN t ELSE queue[i - 1]
      BY <2>2, <3>1, InsertProperties DEF Enqueue
    <3>3. \A i \in 1..n : queue[i] # t
      BY <1>1 DEF SubmitTask, New, Waiting
    <3>4. \A i, j \in 1..n : queue[i] = queue[j] => i = j
      BY <1>0
    <3> HIDE DEF k, n
    <3>5. Once(queue')
      <4> SUFFICES ASSUME NEW i \in 1..n + 1, NEW j \in 1..n + 1, queue'[i] = queue'[j]
                   PROVE  i = j
        BY <3>2
      <4> DEFINE old(x) == IF x < k THEN x ELSE x - 1
      <4>1. \A x \in 1..n + 1 : x # k => old(x) \in 1..n /\ queue'[x] = queue[old(x)]
        BY <3>1, <3>2
      <4>2. queue'[k] = t
        BY <3>1, <3>2
      <4>3. i # k /\ j # k => old(i) = old(j)
        <5> HIDE DEF old
        <5> QED
          BY <3>4, <4>1
      <4>4. i = k <=> j = k
        <5> HIDE DEF old
        <5> QED
          BY <3>1, <3>3, <4>1, <4>2
      <4> QED
        BY <3>1, <4>3, <4>4
    <3>6. Apart'
      <4>1. Waiting' = Waiting \cup {t} /\ Executing' = Executing
        BY <1>1, <2>2, EnqueueEffect
      <4> QED
        BY <1>0, <1>1, <2>2, <4>1 DEF SubmitTask, Enqueue, New
    <3> QED
      BY <2>1, <3>5, <3>6
  <2>3. CASE EnqueueFull(t)
    <3>1. Waiting' = Waiting /\ Executing' = Executing /\ queue' = queue
      BY <1>1, <2>3, SameQueue, SameExecuting DEF SubmitTask, EnqueueFull, queueVars, goVars
    <3> QED
      BY <1>0, <1>1, <2>1, <2>3, <3>1 DEF SubmitTask, EnqueueFull, New
  <2> QED
    BY <1>1, <2>2, <2>3 DEF SubmitTask
<1>2. ASSUME QueueClose
      PROVE  Once(queue') /\ Alone' /\ Apart'
  <2>1. Len(queue') = 0 /\ UNCHANGED goVars
    BY <1>2 DEF QueueClose
  <2>2. Once(queue') /\ Alone'
    BY <1>0, <2>1 DEF goVars
  <2> QED
    BY <1>0, <1>2, <2>2, CloseEffect DEF QueueClose
<1>3. ASSUME MainNext
      PROVE  Once(queue') /\ Alone' /\ Apart'
  BY <1>0, <1>3, MainEffect DEF queueVars, history
<1>4. ASSUME NEW g \in Goroutines, WorkerReturns(g)
      PROVE  Once(queue') /\ Alone' /\ Apart'
  <2>1. Once(queue') /\ Alone'
    BY <1>0, <1>4 DEF WorkerReturns, queueVars, TypeOK
  <2> QED
    BY <1>0, <1>4, <2>1, ReturnsEffect DEF WorkerReturns, history
<1>5. ASSUME NEW g \in Goroutines, WorkerTick(g)
      PROVE  Once(queue') /\ Alone' /\ Apart'
  <2>1. /\ Len(queue) \in Nat \ {0} /\ Len(queue') = Len(queue) - 1
        /\ \A i \in 1..Len(queue) - 1 : queue'[i] = queue[i + 1]
    BY <1>5, HeadTailProperties, EmptySeq DEF WorkerTick, Dequeue, TypeOK
  <2>2. Once(queue')
    <3> SUFFICES ASSUME NEW i \in 1..Len(queue'), NEW j \in 1..Len(queue'), queue'[i] = queue'[j]
                 PROVE  i = j
      OBVIOUS
    <3>1. i + 1 \in 1..Len(queue) /\ j + 1 \in 1..Len(queue) /\ queue[i + 1] = queue[j + 1]
      BY <2>1
    <3>2. i + 1 = j + 1
      BY <1>0, <3>1
    <3> QED
      BY <2>1, <3>2
  <2>3. Head(queue) \in Waiting /\ Head(queue) \notin Executing
    BY <1>0, <1>5, TickEffect
  <2>4. \A h \in Goroutines : pc[h] = "execute" => task[h] # Head(queue)
    BY <2>3 DEF Executing
  <2>5. Alone'
    BY <1>0, <1>5, <2>4 DEF WorkerTick, Dequeue, TypeOK
  <2>6. /\ Waiting' = Waiting \ {Head(queue)}
        /\ Executing' = Executing \cup {Head(queue)}
        /\ UNCHANGED <<finished, refused, dropped>>
    BY <1>5, TickEffect DEF WorkerTick, Dequeue, history
  <2>7. Apart'
    BY <1>0, <2>3, <2>6
  <2> QED
    BY <2>2, <2>5, <2>7
<1>6. ASSUME NEW g \in Goroutines, WorkerExecuted(g)
      PROVE  Once(queue') /\ Alone' /\ Apart'
  <2>1. Once(queue')
    BY <1>0, <1>6 DEF WorkerExecuted, queueVars
  <2>2. Alone'
    BY <1>0, <1>6 DEF WorkerExecuted, TypeOK
  <2>3. /\ task[g] \in Executing /\ Waiting' = Waiting
        /\ Executing' = Executing \ {task[g]}
        /\ finished' = finished \cup {task[g]} /\ UNCHANGED <<refused, dropped>>
    BY <1>6, ExecutedEffect DEF WorkerExecuted
  <2>4. Apart'
    BY <1>0, <2>3
  <2> QED
    BY <2>1, <2>2, <2>4
<1>7. ASSUME UNCHANGED vars
      PROVE  Once(queue') /\ Alone' /\ Apart'
  <2>1. Waiting' = Waiting /\ Executing' = Executing
    BY <1>7, SameQueue, SameExecuting DEF vars, queueVars, goVars
  <2> QED
    BY <1>0, <1>7, <2>1 DEF vars, queueVars, history, goVars
<1>8. Once(queue') /\ Alone' /\ Apart'
  <2> HIDE DEF Once, Alone, Apart
  <2> QED
    BY <1>1, <1>2, <1>3, <1>4, <1>5, <1>6, <1>7 DEF Next, submitTask, WorkerNext
<1> QED
  BY <1>8 DEF NoTaskTwice

LEMMA InitIInv == Init => IInv
<1> SUFFICES ASSUME Init PROVE IInv
  OBVIOUS
<1>1. TypeOK
  <2>1. queue \in Seq(Tasks)
    BY EmptySeq DEF Init
  <2>2. cursor \in Workers /\ starts \in 0..MaxStarts
    BY SizesAssumption DEF Init, Workers
  <2>3. /\ running \in BOOLEAN /\ stopped \in BOOLEAN
        /\ wRunning \in [Workers -> BOOLEAN] /\ wStopped \in [Workers -> BOOLEAN]
    BY DEF Init
  <2>4. /\ pc \in [Goroutines -> {"none", "select", "execute", "done"}]
        /\ task \in [Goroutines -> Tasks \cup {NoTask}]
    BY DEF Init
  <2>5. stamp \in [Tasks -> Nat] /\ clock \in Nat
    BY DEF Init
  <2> QED
    BY <2>1, <2>2, <2>3, <2>4, <2>5 DEF Init, TypeOK
<1>2. Len(queue) = 0 /\ OrderInv
  BY DEF Init, OrderInv
<1>3. SpawnInv
  BY DEF Init, SpawnInv, Goroutines
<1>4. NoTaskTwice
  BY <1>2 DEF Init, NoTaskTwice, Waiting, Executing
<1> QED
  BY <1>1, <1>2, <1>3, <1>4 DEF IInv

LEMMA IInvInductive == Spec => []IInv
<1>1. IInv /\ [Next]_vars => IInv'
  BY TypeStep, SpawnStep, OrderStep, NoTaskTwiceStep DEF IInv
<1> QED
  BY <1>1, InitIInv, PTL DEF Spec

-------------------------------------------------------------------------------
(* The safety properties.                                                  *)

(* The scheduler's state is well formed: in particular the loops of Start  *)
(* and Stop visit existing workers only.                                   *)
THEOREM TypeCorrect == Spec => []TypeOK
<1>1. IInv => TypeOK
  BY DEF IInv
<1> QED
  BY <1>1, IInvInductive, PTL

(* No submitted task is executed twice, whatever Enqueue, Dequeue, Close   *)
(* and restarted workers do, and however many of each there are.           *)
THEOREM NoDoubleExecution == Spec => []NoTaskTwice
<1>1. IInv => NoTaskTwice
  BY DEF IInv
<1> QED
  BY <1>1, IInvInductive, PTL

-------------------------------------------------------------------------------
(* The workers of a scheduler that is started once.                        *)

(* Before the first Start nothing runs; from then on a worker that says it *)
(* is running was not stopped, and the goroutine its Start spawned lives.  *)
AliveInv ==
  starts <= 1 =>
    /\ starts = 0 => main = "idle" /\ ~running /\ \A w \in Workers : ~wRunning[w]
    /\ starts = 0 \/ main = "starting" => \A w \in Workers : ~wStopped[w]
    /\ \A w \in Workers : wRunning[w] => ~wStopped[w] /\ Alive(<<w, 1>>)

LEMMA AliveStep ==
  ASSUME TypeOK, AliveInv, [Next]_vars
  PROVE  AliveInv'
<1> SUFFICES ASSUME starts' <= 1
             PROVE  /\ starts' = 0 => main' = "idle" /\ ~running' /\ \A w \in Workers : ~wRunning'[w]
                    /\ starts' = 0 \/ main' = "starting" => \A w \in Workers : ~wStopped'[w]
                    /\ \A w \in Workers : wRunning'[w] => ~wStopped'[w] /\ Alive(<<w, 1>>)'
  BY DEF AliveInv
<1> USE SizesAssumption DEF queueVars, history, mainVars, goVars, TypeOK
<1>t. /\ starts \in Nat /\ starts <= starts' /\ starts <= 1
      /\ \A w \in Workers : starts = 1 => <<w, 1>> \in Goroutines
  <2>1. starts \in Nat /\ (starts' = starts \/ starts' = starts + 1)
    BY DEF Next, submitTask, SubmitTask, QueueClose, MainNext, Start, StartWorker, Stop, StopWorker,
           WorkerNext, WorkerReturns, WorkerTick, WorkerExecuted, vars
  <2> QED BY <2>1 DEF Goroutines
<1>i. /\ starts = 0 => main = "idle" /\ ~running /\ \A w \in Workers : ~wRunning[w]
      /\ starts = 0 \/ main = "starting" => \A w \in Workers : ~wStopped[w]
      /\ \A w \in Workers : wRunning[w] => ~wStopped[w] /\ Alive(<<w, 1>>)
  BY <1>t DEF AliveInv
<1>1. CASE UNCHANGED <<mainVars, pc>>
  BY <1>1, <1>i DEF Alive
<1>2. CASE Start
  <2>1. starts = 0 /\ starts' = 1
    BY <1>2, <1>t DEF Start
  <2> QED BY <1>2, <1>i, <2>1 DEF Start
<1>3. CASE StartWorker
  <2>1. starts = 1 /\ starts' = 1 /\ cursor \in Workers /\ wStopped' = wStopped
        /\ main = "starting"
    BY <1>3, <1>t DEF StartWorker
  <2>2. ASSUME NEW w \in Workers, wRunning'[w]
        PROVE  Alive(<<w, 1>>)'
    <3>1. <<w, 1>> \in Goroutines
      BY <1>t, <2>1
    <3>2. CASE wRunning[cursor]
      BY <1>3, <1>i, <2>2, <3>2 DEF StartWorker, Alive
    <3>3. CASE ~wRunning[cursor]
      <4>1. /\ wRunning' = [wRunning EXCEPT ![cursor] = TRUE]
            /\ pc' = [pc EXCEPT ![<<cursor, 1>>] = "select"]
        BY <1>3, <2>1, <3>3 DEF StartWorker
      <4>2. CASE w = cursor
        BY <3>1, <4>1, <4>2 DEF Alive
      <4>3. CASE w # cursor
        <5>1. wRunning[w] /\ <<w, 1>> # <<cursor, 1>>
          BY <2>2, <4>1, <4>3
        <5> QED BY <1>i, <3>1, <4>1, <5>1 DEF Alive
      <4> QED BY <4>2, <4>3
    <3> QED BY <3>2, <3>3
  <2> QED BY <1>i, <2>1, <2>2
<1>4. CASE Stop
  BY <1>4, <1>i, <1>t DEF Stop, Alive
<1>5. CASE StopWorker
  <2>1. starts = 1 /\ starts' = 1 /\ main' # "starting" /\ pc' = pc
    BY <1>5, <1>i, <1>t DEF StopWorker, AdvanceCursor
  <2>2. ASSUME NEW w \in Workers, wRunning'[w]
        PROVE  wRunning[w] /\ wStopped'[w] = wStopped[w]
    BY <1>5, <2>2 DEF StopWorker
  <2> QED BY <1>i, <2>1, <2>2 DEF Alive
<1>6. ASSUME NEW g \in Goroutines, WorkerReturns(g)
      PROVE  \A w \in Workers : wRunning[w] => Alive(<<w, 1>>)'
  <2> SUFFICES ASSUME NEW w \in Workers, wRunning[w] PROVE Alive(<<w, 1>>)'
    OBVIOUS
  <2>1. Alive(<<w, 1>>) /\ g[1] # w
    BY <1>6, <1>i DEF WorkerReturns
  <2> QED BY <1>6, <2>1 DEF WorkerReturns, Alive
<1>7. ASSUME NEW g \in Goroutines, WorkerTick(g) \/ WorkerExecuted(g)
      PROVE  \A w \in Workers : wRunning[w] => Alive(<<w, 1>>)'
  <2> SUFFICES ASSUME NEW w \in Workers, wRunning[w] PROVE Alive(<<w, 1>>)'
    OBVIOUS
  <2>1. Alive(<<w, 1>>) /\ <<w, 1>> \in Goroutines
    BY <1>i, <1>t
  <2>2. pc'[<<w, 1>>] \in {pc[<<w, 1>>], "select", "execute"}
    BY <1>7, <2>1 DEF WorkerTick, WorkerExecuted
  <2> QED BY <2>1, <2>2 DEF Alive
<1>8. ASSUME NEW g \in Goroutines, WorkerNext(g)
      PROVE  UNCHANGED mainVars
  BY <1>8 DEF WorkerNext, WorkerReturns, WorkerTick, WorkerExecuted
<1> QED
  BY <1>1, <1>2, <1>3, <1>4, <1>5, <1>6, <1>7, <1>8, <1>i
  DEF Next, submitTask, SubmitTask, QueueClose, MainNext, WorkerNext, vars

(* A worker of a scheduler that is started once and says it is running has *)
(* a goroutine, in whatever order its workers are started, work and stop.  *)
THEOREM RunningWorkersWork == Spec => []RunningHasGoroutine
<1>1. Init => AliveInv
  BY DEF Init, AliveInv
<1>2. IInv /\ AliveInv /\ [Next]_vars => AliveInv'
  BY AliveStep DEF IInv
<1>3. IInv /\ AliveInv => RunningHasGoroutine
  <2> SUFFICES ASSUME IInv, AliveInv, starts <= 1, NEW w \in Workers, wRunning[w]
               PROVE  \E g \in Goroutines : g[1] = w /\ Alive(g)
    BY DEF RunningHasGoroutine
  <2>1. starts = 1 /\ Alive(<<w, 1>>)
    BY SizesAssumption DEF AliveInv, IInv, TypeOK
  <2>2. <<w, 1>> \in Goroutines
    BY <2>1, SizesAssumption DEF IInv, TypeOK, Goroutines
  <2> QED BY <2>1, <2>2
<1> QED
  BY <1>1, <1>2, <1>3, IInvInductive, PTL DEF Spec

-------------------------------------------------------------------------------
(* The refinement.                                                         *)

(* A queue without repetitions is as long as its set of tasks is large.    *)
LEMMA WaitingCardinality ==
  ASSUME TypeOK, NoTaskTwice
  PROVE  Cardinality(Waiting) = Len(queue)
<1>1. Len(queue) \in Nat /\ queue \in [1..Len(queue) -> Waiting]
  BY LenProperties DEF TypeOK, Waiting
<1>2. queue \in Bijection(1..Len(queue), Waiting)
  <2>1. \A a, b \in 1..Len(queue) : queue[a] = queue[b] => a = b
    BY DEF NoTaskTwice
  <2>2. \A t \in Waiting : \E i \in 1..Len(queue) : queue[i] = t
    BY DEF Waiting
  <2> QED
    BY <1>1, <2>1, <2>2, Fun_IsBij
<1>3. ExistsBijection(1..Len(queue), Waiting)
  BY <1>2, Fun_ExistsBij
<1>4. IsFiniteSet(1..Len(queue)) /\ Cardinality(1..Len(queue)) = Len(queue)
  BY <1>1, FS_Interval
<1> QED
  BY <1>3, <1>4, FS_Bijection

(* The instance's own copy of Cardinality is Cardinality.                  *)
LEMMA SameCardinality == \A S : Contract!Cardinality(S) = Cardinality(S)
  BY DEF Contract!Cardinality, Cardinality

LEMMA SameNew == Contract!New = New
  BY DEF Contract!New, New

(* Every step of the scheduler is a step of the contract, or changes       *)
(* nothing the contract speaks of.                                         *)
LEMMA StepSimulation ==
  ASSUME IInv, [Next]_vars
  PROVE  [Contract!Next]_(Contract!vars)
<1> USE DEF IInv
<1>1. ASSUME NEW t \in Tasks, SubmitTask(t)
      PROVE  Contract!Accept(t) \/ Contract!Refuse(t)
  <2>1. t \in Contract!New /\ Contract!Cardinality(Waiting) = Len(queue)
    BY <1>1, SameNew, SameCardinality, WaitingCardinality DEF SubmitTask
  <2>2. CASE Enqueue(t)
    <3>1. Waiting' = Waiting \cup {t} /\ Executing' = Executing
      BY <1>1, <2>2, EnqueueEffect
    <3> QED
      BY <1>1, <2>1, <2>2, <3>1 DEF Contract!Accept, SubmitTask, Enqueue
  <2>3. CASE EnqueueFull(t)
    <3>1. Waiting' = Waiting /\ Executing' = Executing
      BY <1>1, <2>3, SameQueue, SameExecuting DEF SubmitTask, EnqueueFull, queueVars, goVars
    <3> QED
      BY <1>1, <2>1, <2>3, <3>1 DEF Contract!Refuse, SubmitTask, EnqueueFull, queueVars
  <2> QED
    BY <1>1, <2>2, <2>3 DEF SubmitTask
<1>2. ASSUME QueueClose
      PROVE  Contract!Drop
  BY <1>2, CloseEffect DEF Contract!Drop, QueueClose
<1>3. ASSUME NEW g \in Goroutines, WorkerTick(g)
      PROVE  Contract!Begin(Head(queue))
  <2>1. /\ Head(queue) \in Waiting
        /\ Waiting' = Waiting \ {Head(queue)}
        /\ Executing' = Executing \cup {Head(queue)}
    BY <1>3, TickEffect
  <2>2. Len(queue) \in Nat \ {0} /\ Head(queue) = queue[1]
    BY <1>3, HeadTailProperties, EmptySeq DEF WorkerTick, Dequeue, TypeOK
  <2>3. ASSUME NEW u \in Waiting \ {Head(queue)}
        PROVE  Contract!Precedes(Head(queue), u)
    <3>1. PICK i \in 1..Len(queue) : u = queue[i]
      BY DEF Waiting
    <3>2. 1 \in 1..Len(queue) /\ 1 < i
      BY <2>2, <3>1
    <3> QED
      BY <2>2, <3>1, <3>2 DEF OrderInv
  <2> QED
    BY <1>3, <2>1, <2>3 DEF Contract!Begin, WorkerTick, Dequeue, history
<1>4. ASSUME NEW g \in Goroutines, WorkerExecuted(g)
      PROVE  Contract!Finish(task[g])
  BY <1>4, ExecutedEffect DEF Contract!Finish, WorkerExecuted, queueVars
<1>5. ASSUME MainNext \/ (\E g \in Goroutines : WorkerReturns(g)) \/ UNCHANGED vars
      PROVE  UNCHANGED Contract!vars
  <2>1. CASE MainNext
    BY <2>1, MainEffect DEF Contract!vars, queueVars, history
  <2>2. ASSUME NEW g \in Goroutines, WorkerReturns(g)
        PROVE  UNCHANGED Contract!vars
    BY <2>2, ReturnsEffect DEF Contract!vars, WorkerReturns, queueVars, history
  <2>3. CASE UNCHANGED vars
    BY <2>3, SameQueue, SameExecuting DEF Contract!vars, vars, queueVars, history, goVars
  <2> QED
    BY <1>5, <2>1, <2>2, <2>3
<1>6. ASSUME NEW g \in Goroutines, WorkerTick(g) \/ WorkerExecuted(g)
      PROVE  Contract!Next
  <2>1. CASE WorkerTick(g)
    <3>1. Head(queue) \in Tasks
      BY <2>1, TickEffect, QueueElements
    <3> QED
      BY <2>1, <1>3, <3>1 DEF Contract!Next
  <2>2. CASE WorkerExecuted(g)
    <3>1. task[g] \in Tasks
      BY <2>2 DEF WorkerExecuted, SpawnInv
    <3> QED
      BY <2>2, <1>4, <3>1 DEF Contract!Next
  <2> QED
    BY <1>6, <2>1, <2>2
<1>7. ASSUME NEW t \in Tasks, SubmitTask(t)
      PROVE  Contract!Next
  BY <1>1, <1>7 DEF Contract!Next
<1>8. ASSUME QueueClose
      PROVE  Contract!Next
  BY <1>2, <1>8 DEF Contract!Next
<1> QED
  BY <1>5, <1>6, <1>7, <1>8 DEF Next, submitTask, WorkerNext

(* The scheduler implements its contract for every number of tasks and     *)
(* workers, every queue size and every assignment of priorities: tasks are *)
(* begun in the order of priority and age, at most once, and are refused   *)
(* only when maxSize tasks wait.                                           *)
THEOREM Refinement == Spec => ImplementsContract
<1>1. Init => Contract!Init
  <2> SUFFICES ASSUME Init PROVE Contract!Init
    OBVIOUS
  <2>1. Waiting = {} /\ Executing = {}
    BY DEF Init, Waiting, Executing
  <2> QED
    BY <2>1 DEF Init, Contract!Init
<1>2. IInv /\ [Next]_vars => [Contract!Next]_(Contract!vars)
  BY StepSimulation
<1> QED
  BY <1>1, <1>2, IInvInductive, PTL DEF Spec, ImplementsContract, Contract!Spec
==================================================================================
