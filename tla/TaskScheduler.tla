------------------------------ MODULE TaskScheduler ------------------------------
(***************************************************************************)
(* The asynchronous task scheduler: PriorityQueue, Worker and              *)
(* TaskScheduler of internal/infrastructure/async/queue.go.                *)
(*                                                                         *)
(* One goroutine, main, calls Start and Stop; any goroutine may call       *)
(* SubmitTask and the queue's Close.  Worker w is a struct with a running  *)
(* flag and a stop channel; each effective Start of it spawns one more     *)
(* goroutine <<w, n>>, n the number of the scheduler's start, and a new    *)
(* one may exist before an old one has returned.                           *)
(*                                                                         *)
(* stamp, clock, refused, dropped and finished are history: they record    *)
(* what happened to each task and guide no step of the code.               *)
(***************************************************************************)
EXTENDS Integers, Sequences, FiniteSets

CONSTANTS
  Tasks,
  Priority,    \* GetPriority of each task
  MaxSize,     \* the queue's maxSize
  NumWorkers,  \* workerCount
  MaxStarts,   \* bound: how often the scheduler is started
  NoTask

ASSUME TasksAssumption ==
  IsFiniteSet(Tasks) /\ NoTask \notin Tasks /\ Priority \in [Tasks -> Int]
ASSUME SizesAssumption ==
  MaxSize \in Nat /\ NumWorkers \in Nat \ {0} /\ MaxStarts \in Nat

VARIABLES
  queue,              \* q.tasks
  stamp, clock, refused, dropped, finished,
  main, cursor,       \* what main is doing, and to which worker
  starts,
  running, stopped,   \* s.running; s.stopChan is closed
  wRunning, wStopped, \* the same of each worker
  pc, task            \* each goroutine: where it is, the task it executes

history   == <<refused, dropped, finished>>
queueVars == <<queue, stamp, clock>>
mainVars  == <<main, cursor, starts, running, stopped, wRunning, wStopped>>
goVars    == <<pc, task>>
vars == <<queueVars, history, mainVars, goVars>>

Workers == 1..NumWorkers
Goroutines == Workers \X (1..MaxStarts)

Waiting   == {queue[i] : i \in 1..Len(queue)}
Executing == {task[g] : g \in {h \in Goroutines : pc[h] = "execute"}}
New == Tasks \ (Waiting \cup Executing \cup finished \cup refused \cup dropped)

Init ==
  /\ queue = <<>> /\ stamp = [t \in Tasks |-> 0] /\ clock = 0
  /\ refused = {} /\ dropped = {} /\ finished = {}
  /\ main = "idle" /\ cursor = 1 /\ starts = 0
  /\ running = FALSE /\ stopped = FALSE
  /\ wRunning = [w \in Workers |-> FALSE] /\ wStopped = [w \in Workers |-> FALSE]
  /\ pc = [g \in Goroutines |-> "none"] /\ task = [g \in Goroutines |-> NoTask]

(* A panic in main ends the process.                                       *)
Up == main # "panicked"

-------------------------------------------------------------------------------
(* PriorityQueue.                                                          *)

(* Mutant: a task overtakes the tasks of its own priority.                 *)
InsertIndexBeforeEquals(q, t) ==
  CHOOSE k \in 1..Len(q) + 1 :
    /\ \A i \in 1..k - 1 : Priority[q[i]] > Priority[t]
    /\ k <= Len(q) => Priority[q[k]] <= Priority[t]

(* The first position whose task has a lower priority, or the end.         *)
InsertIndex(q, t) ==
  CHOOSE k \in 1..Len(q) + 1 :
    /\ \A i \in 1..k - 1 : Priority[q[i]] >= Priority[t]
    /\ k <= Len(q) => Priority[q[k]] < Priority[t]

Insert(q, t) ==
  LET k == InsertIndex(q, t)
  IN  [i \in 1..Len(q) + 1 |->
         IF i < k THEN q[i] ELSE IF i = k THEN t ELSE q[i - 1]]

Enqueue(t) ==
  /\ Len(queue) < MaxSize
  /\ queue' = Insert(queue, t)
  /\ stamp' = [stamp EXCEPT ![t] = clock] /\ clock' = clock + 1
  /\ UNCHANGED refused

EnqueueFull(t) ==
  /\ Len(queue) >= MaxSize
  /\ refused' = refused \cup {t}
  /\ UNCHANGED queueVars

SubmitTask(t) ==
  /\ Up /\ t \in New
  /\ Enqueue(t) \/ EnqueueFull(t)
  /\ UNCHANGED <<dropped, finished, mainVars, goVars>>

(* A request becomes a task; its sender chooses the priority.              *)
submitTask(t) == SubmitTask(t)

(* Close drops the tasks; a later Enqueue is accepted all the same.        *)
QueueClose ==
  /\ Up
  /\ queue' = <<>> /\ dropped' = dropped \cup Waiting
  /\ UNCHANGED <<stamp, clock, refused, finished, mainVars, goVars>>

-------------------------------------------------------------------------------
(* TaskScheduler.Start and Stop, in main.                                  *)

(* Mutant: the loop runs one step too far.                                 *)
AdvanceCursorPastEnd(doing) ==
  /\ cursor' = IF cursor > NumWorkers THEN 1 ELSE cursor + 1
  /\ main' = IF cursor > NumWorkers THEN "idle" ELSE doing

AdvanceCursor(doing) ==
  /\ cursor' = IF cursor = NumWorkers THEN 1 ELSE cursor + 1
  /\ main' = IF cursor = NumWorkers THEN "idle" ELSE doing

Start ==
  /\ main = "idle" /\ ~running /\ starts < MaxStarts
  /\ running' = TRUE /\ starts' = starts + 1 /\ main' = "starting"
  /\ UNCHANGED <<queueVars, history, cursor, stopped, wRunning, wStopped, goVars>>

(* Worker.Start: a worker that is running already is left alone.           *)
StartWorker ==
  /\ main = "starting"
  /\ AdvanceCursor("starting")
  /\ IF wRunning[cursor]
       THEN UNCHANGED <<wRunning, pc>>
       ELSE /\ wRunning' = [wRunning EXCEPT ![cursor] = TRUE]
            /\ pc' = [pc EXCEPT ![<<cursor, starts>>] = "select"]
  /\ UNCHANGED <<queueVars, history, starts, running, stopped, wStopped, task>>

(* Closing a channel that is closed already panics.                        *)
Stop ==
  /\ main = "idle" /\ running
  /\ running' = FALSE /\ stopped' = TRUE
  /\ main' = IF stopped THEN "panicked" ELSE "stopping"
  /\ UNCHANGED <<queueVars, history, cursor, starts, wRunning, wStopped, goVars>>

(* Mutant: the running flag is not reset.                                  *)
StopWorkerKeepsFlag ==
  /\ main = "stopping"
  /\ AdvanceCursor("stopping")
  /\ wStopped' = [wStopped EXCEPT ![cursor] = @ \/ wRunning[cursor]]
  /\ UNCHANGED <<queueVars, history, starts, running, stopped, wRunning, goVars>>

(* Worker.Stop.  A worker's channel is not closed twice: the second Stop   *)
(* of the scheduler does not get here.                                     *)
StopWorker ==
  /\ main = "stopping"
  /\ AdvanceCursor("stopping")
  /\ wRunning' = [wRunning EXCEPT ![cursor] = FALSE]
  /\ wStopped' = [wStopped EXCEPT ![cursor] = @ \/ wRunning[cursor]]
  /\ UNCHANGED <<queueVars, history, starts, running, stopped, goVars>>

-------------------------------------------------------------------------------
(* Worker.run.  A select with both channels ready picks either.            *)

(* Mutant: run looks at the flag, which a new start sets again.            *)
WorkerReturnsByFlag(g) ==
  /\ Up /\ pc[g] = "select" /\ ~wRunning[g[1]]
  /\ pc' = [pc EXCEPT ![g] = "done"]
  /\ UNCHANGED <<queueVars, history, mainVars, task>>

WorkerReturns(g) ==
  /\ Up /\ pc[g] = "select" /\ wStopped[g[1]]
  /\ pc' = [pc EXCEPT ![g] = "done"]
  /\ UNCHANGED <<queueVars, history, mainVars, task>>

(* Mutant: the task is read and left in the queue.                         *)
WorkerPeeks(g) ==
  /\ Up /\ pc[g] = "select" /\ queue # <<>>
  /\ task' = [task EXCEPT ![g] = Head(queue)]
  /\ pc' = [pc EXCEPT ![g] = "execute"]
  /\ UNCHANGED <<queueVars, history, mainVars>>

(* The worker of g gets the first task.                                    *)
Dequeue(g) == task' = [task EXCEPT ![g] = Head(queue)] /\ queue' = Tail(queue)

(* A tick on which Dequeue finds the queue empty changes nothing.          *)
WorkerTick(g) ==
  /\ Up /\ pc[g] = "select" /\ queue # <<>>
  /\ Dequeue(g)
  /\ pc' = [pc EXCEPT ![g] = "execute"]
  /\ UNCHANGED <<stamp, clock, history, mainVars>>

(* Mutant: a panic in Execute is not recovered and ends the worker.        *)
WorkerDies(g) ==
  /\ Up /\ pc[g] = "execute"
  /\ finished' = finished \cup {task[g]}
  /\ task' = [task EXCEPT ![g] = NoTask]
  /\ pc' = [pc EXCEPT ![g] = "done"]
  /\ UNCHANGED <<queueVars, refused, dropped, mainVars>>

(* Execute returns, fails or panics: the worker goes on.                   *)
WorkerExecuted(g) ==
  /\ Up /\ pc[g] = "execute"
  /\ finished' = finished \cup {task[g]}
  /\ task' = [task EXCEPT ![g] = NoTask]
  /\ pc' = [pc EXCEPT ![g] = "select"]
  /\ UNCHANGED <<queueVars, refused, dropped, mainVars>>

-------------------------------------------------------------------------------
MainNext == Start \/ StartWorker \/ Stop \/ StopWorker
WorkerNext(g) == WorkerReturns(g) \/ WorkerTick(g) \/ WorkerExecuted(g)

Next ==
  \/ \E t \in Tasks : submitTask(t)
  \/ QueueClose
  \/ MainNext
  \/ \E g \in Goroutines : WorkerNext(g)

(* Loops of main go on, tickers tick and tasks return.  A select that      *)
(* finds the stop channel closed time and again picks it some time: Go     *)
(* chooses at random.                                                      *)
Fairness ==
  /\ WF_vars(StartWorker \/ StopWorker)
  /\ \A g \in Goroutines :
       WF_vars(WorkerTick(g)) /\ WF_vars(WorkerExecuted(g)) /\ SF_vars(WorkerReturns(g))

Spec == Init /\ [][Next]_vars
FairSpec == Spec /\ Fairness

-------------------------------------------------------------------------------
(* Every variable has its type.                                            *)
TypeOK ==
  /\ queue \in Seq(Tasks)
  /\ stamp \in [Tasks -> Nat] /\ clock \in Nat
  /\ refused \in SUBSET Tasks /\ dropped \in SUBSET Tasks /\ finished \in SUBSET Tasks
  /\ main \in {"idle", "starting", "stopping", "panicked"}
  /\ cursor \in Workers /\ starts \in 0..MaxStarts
  /\ main = "starting" => starts > 0
  /\ running \in BOOLEAN /\ stopped \in BOOLEAN
  /\ wRunning \in [Workers -> BOOLEAN] /\ wStopped \in [Workers -> BOOLEAN]
  /\ pc \in [Goroutines -> {"none", "select", "execute", "done"}]
  /\ task \in [Goroutines -> Tasks \cup {NoTask}]

(* No task is in two places: twice in the queue, in the hands of two       *)
(* workers, or waiting again after it was taken.  So none is executed      *)
(* twice, also when a stopped scheduler is started again while goroutines  *)
(* of its first life still run.                                            *)
NoTaskTwice ==
  /\ \A i, j \in 1..Len(queue) : queue[i] = queue[j] => i = j
  /\ \A g, h \in Goroutines :
       pc[g] = "execute" /\ pc[h] = "execute" /\ task[g] = task[h] => g = h
  /\ Waiting \cap (Executing \cup finished \cup refused \cup dropped) = {}
  /\ Executing \cap (finished \cup refused \cup dropped) = {}
  /\ finished \cap (refused \cup dropped) = {}

(* The scheduler does what TaskContract says: tasks are begun by priority, *)
(* in the order of submission among equals, and refused only when the      *)
(* queue is full.                                                          *)
Contract == INSTANCE TaskContract WITH waiting <- Waiting, running <- Executing
ImplementsContract == Contract!Spec

(* A worker that says it is running (IsRunning, counted by GetStats) has a *)
(* goroutine, as long as the scheduler is started only once.               *)
Alive(g) == pc[g] \in {"select", "execute"}
RunningHasGoroutine ==
  starts <= 1 =>
    \A w \in Workers : wRunning[w] => \E g \in Goroutines : g[1] = w /\ Alive(g)

(* A waiting task of a scheduler in its first life is begun, or the        *)
(* scheduler is stopped, or the queue is closed, or another task of higher *)
(* priority is accepted before that.  The last may happen again and again: *)
(* Enqueue puts such tasks ahead, and a stream of them starves the task.   *)
Accepted  == Tasks \ (New \cup refused)
Higher(t) == Cardinality({u \in Accepted : Priority[u] > Priority[t]})
WaitingIsBegun ==
  \A t \in Tasks, n \in 0..Cardinality(Tasks) :
    (running /\ starts = 1 /\ t \in Waiting /\ Higher(t) = n)
      ~> (~running \/ t \notin Waiting \/ Higher(t) # n)

(* A goroutine of a stopped worker returns, after the task it executes, if *)
(* the process lives.                                                      *)
StoppedWorkerReturns ==
  \A g \in Goroutines : (wStopped[g[1]] /\ Alive(g)) ~> (pc[g] = "done" \/ ~Up)
==================================================================================
