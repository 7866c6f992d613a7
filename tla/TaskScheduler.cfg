SPECIFICATION FairSpec
CONSTANTS
  t1 = t1
  t2 = t2
  t3 = t3
  Tasks <- MCTasks
  Priority <- MCPriority
  MaxSize = 2
  NumWorkers = 2
  MaxStarts = 2
  NoTask = NoTask
INVARIANTS TypeOK NoTaskTwice RunningHasGoroutine
PROPERTIES ImplementsContract WaitingIsBegun StoppedWorkerReturns
CHECK_DEADLOCK FALSE
