----------------------------- MODULE MCTaskScheduler -----------------------------
(* TaskScheduler.tla for TLC: three tasks, two of the same priority, a     *)
(* queue that can be full, two workers, and a scheduler started again      *)
(* after it has been stopped.                                              *)
EXTENDS TaskScheduler

CONSTANTS t1, t2, t3

MCTasks == {t1, t2, t3}
MCPriority == [t \in MCTasks |-> IF t = t3 THEN 8 ELSE 5]
==================================================================================
