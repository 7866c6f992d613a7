------------------------------ MODULE TaskContract ------------------------------
(***************************************************************************)
(* What the asynchronous task scheduler promises, without queue, workers   *)
(* or goroutines: an accepted task waits, is begun at most once, and of    *)
(* the waiting tasks the one with the highest priority is begun first, the *)
(* oldest of them among equals.  (Queue interface and the comments of      *)
(* PriorityQueue in internal/infrastructure/async/queue.go.)               *)
(***************************************************************************)
EXTENDS Naturals, FiniteSets

CONSTANTS Tasks, Priority, MaxSize

VARIABLES
  waiting, running, finished,  \* accepted tasks, by how far they are
  refused,                     \* tasks refused because the queue was full
  dropped,                     \* tasks that waited when the queue was closed
  stamp, clock                 \* the order in which tasks were accepted

vars == <<waiting, running, finished, refused, dropped, stamp, clock>>

New == Tasks \ (waiting \cup running \cup finished \cup refused \cup dropped)

(* u may not be begun while t waits.                                       *)
Precedes(t, u) ==
  \/ Priority[t] > Priority[u]
  \/ Priority[t] = Priority[u] /\ stamp[t] < stamp[u]

Init ==
  /\ waiting = {} /\ running = {} /\ finished = {} /\ refused = {} /\ dropped = {}
  /\ stamp = [t \in Tasks |-> 0] /\ clock = 0

Accept(t) ==
  /\ t \in New /\ Cardinality(waiting) < MaxSize
  /\ waiting' = waiting \cup {t}
  /\ stamp' = [stamp EXCEPT ![t] = clock] /\ clock' = clock + 1
  /\ UNCHANGED <<running, finished, refused, dropped>>

Refuse(t) ==
  /\ t \in New /\ Cardinality(waiting) >= MaxSize
  /\ refused' = refused \cup {t}
  /\ UNCHANGED <<waiting, running, finished, dropped, stamp, clock>>

Begin(t) ==
  /\ t \in waiting
  /\ \A u \in waiting \ {t} : Precedes(t, u)
  /\ waiting' = waiting \ {t} /\ running' = running \cup {t}
  /\ UNCHANGED <<finished, refused, dropped, stamp, clock>>

Finish(t) ==
  /\ t \in running
  /\ running' = running \ {t} /\ finished' = finished \cup {t}
  /\ UNCHANGED <<waiting, refused, dropped, stamp, clock>>

Drop ==
  /\ waiting' = {} /\ dropped' = dropped \cup waiting
  /\ UNCHANGED <<running, finished, refused, stamp, clock>>

Next ==
  \/ \E t \in Tasks : Accept(t) \/ Refuse(t) \/ Begin(t) \/ Finish(t)
  \/ Drop

Spec == Init /\ [][Next]_vars
=================================================================================
