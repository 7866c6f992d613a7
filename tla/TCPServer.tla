------------------------------- MODULE TCPServer -------------------------------
(***************************************************************************)
(* The TCP server's life cycle: Start, Stop, acceptLoop and                *)
(* handleConnectionLoop of internal/api/handlers/tcp_server.go with the    *)
(* ConnectionManager of internal/protocol/manager.go.                      *)
(*                                                                         *)
(* Goroutines: the caller of Start and Stop, acceptLoop, one               *)
(* handleConnectionLoop per connection, the manager's cleanupLoop, and the *)
(* closers that a connection's heartbeat and idle checks spawn (see        *)
(* Connection.tla for those; here a closer may run at any time).           *)
(*                                                                         *)
(* Stop holds s.mu from its first line to its return, across wg.Wait: smu  *)
(* says so.  Every other critical section of s.mu, cm.mu and c.mu makes no *)
(* blocking call and is one step.                                          *)
(*                                                                         *)
(* A connection ID is made of the clock's second and its nanoseconds       *)
(* modulo a millisecond, so two connections may get the same one;          *)
(* UniqueIDs assumes that the clock never does that.                       *)
(***************************************************************************)
EXTENDS Naturals, FiniteSets

CONSTANTS
  Conns,           \* the connections clients may open
  IDs,             \* connection IDs
  UniqueIDs,       \* whether two connections never get the same ID
  MaxConnections,  \* config.MaxConnections, 0 for no limit
  None             \* no connection, no ID

AcceptErrors == {"timeout", "closed", "other"}

ASSUME ConnsAssumption ==
  /\ IsFiniteSet(Conns)
  /\ None \notin Conns \cup AcceptErrors /\ Conns \cap AcceptErrors = {}
ASSUME IDsAssumption == IsFiniteSet(IDs) /\ None \notin IDs
ASSUME ConfigAssumption == UniqueIDs \in BOOLEAN /\ MaxConnections \in Nat

VARIABLES
  smu,           \* s.mu: "free", or "stop" while Stop holds it
  running, shuttingDown,
  stopClosed,    \* s.stopChan has been closed
  listener,      \* "none", "open", "closed"
  wg,            \* s.wg's counter
  stopPc,        \* where the caller of Stop is
  accept,        \* where acceptLoop is
  result,        \* what Accept returned: a connection or an error
  cleanup,       \* where the manager's cleanupLoop is
  connections,   \* cm.connections: from IDs to connections or None
  id,            \* each connection's ID
  state,         \* each connection's State
  sock,          \* each connection's socket
  handler        \* where each connection's handleConnectionLoop is

serverVars == <<smu, running, shuttingDown, stopClosed, listener, stopPc>>
acceptVars == <<accept, result>>
connVars   == <<id, state, sock>>
vars == <<serverVars, wg, acceptVars, cleanup, connections, connVars, handler>>

AcceptPcs  == {"none", "accept", "returned", "rlock", "classify", "add", "spawn", "done"}
StopPcs    == {"idle", "listener", "signal", "connections", "wait", "returned"}
CleanupPcs == {"none", "start", "select", "run", "done"}
HandlerPcs == {"none", "top", "enter", "recv", "handle", "wgdone", "remove", "close", "done"}

Live(c) == state[c] \in {"Connected", "Authenticated"}
Tracked == {i \in IDs : connections[i] # None}

Init ==
  /\ smu = "free" /\ running = FALSE /\ shuttingDown = FALSE
  /\ stopClosed = FALSE /\ listener = "none" /\ stopPc = "idle"
  /\ wg = 0
  /\ accept = "none" /\ result = None /\ cleanup = "none"
  /\ connections = [i \in IDs |-> None]
  /\ id = [c \in Conns |-> None]
  /\ state = [c \in Conns |-> "Connecting"]
  /\ sock = [c \in Conns |-> "none"]
  /\ handler = [c \in Conns |-> "none"]

-------------------------------------------------------------------------------
(* Mutant: acceptLoop is not counted in the wait group.                    *)
StartUncounted ==
  /\ smu = "free" /\ ~running /\ stopPc = "idle"
  /\ listener' = "open" /\ running' = TRUE
  /\ cleanup' = "start" /\ accept' = "accept"
  /\ UNCHANGED <<smu, shuttingDown, stopClosed, stopPc, wg, result, connections,
                 connVars, handler>>

(* Start, as main.go calls it: once, before Stop.                          *)
Start ==
  /\ smu = "free" /\ ~running /\ stopPc = "idle"
  /\ listener' = "open" /\ running' = TRUE
  /\ cleanup' = "start"
  /\ wg' = wg + 1
  /\ accept' = "accept"
  /\ UNCHANGED <<smu, shuttingDown, stopClosed, stopPc, result, connections,
                 connVars, handler>>

-------------------------------------------------------------------------------
(* Stop.                                                                   *)

(* Mutant: Stop relies on the flags and does not close stopChan.           *)
StopBeginSilent ==
  /\ stopPc = "idle" /\ smu = "free" /\ running
  /\ smu' = "stop" /\ running' = FALSE /\ shuttingDown' = TRUE
  /\ stopPc' = "listener"
  /\ UNCHANGED <<stopClosed, listener, wg, acceptVars, cleanup, connections,
                 connVars, handler>>

(* Taking s.mu, the two flags and close(stopChan): nobody sees the flags   *)
(* before s.mu is released.                                                *)
StopBegin ==
  /\ stopPc = "idle" /\ smu = "free" /\ running
  /\ smu' = "stop" /\ running' = FALSE /\ shuttingDown' = TRUE
  /\ stopClosed' = TRUE
  /\ stopPc' = "listener"
  /\ UNCHANGED <<listener, wg, acceptVars, cleanup, connections, connVars, handler>>

(* Mutant: the listener is left open.                                      *)
StopKeepsListener ==
  /\ stopPc = "listener"
  /\ stopPc' = "signal"
  /\ UNCHANGED <<smu, running, shuttingDown, stopClosed, listener, wg, acceptVars,
                 cleanup, connections, connVars, handler>>

StopListener ==
  /\ stopPc = "listener"
  /\ listener' = "closed"
  /\ stopPc' = "signal"
  /\ UNCHANGED <<smu, running, shuttingDown, stopClosed, wg, acceptVars,
                 cleanup, connections, connVars, handler>>

(* ConnectionManager.Stop, first half: the ticker is stopped and the stop  *)
(* signal is sent to cleanupLoop if it is in its select.                   *)
ManagerStopSignal ==
  /\ stopPc = "signal"
  /\ cleanup' = IF cleanup = "select" THEN "done" ELSE cleanup
  /\ stopPc' = "connections"
  /\ UNCHANGED <<smu, running, shuttingDown, stopClosed, listener, wg, acceptVars,
                 connections, connVars, handler>>

(* Second half, under cm.mu: every tracked connection is closed and the    *)
(* map is emptied.                                                         *)
ManagerStopConnections ==
  /\ stopPc = "connections"
  /\ LET closed == {connections[i] : i \in Tracked} IN
       /\ state' = [c \in Conns |-> IF c \in closed THEN "Closed" ELSE state[c]]
       /\ sock' = [c \in Conns |-> IF c \in closed THEN "closed" ELSE sock[c]]
  /\ connections' = [i \in IDs |-> None]
  /\ stopPc' = "wait"
  /\ UNCHANGED <<smu, running, shuttingDown, stopClosed, listener, wg, acceptVars,
                 cleanup, id, handler>>

(* wg.Wait returns, then Stop releases s.mu.                               *)
StopReturn ==
  /\ stopPc = "wait" /\ wg = 0
  /\ smu' = "free" /\ stopPc' = "returned"
  /\ UNCHANGED <<running, shuttingDown, stopClosed, listener, wg, acceptVars,
                 cleanup, connections, connVars, handler>>

-------------------------------------------------------------------------------
(* acceptLoop.                                                             *)

AcceptGoes(pc) == accept' = pc /\ result' = None

AcceptLoopReturns ==
  /\ AcceptGoes("done")
  /\ wg' = wg - 1

(* A client's connection is accepted, the accept deadline passes, or the   *)
(* listener reports another error.                                         *)
AcceptReturns ==
  /\ accept = "accept" /\ listener = "open"
  /\ \/ \E c \in Conns :
          /\ sock[c] = "none"
          /\ result' = c /\ sock' = [sock EXCEPT ![c] = "accepted"]
     \/ \E e \in {"timeout", "other"} : result' = e /\ UNCHANGED sock
  /\ accept' = "returned"
  /\ UNCHANGED <<serverVars, wg, cleanup, connections, id, state, handler>>

AcceptOnClosedListener ==
  /\ accept = "accept" /\ listener = "closed"
  /\ accept' = "returned" /\ result' = "closed"
  /\ UNCHANGED <<serverVars, wg, cleanup, connections, connVars, handler>>

(* The select on stopChan after Accept.  A connection accepted at that     *)
(* moment is dropped without being closed.                                 *)
AcceptChecksStop ==
  /\ accept = "returned"
  /\ IF stopClosed
       THEN AcceptLoopReturns
       ELSE /\ accept' = IF result \in AcceptErrors THEN "rlock" ELSE "add"
            /\ UNCHANGED <<result, wg>>
  /\ UNCHANGED <<serverVars, cleanup, connections, connVars, handler>>

(* s.mu.RLock waits while Stop holds s.mu.                                 *)
AcceptReadsShuttingDown ==
  /\ accept = "rlock" /\ smu = "free"
  /\ IF shuttingDown
       THEN AcceptLoopReturns
       ELSE accept' = "classify" /\ UNCHANGED <<result, wg>>
  /\ UNCHANGED <<serverVars, cleanup, connections, connVars, handler>>

(* The second select on stopChan and the classification of the error.      *)
AcceptClassifiesError ==
  /\ accept = "classify"
  /\ IF stopClosed \/ result = "closed"
       THEN AcceptLoopReturns
       ELSE AcceptGoes("accept") /\ UNCHANGED wg
  /\ UNCHANGED <<serverVars, cleanup, connections, connVars, handler>>

(* AddConnection.                                                          *)
(* Mutant: off by one.                                                     *)
LimitExceeded == MaxConnections > 0 /\ Cardinality(Tracked) > MaxConnections

LimitReached == MaxConnections > 0 /\ Cardinality(Tracked) >= MaxConnections

AddConnection ==
  /\ accept = "add"
  /\ \/ /\ LimitReached
        /\ sock' = [sock EXCEPT ![result] = "closed"]
        /\ AcceptGoes("accept")
        /\ UNCHANGED <<id, state, connections>>
     \/ /\ ~LimitReached
        /\ \E i \in IDs :
             /\ UniqueIDs => \A d \in Conns : id[d] # i
             /\ id' = [id EXCEPT ![result] = i]
             /\ connections' = [connections EXCEPT ![i] = result]
        /\ state' = [state EXCEPT ![result] = "Connected"]
        /\ sock' = [sock EXCEPT ![result] = "open"]
        /\ accept' = "spawn" /\ UNCHANGED result
  /\ UNCHANGED <<serverVars, wg, cleanup, handler>>

(* Mutant: the handler is not counted in the wait group.                   *)
SpawnUncounted ==
  /\ accept = "spawn"
  /\ handler' = [handler EXCEPT ![result] = "top"]
  /\ AcceptGoes("accept")
  /\ UNCHANGED <<serverVars, wg, cleanup, connections, connVars>>

SpawnHandler ==
  /\ accept = "spawn"
  /\ wg' = wg + 1
  /\ handler' = [handler EXCEPT ![result] = "top"]
  /\ AcceptGoes("accept")
  /\ UNCHANGED <<serverVars, cleanup, connections, connVars>>

-------------------------------------------------------------------------------
(* handleConnectionLoop.                                                   *)

HandlerGoes(c, from, to) ==
  /\ handler[c] = from
  /\ handler' = [handler EXCEPT ![c] = to]

HandlerTop(c) ==
  /\ HandlerGoes(c, "top", IF stopClosed THEN "wgdone" ELSE "enter")
  /\ UNCHANGED <<serverVars, wg, acceptVars, cleanup, connections, connVars>>

ReadMessageEnter(c) ==
  /\ HandlerGoes(c, "enter", IF Live(c) THEN "recv" ELSE "wgdone")
  /\ UNCHANGED <<serverVars, wg, acceptVars, cleanup, connections, connVars>>

ReadMessageReturns(c) ==
  /\ sock[c] = "open"
  /\ HandlerGoes(c, "recv", "handle")
  /\ UNCHANGED <<serverVars, wg, acceptVars, cleanup, connections, connVars>>

(* The client leaves, the read deadline passes or the data is malformed.   *)
ReadFails(c) ==
  /\ sock[c] = "open"
  /\ HandlerGoes(c, "recv", "wgdone")
  /\ UNCHANGED <<serverVars, wg, acceptVars, cleanup, connections, connVars>>

ReadFromClosed(c) ==
  /\ sock[c] = "closed"
  /\ HandlerGoes(c, "recv", "wgdone")
  /\ UNCHANGED <<serverVars, wg, acceptVars, cleanup, connections, connVars>>

(* handleMessage: a complete handshake authenticates, whatever the state   *)
(* is; the other messages leave the connection as it is.                   *)
HandleMessage(c) ==
  /\ HandlerGoes(c, "handle", "top")
  /\ \/ state' = [state EXCEPT ![c] = "Authenticated"]
     \/ UNCHANGED state
  /\ UNCHANGED <<serverVars, wg, acceptVars, cleanup, connections, id, sock>>

(* The deferred function: wg.Done, RemoveConnection, Close, in this order. *)
HandlerWgDone(c) ==
  /\ HandlerGoes(c, "wgdone", "remove")
  /\ wg' = wg - 1
  /\ UNCHANGED <<serverVars, acceptVars, cleanup, connections, connVars>>

RemoveConnection(c) ==
  /\ HandlerGoes(c, "remove", "close")
  /\ connections' = [connections EXCEPT ![id[c]] = None]
  /\ UNCHANGED <<serverVars, wg, acceptVars, cleanup, connVars>>

Close(c) ==
  /\ state' = [state EXCEPT ![c] = "Closed"]
  /\ sock' = [sock EXCEPT ![c] = "closed"]

HandlerClose(c) ==
  /\ HandlerGoes(c, "close", "done")
  /\ Close(c)
  /\ UNCHANGED <<serverVars, wg, acceptVars, cleanup, connections, id>>

(* A closer of the heartbeat or the idle check.                            *)
CloserCloses(c) ==
  /\ Live(c)
  /\ Close(c)
  /\ UNCHANGED <<serverVars, wg, acceptVars, cleanup, connections, id, handler>>

-------------------------------------------------------------------------------
(* cleanupLoop.                                                            *)

CleanupLoopStart ==
  /\ cleanup = "start"
  /\ cleanup' = "select"
  /\ UNCHANGED <<serverVars, wg, acceptVars, connections, connVars, handler>>

CleanupTick ==
  /\ cleanup = "select" /\ stopPc \in {"idle", "listener", "signal"}
  /\ cleanup' = "run"
  /\ UNCHANGED <<serverVars, wg, acceptVars, connections, connVars, handler>>

(* Mutant: every connection that is not in state Connected is dropped.     *)
CleanupRunEager ==
  /\ cleanup = "run"
  /\ connections' = [i \in IDs |->
       IF connections[i] # None /\ state[connections[i]] # "Connected"
         THEN None ELSE connections[i]]
  /\ cleanup' = "select"
  /\ UNCHANGED <<serverVars, wg, acceptVars, connVars, handler>>

CleanupRun ==
  /\ cleanup = "run"
  /\ connections' = [i \in IDs |->
       IF connections[i] # None /\ state[connections[i]] = "Closed"
         THEN None ELSE connections[i]]
  /\ cleanup' = "select"
  /\ UNCHANGED <<serverVars, wg, acceptVars, connVars, handler>>

-------------------------------------------------------------------------------
StopNext == StopBegin \/ StopListener \/ ManagerStopSignal
            \/ ManagerStopConnections \/ StopReturn
AcceptNext == AcceptOnClosedListener \/ AcceptChecksStop \/ AcceptReadsShuttingDown
              \/ AcceptClassifiesError \/ AddConnection \/ SpawnHandler
HandlerNext(c) ==
  \/ HandlerTop(c) \/ ReadMessageEnter(c) \/ ReadFromClosed(c) \/ HandleMessage(c)
  \/ HandlerWgDone(c) \/ RemoveConnection(c) \/ HandlerClose(c)
ClientNext(c) == ReadMessageReturns(c) \/ ReadFails(c)

Next ==
  \/ Start \/ StopNext
  \/ AcceptReturns \/ AcceptNext
  \/ \E c \in Conns : HandlerNext(c) \/ ClientNext(c) \/ CloserCloses(c)
  \/ CleanupLoopStart \/ CleanupTick \/ CleanupRun

(* Every runnable goroutine is scheduled.  Nothing is assumed of clients   *)
(* or timers, and nobody need call Start or Stop.                          *)
Fairness ==
  /\ WF_vars(StopListener \/ ManagerStopSignal \/ ManagerStopConnections \/ StopReturn)
  /\ WF_vars(AcceptNext)
  /\ \A c \in Conns : WF_vars(HandlerNext(c))
  /\ WF_vars(CleanupLoopStart \/ CleanupRun)

Spec == Init /\ [][Next]_vars
FairSpec == Spec /\ Fairness

-------------------------------------------------------------------------------
(* Every variable has its type.                                            *)
TypeOK ==
  /\ smu \in {"free", "stop"}
  /\ running \in BOOLEAN /\ shuttingDown \in BOOLEAN /\ stopClosed \in BOOLEAN
  /\ listener \in {"none", "open", "closed"}
  /\ wg \in Nat
  /\ stopPc \in StopPcs /\ accept \in AcceptPcs /\ cleanup \in CleanupPcs
  /\ result \in Conns \cup AcceptErrors \cup {None}
  /\ connections \in [IDs -> Conns \cup {None}]
  /\ id \in [Conns -> IDs \cup {None}]
  /\ state \in [Conns -> {"Connecting", "Connected", "Authenticated", "Closed"}]
  /\ sock \in [Conns -> {"none", "accepted", "open", "closed"}]
  /\ handler \in [Conns -> HandlerPcs]

Counted(pc) == pc \in {"top", "enter", "recv", "handle", "wgdone"}
Serving(c) == sock[c] = "open" /\ Counted(handler[c])

(* When Stop has returned, acceptLoop is over and every handler is at      *)
(* least in its deferred function, and none is started again (wg.Add in    *)
(* handleConnection races with wg.Wait in Stop).                           *)
StopWaitsForAll ==
  stopPc = "returned" =>
    /\ accept = "done"
    /\ \A c \in Conns : ~Counted(handler[c])

(* The manager knows every connection that is being served: the limit      *)
(* counts it and Stop will close it.                                       *)
ServedIsTracked ==
  UniqueIDs => \A c \in Conns : Serving(c) => connections[id[c]] = c

(* No more connections are served at a time than MaxConnections.           *)
ServedWithinLimit ==
  UniqueIDs /\ MaxConnections > 0 =>
    Cardinality({c \in Conns : Serving(c)}) <= MaxConnections

(* Once the manager's Stop has run no handler reads from an open socket,   *)
(* so wg.Wait does not depend on what clients do: stopChan is closed       *)
(* before the connections are.                                             *)
NoReadAfterManagerStop ==
  UniqueIDs /\ stopPc \in {"wait", "returned"} =>
    \A c \in Conns : sock[c] = "open" => handler[c] \notin {"enter", "recv", "handle"}

(* Stop returns, unless acceptLoop waits for s.mu, which Stop holds: the   *)
(* only thing that can keep it.                                            *)
StopStuckOnlyOnAcceptLock ==
  UniqueIDs => (stopPc # "idle") ~> (stopPc = "returned" \/ accept = "rlock")

(* No more connections are served at a time than MaxConnections, whatever  *)
(* IDs the clock yields.                                                   *)
NeverAboveLimit ==
  MaxConnections > 0 => Cardinality({c \in Conns : Serving(c)}) <= MaxConnections

(* Stop returns: it waits for goroutines that all return.                  *)
StopReturns == (stopPc # "idle") ~> (stopPc = "returned")
================================================================================
