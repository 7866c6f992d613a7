------------------------------ MODULE Connection ------------------------------
(***************************************************************************)
(* One TCP connection of the server: internal/protocol/connection.go, and  *)
(* the goroutine that serves it, handleConnectionLoop and the message      *)
(* handlers of internal/api/handlers/tcp_server.go.                        *)
(*                                                                         *)
(* Four kinds of goroutine touch the connection: the reader                *)
(* (handleConnectionLoop), heartbeatLoop, idleCheckLoop, and any number of *)
(* closers (the `go c.Close()` of the two loops and the manager's Stop).   *)
(* They share c.State, the socket, the time stamps and c.mu.               *)
(*                                                                         *)
(* A critical section of c.mu is one step, except the one of Close: the    *)
(* socket is closed in its first step and the close signal is sent in its  *)
(* second, with mu naming its holder in between.                           *)
(*                                                                         *)
(* Time is counted in heartbeat intervals.  hbAge and idleAge are          *)
(* time.Since(lastHeartbeat) and time.Since(LastActivity), stopped one     *)
(* interval after their limit: the code only asks whether it is exceeded.  *)
(***************************************************************************)
EXTENDS Naturals

CONSTANTS
  HeartbeatTimeout,  \* Heartbeat.Timeout, in intervals
  MaxMissed,         \* Heartbeat.MaxMissed
  IdleTimeout,       \* IdleTimeout, in intervals
  MaxClosers         \* bound: goroutines about to call Close at one time

ASSUME TimeoutAssumption ==
  /\ HeartbeatTimeout \in Nat
  /\ IdleTimeout \in Nat /\ IdleTimeout >= 4   \* a ticker period must be positive
ASSUME MissedAssumption == MaxMissed \in Nat \ {0}
ASSUME ClosersAssumption == MaxClosers \in Nat

VARIABLES
  state,      \* c.State
  mu,         \* who holds c.mu between two steps: "none", "closer", "reader"
  sock,       \* c.Conn: "open" or "closed" by this process
  hbAge, idleAge,
  missed,     \* c.missedHeartbeats
  hbTick, idleTick,   \* a tick waits in the ticker's channel (capacity 1)
  idlePhase,  \* intervals until the idle ticker fires again
  hbLoop, idleLoop,   \* where heartbeatLoop and idleCheckLoop are
  closers,    \* goroutines about to call Close
  reader,     \* where handleConnectionLoop is
  msg,        \* the message handleMessage dispatches, "none" outside
  stop        \* TCPServer.Stop: "no", "signalled" (stopChan closed), "closing"

connVars  == <<state, mu, sock, closers>>
timeVars  == <<hbAge, idleAge, missed>>
tickVars  == <<hbTick, idleTick, idlePhase>>
loopVars  == <<hbLoop, idleLoop>>
readVars  == <<reader, msg>>
vars == <<connVars, timeVars, tickVars, loopVars, readVars, stop>>

States   == {"Connecting", "Connected", "Authenticated", "Closing", "Closed"}
Messages == {"heartbeat", "handshake", "handshakeNoIDs", "login", "logout", "unknown"}
LoopPcs  == {"start", "select", "check", "done"}
ReaderPcs == {"top", "enter", "recv", "handle", "reply", "write",
              "close", "closing", "done"}

Live == state \in {"Connected", "Authenticated"}

(* Mutant: checking eight times per timeout.                               *)
IdlePeriodEighth == IdleTimeout \div 8

IdlePeriod == IdleTimeout \div 4
Aged(age, limit) == IF age > limit THEN age ELSE age + 1

(***************************************************************************)
(* NewConnection and Start.  The loops have been spawned and have not yet  *)
(* reached their select.                                                   *)
(***************************************************************************)
Init ==
  /\ state = "Connected" /\ sock = "open"
  /\ mu = "none" /\ closers = 0
  /\ hbAge = 0 /\ idleAge = 0 /\ missed = 0
  /\ hbTick = FALSE /\ idleTick = FALSE /\ idlePhase = IdlePeriod - 1
  /\ hbLoop = "start" /\ idleLoop = "start"
  /\ reader = "top" /\ msg = "none" /\ stop = "no"

-------------------------------------------------------------------------------
(* Time: one heartbeat interval passes.                                    *)

Tick ==
  /\ hbAge' = Aged(hbAge, HeartbeatTimeout)
  /\ idleAge' = Aged(idleAge, IdleTimeout)
  /\ hbTick' = (hbLoop # "done")
  /\ idlePhase' = IF idlePhase = 0 THEN IdlePeriod - 1 ELSE idlePhase - 1
  /\ idleTick' = (idleLoop # "done" /\ (idleTick \/ idlePhase = 0))
  /\ UNCHANGED <<connVars, missed, loopVars, readVars, stop>>

-------------------------------------------------------------------------------
(* heartbeatLoop.                                                          *)

HeartbeatLoopStart ==
  /\ hbLoop = "start"
  /\ hbLoop' = "select"
  /\ UNCHANGED <<connVars, timeVars, tickVars, idleLoop, readVars, stop>>

HeartbeatLoopTick ==
  /\ hbLoop = "select" /\ hbTick
  /\ hbLoop' = "check" /\ hbTick' = FALSE
  /\ UNCHANGED <<connVars, timeVars, idleTick, idlePhase, idleLoop, readVars, stop>>

(* checkHeartbeat.  The count is reset on every path but the one that      *)
(* spawns a closer, also right after it has been incremented.              *)
HeartbeatExpired == hbAge > HeartbeatTimeout

CheckHeartbeat ==
  /\ hbLoop = "check" /\ mu = "none"
  /\ hbLoop' = "select"
  /\ \/ /\ ~Live
        /\ UNCHANGED <<missed, closers>>
     \/ /\ Live /\ HeartbeatExpired /\ missed + 1 >= MaxMissed
        /\ closers < MaxClosers
        /\ missed' = missed + 1
        /\ closers' = closers + 1
     \/ /\ Live /\ ~(HeartbeatExpired /\ missed + 1 >= MaxMissed)
        /\ missed' = 0
        /\ UNCHANGED closers
  /\ UNCHANGED <<state, mu, sock, hbAge, idleAge, tickVars,
                 idleLoop, readVars, stop>>

-------------------------------------------------------------------------------
(* idleCheckLoop.                                                          *)

IdleLoopStart ==
  /\ idleLoop = "start"
  /\ idleLoop' = "select"
  /\ UNCHANGED <<connVars, timeVars, tickVars, hbLoop, readVars, stop>>

IdleLoopTick ==
  /\ idleLoop = "select" /\ idleTick
  /\ idleLoop' = "check" /\ idleTick' = FALSE
  /\ UNCHANGED <<connVars, timeVars, hbTick, idlePhase, hbLoop, readVars, stop>>

IdleExpired == idleAge > IdleTimeout

(* Mutant: the loop returns after it has asked for the close.              *)
CheckIdleReturns ==
  /\ idleLoop = "check" /\ mu = "none"
  /\ IF Live /\ IdleExpired
       THEN closers < MaxClosers /\ closers' = closers + 1 /\ idleLoop' = "done"
       ELSE UNCHANGED closers /\ idleLoop' = "select"
  /\ UNCHANGED <<state, mu, sock, timeVars, tickVars, hbLoop, readVars, stop>>

(* Mutant: authenticated connections are not checked.                      *)
CheckIdleConnectedOnly ==
  /\ idleLoop = "check" /\ mu = "none"
  /\ idleLoop' = "select"
  /\ IF state = "Connected" /\ IdleExpired
       THEN closers < MaxClosers /\ closers' = closers + 1
       ELSE UNCHANGED closers
  /\ UNCHANGED <<state, mu, sock, timeVars, tickVars, hbLoop, readVars, stop>>

CheckIdle ==
  /\ idleLoop = "check" /\ mu = "none"
  /\ idleLoop' = "select"
  /\ IF Live /\ IdleExpired
       THEN closers < MaxClosers /\ closers' = closers + 1
       ELSE UNCHANGED closers
  /\ UNCHANGED <<state, mu, sock, timeVars, tickVars,
                 hbLoop, readVars, stop>>

-------------------------------------------------------------------------------
(* Close, called by a closer or by the reader's deferred function.         *)

CloseBegin(who) ==
  /\ mu = "none" /\ state # "Closed"
  /\ state' = "Closing" /\ sock' = "closed" /\ mu' = who

(* The close signal is a non-blocking send on an unbuffered channel: it    *)
(* reaches one goroutine parked in its select, or nobody.  A loop with a   *)
(* tick waiting is not parked, its select takes the tick.                  *)
HeartbeatLoopParked == hbLoop = "select" /\ ~hbTick
IdleLoopParked == idleLoop = "select" /\ ~idleTick

SignalClose ==
  \/ /\ HeartbeatLoopParked
     /\ hbLoop' = "done" /\ UNCHANGED idleLoop
  \/ /\ IdleLoopParked
     /\ idleLoop' = "done" /\ UNCHANGED hbLoop
  \/ /\ ~HeartbeatLoopParked /\ ~IdleLoopParked
     /\ UNCHANGED loopVars

CloseEnd(who) ==
  /\ mu = who
  /\ SignalClose
  /\ state' = "Closed" /\ mu' = "none"

CloserBegin ==
  /\ closers > 0
  /\ CloseBegin("closer")
  /\ closers' = closers - 1
  /\ UNCHANGED <<timeVars, tickVars, loopVars, readVars, stop>>

CloserAlreadyClosed ==
  /\ closers > 0 /\ mu = "none" /\ state = "Closed"
  /\ closers' = closers - 1
  /\ UNCHANGED <<state, mu, sock, timeVars, tickVars, loopVars,
                 readVars, stop>>

CloserEnd ==
  /\ CloseEnd("closer")
  /\ UNCHANGED <<sock, closers, timeVars, tickVars, readVars, stop>>

-------------------------------------------------------------------------------
(* handleConnectionLoop: the reader.                                       *)

ReaderGoes(pc) == reader' = pc /\ msg' = "none"

ReaderTop ==
  /\ reader = "top"
  /\ ReaderGoes(IF stop = "no" THEN "enter" ELSE "close")
  /\ UNCHANGED <<connVars, timeVars, tickVars, loopVars, stop>>

(* ReadMessage looks at the state once, then blocks in Conn.Read without   *)
(* holding c.mu.                                                           *)
ReadMessageEnter ==
  /\ reader = "enter" /\ mu = "none"
  /\ ReaderGoes(IF Live THEN "recv" ELSE "close")
  /\ UNCHANGED <<connVars, timeVars, tickVars, loopVars, stop>>

ReadMessageReturns(m) ==
  /\ reader = "recv" /\ sock = "open"
  /\ reader' = "handle" /\ msg' = m
  /\ idleAge' = 0
  /\ UNCHANGED <<connVars, hbAge, missed, tickVars, loopVars, stop>>

(* Mutant: a read error is taken for a temporary one.                      *)
ReadFromClosedRetries ==
  /\ reader = "recv" /\ sock = "closed"
  /\ ReaderGoes("top")
  /\ UNCHANGED <<connVars, timeVars, tickVars, loopVars, stop>>

(* The socket is closed under the reader.                                  *)
ReadFromClosed ==
  /\ reader = "recv" /\ sock = "closed"
  /\ ReaderGoes("close")
  /\ UNCHANGED <<connVars, timeVars, tickVars, loopVars, stop>>

(* The client goes away, the read deadline passes, or decoding fails.      *)
ReadFails ==
  /\ reader = "recv" /\ sock = "open"
  /\ ReaderGoes("close")
  /\ UNCHANGED <<connVars, timeVars, tickVars, loopVars, stop>>

HandleHeartbeat ==
  /\ reader = "handle" /\ msg = "heartbeat" /\ mu = "none"
  /\ hbAge' = 0 /\ idleAge' = 0 /\ missed' = 0
  /\ ReaderGoes("reply")
  /\ UNCHANGED <<connVars, tickVars, loopVars, stop>>

(* Authenticate sets the state whatever it was.                            *)
Authenticate ==
  /\ mu = "none"
  /\ state' = "Authenticated"

HandleHandshake ==
  /\ reader = "handle"
  /\ \/ msg = "handshake" /\ Authenticate
     \/ msg = "handshakeNoIDs" /\ UNCHANGED state
  /\ ReaderGoes("reply")
  /\ UNCHANGED <<mu, sock, closers, timeVars, tickVars, loopVars, stop>>

HandlePlayerLoginOrLogout ==
  /\ reader = "handle" /\ msg \in {"login", "logout"} /\ mu = "none"
  /\ ReaderGoes(IF state = "Authenticated" THEN "top" ELSE "reply")
  /\ UNCHANGED <<connVars, timeVars, tickVars, loopVars, stop>>

HandleUnknownMessage ==
  /\ reader = "handle" /\ msg = "unknown"
  /\ ReaderGoes("reply")
  /\ UNCHANGED <<connVars, timeVars, tickVars, loopVars, stop>>

SendMessageEnter ==
  /\ reader = "reply" /\ mu = "none"
  /\ ReaderGoes(IF Live THEN "write" ELSE "top")
  /\ UNCHANGED <<connVars, timeVars, tickVars, loopVars, stop>>

(* A failed write counts as activity too.                                  *)
SendMessageWrite ==
  /\ reader = "write"
  /\ idleAge' = 0
  /\ ReaderGoes("top")
  /\ UNCHANGED <<connVars, hbAge, missed, tickVars, loopVars, stop>>

(* Mutant: Close is left to whoever closed the socket.                     *)
ReaderSkipsClosedSocket ==
  /\ reader = "close"
  /\ \/ sock = "open" /\ CloseBegin("reader") /\ ReaderGoes("closing")
     \/ sock = "closed" /\ ReaderGoes("done") /\ UNCHANGED <<state, sock, mu>>
  /\ UNCHANGED <<closers, timeVars, tickVars, loopVars, stop>>

ReaderCloseBegin ==
  /\ reader = "close"
  /\ \/ CloseBegin("reader") /\ ReaderGoes("closing")
     \/ /\ mu = "none" /\ state = "Closed"
        /\ ReaderGoes("done") /\ UNCHANGED <<state, sock, mu>>
  /\ UNCHANGED <<closers, timeVars, tickVars, loopVars, stop>>

ReaderCloseEnd ==
  /\ reader = "closing"
  /\ CloseEnd("reader")
  /\ ReaderGoes("done")
  /\ UNCHANGED <<sock, closers, timeVars, tickVars, stop>>

-------------------------------------------------------------------------------
(* TCPServer.Stop as this connection sees it: stopChan is closed, then the *)
(* manager's Stop calls Close, unless the manager lost track of the        *)
(* connection.                                                             *)

StopSignal ==
  /\ stop = "no"
  /\ stop' = "signalled"
  /\ UNCHANGED <<connVars, timeVars, tickVars, loopVars, readVars>>

ManagerStop ==
  /\ stop = "signalled" /\ closers < MaxClosers
  /\ stop' = "closing" /\ closers' = closers + 1
  /\ UNCHANGED <<state, mu, sock, timeVars, tickVars, loopVars, readVars>>

-------------------------------------------------------------------------------
HeartbeatLoopNext == HeartbeatLoopStart \/ HeartbeatLoopTick \/ CheckHeartbeat
IdleLoopNext == IdleLoopStart \/ IdleLoopTick \/ CheckIdle
CloserNext == CloserBegin \/ CloserAlreadyClosed \/ CloserEnd
ClientNext == ReadFails \/ \E m \in Messages : ReadMessageReturns(m)
ReaderNext ==
  \/ ReaderTop \/ ReadMessageEnter \/ ReadFromClosed
  \/ HandleHeartbeat \/ HandleHandshake \/ HandlePlayerLoginOrLogout
  \/ HandleUnknownMessage \/ SendMessageEnter \/ SendMessageWrite
  \/ ReaderCloseBegin \/ ReaderCloseEnd

Next ==
  \/ Tick
  \/ HeartbeatLoopNext \/ IdleLoopNext \/ CloserNext
  \/ ReaderNext \/ ClientNext
  \/ StopSignal \/ ManagerStop

(* Time passes and every runnable goroutine is scheduled.  Nothing is      *)
(* assumed of the client, and the server need never be stopped.            *)
Fairness ==
  /\ WF_vars(Tick)
  /\ WF_vars(HeartbeatLoopNext) /\ WF_vars(IdleLoopNext)
  /\ WF_vars(CloserNext) /\ WF_vars(ReaderNext)

Spec == Init /\ [][Next]_vars
FairSpec == Spec /\ Fairness

-------------------------------------------------------------------------------
(* Every variable has its type; a held mutex is held by a goroutine that   *)
(* is inside Close.                                                        *)
TypeOK ==
  /\ state \in States
  /\ mu \in {"none", "closer", "reader"} /\ sock \in {"open", "closed"}
  /\ hbAge \in 0..HeartbeatTimeout + 1 /\ idleAge \in 0..IdleTimeout + 1
  /\ missed \in Nat
  /\ hbTick \in BOOLEAN /\ idleTick \in BOOLEAN
  /\ idlePhase \in 0..IdlePeriod - 1
  /\ hbLoop \in LoopPcs /\ idleLoop \in LoopPcs
  /\ closers \in 0..MaxClosers
  /\ reader \in ReaderPcs /\ msg \in Messages \cup {"none"}
  /\ stop \in {"no", "signalled", "closing"}

(* A handshake handled after another goroutine closed the connection turns *)
(* its state back to Authenticated (connection.go Authenticate has no      *)
(* guard).  All the same, once handleConnectionLoop has returned the state *)
(* is Closed and the socket is closed.                                     *)
ExitedIsClosed == reader = "done" => state = "Closed" /\ sock = "closed"

(* While the socket is open both detectors run: neither heartbeatLoop nor  *)
(* idleCheckLoop returns before Close has closed the socket.               *)
DetectorsOutliveSocket ==
  sock = "open" => hbLoop # "done" /\ idleLoop # "done"

(* Once the socket is closed the connection settles in Closed for good,    *)
(* a late Authenticate included.                                           *)
ClosedSocketSettles == (sock = "closed") ~> [](state = "Closed")

(* A connection without activity for longer than IdleTimeout is closed or  *)
(* becomes active again (idleCheckLoop).                                   *)
IdleConnectionIsClosed == IdleExpired ~> (state = "Closed" \/ idleAge = 0)

(* A connection without heartbeat for longer than the heartbeat timeout is *)
(* closed, unless a heartbeat still arrives (heartbeatLoop).               *)
HeartbeatTimeoutCloses ==
  HeartbeatExpired ~> (state = "Closed" \/ hbAge = 0)

(* Both detector goroutines return once the connection is closed           *)
(* (the close signal of Close).                                            *)
DetectorsStop ==
  (reader = "done") ~> (hbLoop = "done" /\ idleLoop = "done")
===============================================================================
