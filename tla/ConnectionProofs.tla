---------------------------- MODULE ConnectionProofs ----------------------------
(***************************************************************************)
(* The safety properties of Connection.tla for every timeout, every        *)
(* MaxMissed and any number of closers.                                    *)
(***************************************************************************)
EXTENDS Connection, TLAPS

(* The idle ticker has a positive period (NewTicker panics otherwise).     *)
LEMMA IdlePeriodPositive == IdlePeriod \in Nat /\ IdlePeriod >= 1
  BY TimeoutAssumption DEF IdlePeriod

-------------------------------------------------------------------------------
(* Type correctness of the connection: ages, ticks, program counters and   *)
(* the number of closers stay in their ranges.                             *)
THEOREM TypeCorrect == Spec => []TypeOK
<1> USE TimeoutAssumption, MissedAssumption, ClosersAssumption, IdlePeriodPositive
<1>1. Init => TypeOK
  <2> SUFFICES ASSUME Init PROVE TypeOK
    OBVIOUS
  <2>1. /\ hbAge \in 0..HeartbeatTimeout + 1 /\ idleAge \in 0..IdleTimeout + 1
        /\ missed \in Nat /\ idlePhase \in 0..IdlePeriod - 1 /\ closers \in 0..MaxClosers
    BY DEF Init
  <2>2. hbTick \in BOOLEAN /\ idleTick \in BOOLEAN
    BY DEF Init
  <2> QED
    BY <2>1, <2>2 DEF Init, TypeOK, States, LoopPcs, ReaderPcs
<1>2. TypeOK /\ [Next]_vars => TypeOK'
  <2> SUFFICES ASSUME TypeOK, [Next]_vars PROVE TypeOK'
    OBVIOUS
  <2> USE DEF TypeOK, connVars, timeVars, tickVars, loopVars, readVars
  <2>1. CASE Tick
    BY <2>1 DEF Tick, Aged
  <2>2. CASE HeartbeatLoopNext
    <3>1. CASE HeartbeatLoopStart
      BY <3>1 DEF HeartbeatLoopStart, LoopPcs
    <3>2. CASE HeartbeatLoopTick
      BY <3>2 DEF HeartbeatLoopTick, LoopPcs
    <3>3. CASE CheckHeartbeat
      BY <3>3 DEF CheckHeartbeat, LoopPcs
    <3> QED
      BY <2>2, <3>1, <3>2, <3>3 DEF HeartbeatLoopNext
  <2>3. CASE IdleLoopNext
    <3>1. CASE IdleLoopStart
      BY <3>1 DEF IdleLoopStart, LoopPcs
    <3>2. CASE IdleLoopTick
      BY <3>2 DEF IdleLoopTick, LoopPcs
    <3>3. CASE CheckIdle
      BY <3>3 DEF CheckIdle, LoopPcs
    <3> QED
      BY <2>3, <3>1, <3>2, <3>3 DEF IdleLoopNext
  <2>4. CASE CloserNext
    <3>1. CASE CloserBegin
      BY <3>1 DEF CloserBegin, CloseBegin, States
    <3>2. CASE CloserAlreadyClosed
      BY <3>2 DEF CloserAlreadyClosed
    <3>3. CASE CloserEnd
      BY <3>3 DEF CloserEnd, CloseEnd, SignalClose, States, LoopPcs
    <3> QED
      BY <2>4, <3>1, <3>2, <3>3 DEF CloserNext
  <2>5. CASE ReaderNext
    <3> USE DEF ReaderGoes, ReaderPcs
    <3>1. CASE ReaderTop \/ ReadMessageEnter \/ ReadFromClosed
      BY <3>1 DEF ReaderTop, ReadMessageEnter, ReadFromClosed
    <3>2. CASE HandleHeartbeat \/ HandleUnknownMessage \/ HandlePlayerLoginOrLogout
      BY <3>2 DEF HandleHeartbeat, HandleUnknownMessage, HandlePlayerLoginOrLogout
    <3>3. CASE HandleHandshake
      BY <3>3 DEF HandleHandshake, Authenticate, States
    <3>4. CASE SendMessageEnter \/ SendMessageWrite
      BY <3>4 DEF SendMessageEnter, SendMessageWrite
    <3>5. CASE ReaderCloseBegin
      BY <3>5 DEF ReaderCloseBegin, CloseBegin, States
    <3>6. CASE ReaderCloseEnd
      BY <3>6 DEF ReaderCloseEnd, CloseEnd, SignalClose, States, LoopPcs
    <3> QED
      BY <2>5, <3>1, <3>2, <3>3, <3>4, <3>5, <3>6 DEF ReaderNext
  <2>6. CASE ClientNext
    BY <2>6 DEF ClientNext, ReadFails, ReadMessageReturns, ReaderGoes, ReaderPcs
  <2>7. CASE StopSignal
    BY <2>7 DEF StopSignal
  <2>8. CASE ManagerStop
    BY <2>8 DEF ManagerStop
  <2>9. CASE UNCHANGED vars
    BY <2>9 DEF vars
  <2> QED
    BY <2>1, <2>2, <2>3, <2>4, <2>5, <2>6, <2>7, <2>8, <2>9 DEF Next
<1>3. QED
  BY <1>1, <1>2, PTL DEF Spec

-------------------------------------------------------------------------------
(* The inductive invariant behind ExitedIsClosed and                       *)
(* DetectorsOutliveSocket.  A goroutine in the middle of Close has closed  *)
(* the socket and left the state Closing; a state of Closing or Closed     *)
(* means a closed socket (the converse fails: Authenticate may revive the  *)
(* state); the reader holds c.mu exactly while it is in its own Close.     *)
CloseInv ==
  /\ mu # "none" => state = "Closing"
  /\ state \in {"Closing", "Closed"} => sock = "closed"
  /\ reader = "closing" <=> mu = "reader"
  /\ reader = "done" => state = "Closed"
  /\ hbLoop = "done" \/ idleLoop = "done" => sock = "closed"

LEMMA CloseInvInductive == Spec => []CloseInv
<1>1. Init => CloseInv
  BY DEF Init, CloseInv
<1>2. TypeOK /\ CloseInv /\ [Next]_vars => CloseInv'
  <2> SUFFICES ASSUME TypeOK, CloseInv, [Next]_vars PROVE CloseInv'
    OBVIOUS
  <2> USE DEF CloseInv, connVars, timeVars, tickVars, loopVars, readVars
  <2>1. CASE Tick
    BY <2>1 DEF Tick
  <2>2. CASE HeartbeatLoopNext
    BY <2>2 DEF HeartbeatLoopNext, HeartbeatLoopStart, HeartbeatLoopTick, CheckHeartbeat
  <2>3. CASE IdleLoopNext
    BY <2>3 DEF IdleLoopNext, IdleLoopStart, IdleLoopTick, CheckIdle
  <2>4. CASE CloserNext
    <3>1. CASE CloserBegin
      BY <3>1 DEF CloserBegin, CloseBegin
    <3>2. CASE CloserAlreadyClosed
      BY <3>2 DEF CloserAlreadyClosed
    <3>3. CASE CloserEnd
      BY <3>3 DEF CloserEnd, CloseEnd, SignalClose
    <3> QED
      BY <2>4, <3>1, <3>2, <3>3 DEF CloserNext
  <2>5. CASE ReaderNext
    <3> USE DEF ReaderGoes
    <3>1. CASE ReaderTop \/ ReadMessageEnter \/ ReadFromClosed
      BY <3>1 DEF ReaderTop, ReadMessageEnter, ReadFromClosed
    <3>2. CASE HandleHeartbeat \/ HandleUnknownMessage \/ HandlePlayerLoginOrLogout
      BY <3>2 DEF HandleHeartbeat, HandleUnknownMessage, HandlePlayerLoginOrLogout
    <3>3. CASE HandleHandshake
      BY <3>3 DEF HandleHandshake, Authenticate
    <3>4. CASE SendMessageEnter \/ SendMessageWrite
      BY <3>4 DEF SendMessageEnter, SendMessageWrite
    <3>5. CASE ReaderCloseBegin
      BY <3>5 DEF ReaderCloseBegin, CloseBegin
    <3>6. CASE ReaderCloseEnd
      BY <3>6 DEF ReaderCloseEnd, CloseEnd, SignalClose
    <3> QED
      BY <2>5, <3>1, <3>2, <3>3, <3>4, <3>5, <3>6 DEF ReaderNext
  <2>6. CASE ClientNext
    BY <2>6 DEF ClientNext, ReadFails, ReadMessageReturns, ReaderGoes
  <2>7. CASE StopSignal \/ ManagerStop
    BY <2>7 DEF StopSignal, ManagerStop
  <2>8. CASE UNCHANGED vars
    BY <2>8 DEF vars
  <2> QED
    BY <2>1, <2>2, <2>3, <2>4, <2>5, <2>6, <2>7, <2>8 DEF Next
<1>3. QED
  BY <1>1, <1>2, TypeCorrect, PTL DEF Spec

(* handleConnectionLoop leaves a closed connection behind, even when a     *)
(* handshake revived its state after another goroutine had closed it.      *)
THEOREM ExitLeavesClosed == Spec => []ExitedIsClosed
<1>1. CloseInv => ExitedIsClosed
  BY DEF CloseInv, ExitedIsClosed
<1>2. QED
  BY <1>1, CloseInvInductive, PTL

(* heartbeatLoop and idleCheckLoop return only once the socket is closed.  *)
THEOREM DetectorsRunWhileOpen == Spec => []DetectorsOutliveSocket
<1>1. CloseInv => DetectorsOutliveSocket
  BY DEF CloseInv, DetectorsOutliveSocket
<1>2. QED
  BY <1>1, CloseInvInductive, PTL
=================================================================================
