----------------------------- MODULE TCPServerProofs -----------------------------
(***************************************************************************)
(* The safety properties of TCPServer.tla for any finite set of clients    *)
(* and IDs and any MaxConnections.                                         *)
(***************************************************************************)
EXTENDS TCPServer, FiniteSetTheorems, TLAPS

(***************************************************************************)
(* The inductive invariant, part by part.                                  *)
(***************************************************************************)

(* acceptLoop exists from Start on, and stopChan is closed by Stop.        *)
LifeInv ==
  /\ running => accept # "none" /\ stopPc = "idle"
  /\ stopPc # "idle" => stopClosed /\ accept # "none"
  /\ ~running /\ stopPc = "idle" => accept = "none"

(* What acceptLoop holds is a new connection until its handler is spawned. *)
AcceptInv ==
  /\ accept = "returned" => result \in Conns \cup AcceptErrors
  /\ accept \in {"add", "spawn"} => result \in Conns
  /\ accept \in {"returned", "add"} /\ result \in Conns => sock[result] = "accepted"
  /\ accept = "spawn" => id[result] # None /\ handler[result] = "none"

(* A connection without an ID has no handler and no open socket; an open   *)
(* socket belongs to a connection that is not Closed.  The map has a       *)
(* connection under its own ID only.                                       *)
ConnInv ==
  /\ \A c \in Conns :
       /\ sock[c] \in {"none", "accepted"} => id[c] = None
       /\ id[c] = None => handler[c] = "none" /\ state[c] = "Connecting" /\ sock[c] # "open"
       /\ sock[c] = "open" => state[c] # "Closed"
  /\ \A i \in IDs : connections[i] # None => id[connections[i]] = i

(* The wait group counts acceptLoop and the handlers before wg.Done.       *)
CountedSet == {c \in Conns : Counted(handler[c])}
AcceptCount == IF accept \in {"none", "done"} THEN 0 ELSE 1
WgInv == wg = AcceptCount + Cardinality(CountedSet)

(* The map has every open connection whose handler has not removed it.     *)
TrackInv ==
  UniqueIDs =>
    /\ \A c, d \in Conns : id[c] = id[d] /\ id[c] # None => c = d
    /\ \A c \in Conns :
         sock[c] = "open" /\ handler[c] \notin {"close", "done"} => connections[id[c]] = c

LimitInv == MaxConnections > 0 => Cardinality(Tracked) <= MaxConnections

IInv ==
  TypeOK /\ LifeInv /\ AcceptInv /\ ConnInv /\ WgInv /\ TrackInv /\ LimitInv
  /\ NoReadAfterManagerStop
-------------------------------------------------------------------------------
(* Each part of the invariant is kept by every step.                       *)
LEMMA LifeStep ==
  ASSUME TypeOK, LifeInv, [Next]_vars
  PROVE  LifeInv'
<1> USE DEF LifeInv, serverVars, acceptVars, connVars
<1>1. CASE Start
  BY <1>1 DEF Start
<1>2. CASE StopBegin
  BY <1>2 DEF StopBegin
<1>3. CASE StopListener
  BY <1>3 DEF StopListener
<1>4. CASE ManagerStopSignal
  BY <1>4 DEF ManagerStopSignal
<1>5. CASE ManagerStopConnections
  BY <1>5 DEF ManagerStopConnections
<1>6. CASE StopReturn
  BY <1>6 DEF StopReturn
<1>7. CASE AcceptReturns
  BY <1>7 DEF AcceptReturns
<1>8. CASE AcceptOnClosedListener
  BY <1>8 DEF AcceptOnClosedListener
<1>9. CASE AcceptChecksStop
  BY <1>9 DEF AcceptChecksStop, AcceptLoopReturns, AcceptGoes
<1>10. CASE AcceptReadsShuttingDown
  BY <1>10 DEF AcceptReadsShuttingDown, AcceptLoopReturns, AcceptGoes
<1>11. CASE AcceptClassifiesError
  BY <1>11 DEF AcceptClassifiesError, AcceptLoopReturns, AcceptGoes
<1>12. CASE AddConnection
  BY <1>12 DEF AddConnection, AcceptGoes
<1>13. CASE SpawnHandler
  BY <1>13 DEF SpawnHandler, AcceptGoes
<1>14. CASE \E c \in Conns : HandlerTop(c) \/ ReadMessageEnter(c)
  BY <1>14 DEF HandlerTop, ReadMessageEnter, HandlerGoes
<1>15. CASE \E c \in Conns : ReadFromClosed(c) \/ ReadFails(c) \/ ReadMessageReturns(c)
  BY <1>15 DEF ReadFromClosed, ReadFails, ReadMessageReturns, HandlerGoes
<1>16. CASE \E c \in Conns : HandleMessage(c)
  BY <1>16 DEF HandleMessage, HandlerGoes
<1>17. CASE \E c \in Conns : HandlerWgDone(c)
  BY <1>17 DEF HandlerWgDone, HandlerGoes
<1>18. CASE \E c \in Conns : RemoveConnection(c)
  BY <1>18 DEF RemoveConnection, HandlerGoes
<1>19. CASE \E c \in Conns : HandlerClose(c)
  BY <1>19 DEF HandlerClose, HandlerGoes, Close
<1>20. CASE \E c \in Conns : CloserCloses(c)
  BY <1>20 DEF CloserCloses, Close, Live
<1>21. CASE CleanupLoopStart \/ CleanupTick
  BY <1>21 DEF CleanupLoopStart, CleanupTick
<1>22. CASE CleanupRun
  BY <1>22 DEF CleanupRun
<1>23. CASE UNCHANGED vars
  BY <1>23 DEF vars
<1> QED
  BY <1>1, <1>2, <1>3, <1>4, <1>5, <1>6, <1>7, <1>8, <1>9, <1>10, <1>11, <1>12, <1>13, <1>14, <1>15, <1>16, <1>17, <1>18, <1>19, <1>20, <1>21, <1>22, <1>23
  DEF Next, StopNext, AcceptNext, HandlerNext, ClientNext

(* Only acceptLoop gives a new connection its ID and its handler.          *)
LEMMA AcceptStep ==
  ASSUME TypeOK, LifeInv, AcceptInv, ConnInv, [Next]_vars
  PROVE  AcceptInv'
<1> USE ConnsAssumption, IDsAssumption DEF TypeOK, AcceptInv, ConnInv, AcceptErrors, serverVars, acceptVars, connVars
<1>1. CASE Start
  BY <1>1 DEF Start
<1>2. CASE StopBegin
  BY <1>2 DEF StopBegin
<1>3. CASE StopListener
  BY <1>3 DEF StopListener
<1>4. CASE ManagerStopSignal
  BY <1>4 DEF ManagerStopSignal
<1>5. CASE ManagerStopConnections
  BY <1>5 DEF ManagerStopConnections, Tracked
<1>6. CASE StopReturn
  BY <1>6 DEF StopReturn
<1>7. CASE AcceptReturns
  BY <1>7 DEF AcceptReturns
<1>8. CASE AcceptOnClosedListener
  BY <1>8 DEF AcceptOnClosedListener
<1>9. CASE AcceptChecksStop
  BY <1>9 DEF AcceptChecksStop, AcceptLoopReturns, AcceptGoes
<1>10. CASE AcceptReadsShuttingDown
  BY <1>10 DEF AcceptReadsShuttingDown, AcceptLoopReturns, AcceptGoes
<1>11. CASE AcceptClassifiesError
  BY <1>11 DEF AcceptClassifiesError, AcceptLoopReturns, AcceptGoes
<1>12. CASE AddConnection
  BY <1>12 DEF AddConnection, AcceptGoes
<1>13. CASE SpawnHandler
  BY <1>13 DEF SpawnHandler, AcceptGoes
<1>14. CASE \E c \in Conns : HandlerTop(c) \/ ReadMessageEnter(c)
  BY <1>14 DEF HandlerTop, ReadMessageEnter, HandlerGoes
<1>15. CASE \E c \in Conns : ReadFromClosed(c) \/ ReadFails(c) \/ ReadMessageReturns(c)
  BY <1>15 DEF ReadFromClosed, ReadFails, ReadMessageReturns, HandlerGoes
<1>16. CASE \E c \in Conns : HandleMessage(c)
  BY <1>16 DEF HandleMessage, HandlerGoes
<1>17. CASE \E c \in Conns : HandlerWgDone(c)
  BY <1>17 DEF HandlerWgDone, HandlerGoes
<1>18. CASE \E c \in Conns : RemoveConnection(c)
  BY <1>18 DEF RemoveConnection, HandlerGoes
<1>19. CASE \E c \in Conns : HandlerClose(c)
  BY <1>19 DEF HandlerClose, HandlerGoes, Close
<1>20. CASE \E c \in Conns : CloserCloses(c)
  BY <1>20 DEF CloserCloses, Close, Live
<1>21. CASE CleanupLoopStart \/ CleanupTick
  BY <1>21 DEF CleanupLoopStart, CleanupTick
<1>22. CASE CleanupRun
  BY <1>22 DEF CleanupRun
<1>23. CASE UNCHANGED vars
  BY <1>23 DEF vars
<1> QED
  BY <1>1, <1>2, <1>3, <1>4, <1>5, <1>6, <1>7, <1>8, <1>9, <1>10, <1>11, <1>12, <1>13, <1>14, <1>15, <1>16, <1>17, <1>18, <1>19, <1>20, <1>21, <1>22, <1>23
  DEF Next, StopNext, AcceptNext, HandlerNext, ClientNext

(* Sockets, IDs and states of the connections move together.               *)
LEMMA ConnStep ==
  ASSUME TypeOK, LifeInv, AcceptInv, ConnInv, [Next]_vars
  PROVE  ConnInv'
<1> USE ConnsAssumption, IDsAssumption DEF TypeOK, AcceptInv, ConnInv, serverVars, acceptVars, connVars
<1>1. CASE Start
  BY <1>1 DEF Start
<1>2. CASE StopBegin
  BY <1>2 DEF StopBegin
<1>3. CASE StopListener
  BY <1>3 DEF StopListener
<1>4. CASE ManagerStopSignal
  BY <1>4 DEF ManagerStopSignal
<1>5. CASE ManagerStopConnections
  BY <1>5 DEF ManagerStopConnections, Tracked
<1>6. CASE StopReturn
  BY <1>6 DEF StopReturn
<1>7. CASE AcceptReturns
  BY <1>7 DEF AcceptReturns
<1>8. CASE AcceptOnClosedListener
  BY <1>8 DEF AcceptOnClosedListener
<1>9. CASE AcceptChecksStop
  BY <1>9 DEF AcceptChecksStop, AcceptLoopReturns, AcceptGoes
<1>10. CASE AcceptReadsShuttingDown
  BY <1>10 DEF AcceptReadsShuttingDown, AcceptLoopReturns, AcceptGoes
<1>11. CASE AcceptClassifiesError
  BY <1>11 DEF AcceptClassifiesError, AcceptLoopReturns, AcceptGoes
<1>12. CASE AddConnection
  BY <1>12 DEF AddConnection, AcceptGoes
<1>13. CASE SpawnHandler
  BY <1>13 DEF SpawnHandler, AcceptGoes
<1>14. CASE \E c \in Conns : HandlerTop(c) \/ ReadMessageEnter(c)
  BY <1>14 DEF HandlerTop, ReadMessageEnter, HandlerGoes
<1>15. CASE \E c \in Conns : ReadFromClosed(c) \/ ReadFails(c) \/ ReadMessageReturns(c)
  BY <1>15 DEF ReadFromClosed, ReadFails, ReadMessageReturns, HandlerGoes
<1>16. CASE \E c \in Conns : HandleMessage(c)
  BY <1>16 DEF HandleMessage, HandlerGoes
<1>17. CASE \E c \in Conns : HandlerWgDone(c)
  BY <1>17 DEF HandlerWgDone, HandlerGoes
<1>18. CASE \E c \in Conns : RemoveConnection(c)
  BY <1>18 DEF RemoveConnection, HandlerGoes
<1>19. CASE \E c \in Conns : HandlerClose(c)
  BY <1>19 DEF HandlerClose, HandlerGoes, Close
<1>20. CASE \E c \in Conns : CloserCloses(c)
  BY <1>20 DEF CloserCloses, Close, Live
<1>21. CASE CleanupLoopStart \/ CleanupTick
  BY <1>21 DEF CleanupLoopStart, CleanupTick
<1>22. CASE CleanupRun
  BY <1>22 DEF CleanupRun
<1>23. CASE UNCHANGED vars
  BY <1>23 DEF vars
<1> QED
  BY <1>1, <1>2, <1>3, <1>4, <1>5, <1>6, <1>7, <1>8, <1>9, <1>10, <1>11, <1>12, <1>13, <1>14, <1>15, <1>16, <1>17, <1>18, <1>19, <1>20, <1>21, <1>22, <1>23
  DEF Next, StopNext, AcceptNext, HandlerNext, ClientNext

(* The counted handlers are finitely many.                                 *)
LEMMA CountedFinite == IsFiniteSet(CountedSet) /\ Cardinality(CountedSet) \in Nat
<1>1. IsFiniteSet(CountedSet)
  BY ConnsAssumption, FS_Subset DEF CountedSet
<1>2. QED
  BY <1>1, FS_CardinalityType

(* wg.Add and wg.Done keep the counter at the number of counted goroutines. *)
LEMMA WgStep ==
  ASSUME TypeOK, LifeInv, AcceptInv, ConnInv, WgInv, [Next]_vars
  PROVE  WgInv'
<1> USE CountedFinite DEF WgInv, AcceptCount, serverVars, acceptVars, connVars
<1>1. ASSUME CountedSet' = CountedSet, wg' - wg = AcceptCount' - AcceptCount, wg' \in Int
      PROVE  WgInv'
  BY <1>1 DEF TypeOK
<1>2. UNCHANGED handler => CountedSet' = CountedSet
  BY DEF CountedSet
<1>3. CASE Start
  BY <1>1, <1>2, <1>3 DEF Start, TypeOK, LifeInv
<1>4. CASE StopBegin \/ StopListener \/ ManagerStopSignal \/ ManagerStopConnections
           \/ StopReturn
  BY <1>1, <1>2, <1>4
  DEF StopBegin, StopListener, ManagerStopSignal, ManagerStopConnections, StopReturn, TypeOK
<1>5. CASE AcceptReturns \/ AcceptOnClosedListener \/ AddConnection
  BY <1>1, <1>2, <1>5
  DEF AcceptReturns, AcceptOnClosedListener, AddConnection, AcceptGoes, TypeOK
<1>6. CASE AcceptChecksStop \/ AcceptReadsShuttingDown \/ AcceptClassifiesError
  BY <1>1, <1>2, <1>6
  DEF AcceptChecksStop, AcceptReadsShuttingDown, AcceptClassifiesError,
      AcceptLoopReturns, AcceptGoes, TypeOK
<1>7. CASE SpawnHandler
  <2>1. result \in Conns /\ result \notin CountedSet
    BY <1>7 DEF SpawnHandler, AcceptInv, CountedSet, Counted
  <2>2. CountedSet' = CountedSet \cup {result}
    BY <1>7, <2>1 DEF SpawnHandler, CountedSet, Counted, TypeOK
  <2>3. Cardinality(CountedSet') = Cardinality(CountedSet) + 1
    BY <2>1, <2>2, FS_AddElement
  <2> QED
    BY <1>7, <2>3 DEF SpawnHandler, AcceptGoes, TypeOK
<1>8. ASSUME NEW c \in Conns, HandlerWgDone(c)
      PROVE  WgInv'
  <2>1. c \in CountedSet /\ CountedSet' = CountedSet \ {c}
    BY <1>8 DEF HandlerWgDone, HandlerGoes, CountedSet, Counted, TypeOK
  <2>2. Cardinality(CountedSet') = Cardinality(CountedSet) - 1
    BY <2>1, FS_RemoveElement
  <2> QED
    BY <1>8, <2>2 DEF HandlerWgDone, TypeOK
<1>9. ASSUME NEW c \in Conns,
             HandlerTop(c) \/ ReadMessageEnter(c) \/ ReadFromClosed(c) \/ HandleMessage(c)
             \/ RemoveConnection(c) \/ HandlerClose(c)
             \/ ReadMessageReturns(c) \/ ReadFails(c)
      PROVE  WgInv'
  <2>1. CountedSet' = CountedSet
    BY <1>9 DEF HandlerTop, ReadMessageEnter, ReadFromClosed, HandleMessage,
                RemoveConnection, HandlerClose, ReadMessageReturns, ReadFails,
                HandlerGoes, CountedSet, Counted, TypeOK
  <2>2. UNCHANGED <<wg, accept>>
    BY <1>9 DEF HandlerTop, ReadMessageEnter, ReadFromClosed, HandleMessage,
                RemoveConnection, HandlerClose, ReadMessageReturns, ReadFails
  <2> QED
    BY <1>1, <2>1, <2>2 DEF TypeOK
<1>10. ASSUME NEW c \in Conns, CloserCloses(c)
       PROVE  WgInv'
  BY <1>1, <1>2, <1>10 DEF CloserCloses, TypeOK
<1>11. CASE CleanupLoopStart \/ CleanupTick \/ CleanupRun
  BY <1>1, <1>2, <1>11 DEF CleanupLoopStart, CleanupTick, CleanupRun, TypeOK
<1>12. CASE UNCHANGED vars
  BY <1>1, <1>2, <1>12 DEF vars, TypeOK
<1> QED
  BY <1>3, <1>4, <1>5, <1>6, <1>7, <1>8, <1>9, <1>10, <1>11, <1>12
  DEF Next, StopNext, AcceptNext, HandlerNext, ClientNext

(* Types; that the counter does not become negative comes from WgInv.      *)
LEMMA TypeStep ==
  ASSUME TypeOK, AcceptInv, ConnInv, wg' \in Nat, [Next]_vars
  PROVE  TypeOK'
<1> USE ConnsAssumption, IDsAssumption
       DEF TypeOK, AcceptInv, ConnInv, AcceptErrors, AcceptPcs, StopPcs, CleanupPcs, HandlerPcs,
           serverVars, acceptVars, connVars
<1>1. CASE Start
  BY <1>1 DEF Start
<1>2. CASE StopBegin
  BY <1>2 DEF StopBegin
<1>3. CASE StopListener
  BY <1>3 DEF StopListener
<1>4. CASE ManagerStopSignal
  BY <1>4 DEF ManagerStopSignal
<1>5. CASE ManagerStopConnections
  BY <1>5 DEF ManagerStopConnections
<1>6. CASE StopReturn
  BY <1>6 DEF StopReturn
<1>7. CASE AcceptReturns
  BY <1>7 DEF AcceptReturns
<1>8. CASE AcceptOnClosedListener
  BY <1>8 DEF AcceptOnClosedListener
<1>9. CASE AcceptChecksStop
  BY <1>9 DEF AcceptChecksStop, AcceptLoopReturns, AcceptGoes
<1>10. CASE AcceptReadsShuttingDown
  BY <1>10 DEF AcceptReadsShuttingDown, AcceptLoopReturns, AcceptGoes
<1>11. CASE AcceptClassifiesError
  BY <1>11 DEF AcceptClassifiesError, AcceptLoopReturns, AcceptGoes
<1>12. CASE AddConnection
  BY <1>12 DEF AddConnection, AcceptGoes
<1>13. CASE SpawnHandler
  BY <1>13 DEF SpawnHandler, AcceptGoes
<1>14. CASE \E c \in Conns : HandlerTop(c) \/ ReadMessageEnter(c)
  BY <1>14 DEF HandlerTop, ReadMessageEnter, HandlerGoes
<1>15. CASE \E c \in Conns : ReadFromClosed(c) \/ ReadFails(c) \/ ReadMessageReturns(c)
  BY <1>15 DEF ReadFromClosed, ReadFails, ReadMessageReturns, HandlerGoes
<1>16. CASE \E c \in Conns : HandleMessage(c)
  BY <1>16 DEF HandleMessage, HandlerGoes
<1>17. CASE \E c \in Conns : HandlerWgDone(c)
  BY <1>17 DEF HandlerWgDone, HandlerGoes
<1>18. CASE \E c \in Conns : RemoveConnection(c)
  BY <1>18 DEF RemoveConnection, HandlerGoes
<1>19. CASE \E c \in Conns : HandlerClose(c)
  BY <1>19 DEF HandlerClose, HandlerGoes, Close
<1>20. CASE \E c \in Conns : CloserCloses(c)
  BY <1>20 DEF CloserCloses, Close, Live
<1>21. CASE CleanupLoopStart \/ CleanupTick
  BY <1>21 DEF CleanupLoopStart, CleanupTick
<1>22. CASE CleanupRun
  BY <1>22 DEF CleanupRun
<1>23. CASE UNCHANGED vars
  BY <1>23 DEF vars
<1> QED
  BY <1>1, <1>2, <1>3, <1>4, <1>5, <1>6, <1>7, <1>8, <1>9, <1>10, <1>11, <1>12, <1>13, <1>14, <1>15, <1>16, <1>17, <1>18, <1>19, <1>20, <1>21, <1>22, <1>23
  DEF Next, StopNext, AcceptNext, HandlerNext, ClientNext

(* With unique IDs nothing but its own handler or a Close takes an open     *)
(* connection out of the map.                                              *)
LEMMA TrackStep ==
  ASSUME TypeOK, AcceptInv, ConnInv, TrackInv, [Next]_vars
  PROVE  TrackInv'
<1> USE ConnsAssumption, IDsAssumption, ConfigAssumption
       DEF TypeOK, AcceptInv, ConnInv, TrackInv, serverVars, acceptVars, connVars
<1>1. CASE Start
  BY <1>1 DEF Start
<1>2. CASE StopBegin
  BY <1>2 DEF StopBegin
<1>3. CASE StopListener
  BY <1>3 DEF StopListener
<1>4. CASE ManagerStopSignal
  BY <1>4 DEF ManagerStopSignal
<1>5. CASE ManagerStopConnections
  BY <1>5 DEF ManagerStopConnections, Tracked
<1>6. CASE StopReturn
  BY <1>6 DEF StopReturn
<1>7. CASE AcceptReturns
  BY <1>7 DEF AcceptReturns
<1>8. CASE AcceptOnClosedListener
  BY <1>8 DEF AcceptOnClosedListener
<1>9. CASE AcceptChecksStop
  BY <1>9 DEF AcceptChecksStop, AcceptLoopReturns, AcceptGoes
<1>10. CASE AcceptReadsShuttingDown
  BY <1>10 DEF AcceptReadsShuttingDown, AcceptLoopReturns, AcceptGoes
<1>11. CASE AcceptClassifiesError
  BY <1>11 DEF AcceptClassifiesError, AcceptLoopReturns, AcceptGoes
<1>12. CASE AddConnection
  BY <1>12 DEF AddConnection, AcceptGoes
<1>13. CASE SpawnHandler
  BY <1>13 DEF SpawnHandler, AcceptGoes
<1>14. CASE \E c \in Conns : HandlerTop(c) \/ ReadMessageEnter(c)
  BY <1>14 DEF HandlerTop, ReadMessageEnter, HandlerGoes
<1>15. CASE \E c \in Conns : ReadFromClosed(c) \/ ReadFails(c) \/ ReadMessageReturns(c)
  BY <1>15 DEF ReadFromClosed, ReadFails, ReadMessageReturns, HandlerGoes
<1>16. CASE \E c \in Conns : HandleMessage(c)
  BY <1>16 DEF HandleMessage, HandlerGoes
<1>17. CASE \E c \in Conns : HandlerWgDone(c)
  BY <1>17 DEF HandlerWgDone, HandlerGoes
<1>18. CASE \E c \in Conns : RemoveConnection(c)
  BY <1>18 DEF RemoveConnection, HandlerGoes
<1>19. CASE \E c \in Conns : HandlerClose(c)
  BY <1>19 DEF HandlerClose, HandlerGoes, Close
<1>20. CASE \E c \in Conns : CloserCloses(c)
  BY <1>20 DEF CloserCloses, Close, Live
<1>21. CASE CleanupLoopStart \/ CleanupTick
  BY <1>21 DEF CleanupLoopStart, CleanupTick
<1>22. CASE CleanupRun
  BY <1>22 DEF CleanupRun
<1>23. CASE UNCHANGED vars
  BY <1>23 DEF vars
<1> QED
  BY <1>1, <1>2, <1>3, <1>4, <1>5, <1>6, <1>7, <1>8, <1>9, <1>10, <1>11, <1>12, <1>13, <1>14, <1>15, <1>16, <1>17, <1>18, <1>19, <1>20, <1>21, <1>22, <1>23
  DEF Next, StopNext, AcceptNext, HandlerNext, ClientNext

(* AddConnection refuses at the limit, and nothing else enlarges the map.  *)
LEMMA LimitStep ==
  ASSUME TypeOK, AcceptInv, LimitInv, [Next]_vars
  PROVE  LimitInv'
<1> SUFFICES ASSUME MaxConnections > 0
             PROVE  Cardinality(Tracked') <= MaxConnections
  BY DEF LimitInv
<1>1. IsFiniteSet(Tracked) /\ Cardinality(Tracked) \in Nat
  BY IDsAssumption, FS_Subset, FS_CardinalityType DEF Tracked
<1>2. ASSUME Tracked' \subseteq Tracked
      PROVE  Cardinality(Tracked') <= MaxConnections
  <2>1. Cardinality(Tracked') <= Cardinality(Tracked) /\ Cardinality(Tracked') \in Nat
    BY <1>1, <1>2, FS_Subset, FS_CardinalityType
  <2> QED
    BY <1>1, <2>1, ConfigAssumption DEF LimitInv
<1>3. CASE AddConnection /\ ~LimitReached
  <2>1. PICK i \in IDs : connections' = [connections EXCEPT ![i] = result]
    BY <1>3 DEF AddConnection
  <2>2. Tracked' \subseteq Tracked \cup {i}
    BY <2>1 DEF Tracked, TypeOK
  <2>3. /\ IsFiniteSet(Tracked \cup {i})
        /\ Cardinality(Tracked \cup {i}) <= Cardinality(Tracked) + 1
        /\ Cardinality(Tracked \cup {i}) \in Nat
    BY <1>1, FS_AddElement, FS_CardinalityType
  <2>4. Cardinality(Tracked') <= Cardinality(Tracked \cup {i}) /\ Cardinality(Tracked') \in Nat
    BY <2>2, <2>3, FS_Subset, FS_CardinalityType
  <2>5. Cardinality(Tracked) + 1 <= MaxConnections
    BY <1>1, <1>3, ConfigAssumption DEF LimitReached
  <2> QED
    BY <1>1, <2>3, <2>4, <2>5, ConfigAssumption
<1>4. CASE AddConnection /\ LimitReached
  BY <1>2, <1>4 DEF AddConnection, Tracked
<1>5. CASE ManagerStopConnections
  BY <1>2, <1>5 DEF ManagerStopConnections, Tracked
<1>6. ASSUME NEW c \in Conns, RemoveConnection(c)
      PROVE  Cardinality(Tracked') <= MaxConnections
  BY <1>2, <1>6 DEF RemoveConnection, Tracked, TypeOK
<1>7. CASE CleanupRun
  BY <1>2, <1>7 DEF CleanupRun, Tracked
<1>8. CASE UNCHANGED connections
  BY <1>2, <1>8 DEF Tracked
<1>9. \/ AddConnection \/ ManagerStopConnections \/ CleanupRun \/ UNCHANGED connections
      \/ \E c \in Conns : RemoveConnection(c)
  BY DEF Next, vars, StopNext, AcceptNext, HandlerNext, ClientNext, Start, StopBegin,
         StopListener, ManagerStopSignal, StopReturn, AcceptReturns,
         AcceptOnClosedListener, AcceptChecksStop, AcceptReadsShuttingDown,
         AcceptClassifiesError, SpawnHandler, HandlerTop, ReadMessageEnter,
         ReadFromClosed, ReadFails, ReadMessageReturns, HandleMessage, HandlerWgDone,
         HandlerClose, CloserCloses, CleanupLoopStart, CleanupTick
<1> QED
  BY <1>3, <1>4, <1>5, <1>6, <1>7, <1>8, <1>9

(* The connections tracked when the manager stops are closed; a later one  *)
(* finds stopChan closed.                                                  *)
LEMMA NoReadStep ==
  ASSUME TypeOK, LifeInv, AcceptInv, ConnInv, TrackInv, NoReadAfterManagerStop, [Next]_vars
  PROVE  NoReadAfterManagerStop'
<1> USE ConnsAssumption, IDsAssumption
       DEF TypeOK, LifeInv, AcceptInv, ConnInv, TrackInv, NoReadAfterManagerStop,
           serverVars, acceptVars, connVars
<1>1. CASE Start
  BY <1>1 DEF Start
<1>2. CASE StopBegin
  BY <1>2 DEF StopBegin
<1>3. CASE StopListener
  BY <1>3 DEF StopListener
<1>4. CASE ManagerStopSignal
  BY <1>4 DEF ManagerStopSignal
<1>5. CASE ManagerStopConnections
  BY <1>5 DEF ManagerStopConnections, Tracked
<1>6. CASE StopReturn
  BY <1>6 DEF StopReturn
<1>7. CASE AcceptReturns
  BY <1>7 DEF AcceptReturns
<1>8. CASE AcceptOnClosedListener
  BY <1>8 DEF AcceptOnClosedListener
<1>9. CASE AcceptChecksStop
  BY <1>9 DEF AcceptChecksStop, AcceptLoopReturns, AcceptGoes
<1>10. CASE AcceptReadsShuttingDown
  BY <1>10 DEF AcceptReadsShuttingDown, AcceptLoopReturns, AcceptGoes
<1>11. CASE AcceptClassifiesError
  BY <1>11 DEF AcceptClassifiesError, AcceptLoopReturns, AcceptGoes
<1>12. CASE AddConnection
  BY <1>12 DEF AddConnection, AcceptGoes
<1>13. CASE SpawnHandler
  BY <1>13 DEF SpawnHandler, AcceptGoes
<1>14. CASE \E c \in Conns : HandlerTop(c) \/ ReadMessageEnter(c)
  BY <1>14 DEF HandlerTop, ReadMessageEnter, HandlerGoes
<1>15. CASE \E c \in Conns : ReadFromClosed(c) \/ ReadFails(c) \/ ReadMessageReturns(c)
  BY <1>15 DEF ReadFromClosed, ReadFails, ReadMessageReturns, HandlerGoes
<1>16. CASE \E c \in Conns : HandleMessage(c)
  BY <1>16 DEF HandleMessage, HandlerGoes
<1>17. CASE \E c \in Conns : HandlerWgDone(c)
  BY <1>17 DEF HandlerWgDone, HandlerGoes
<1>18. CASE \E c \in Conns : RemoveConnection(c)
  BY <1>18 DEF RemoveConnection, HandlerGoes
<1>19. CASE \E c \in Conns : HandlerClose(c)
  BY <1>19 DEF HandlerClose, HandlerGoes, Close
<1>20. CASE \E c \in Conns : CloserCloses(c)
  BY <1>20 DEF CloserCloses, Close, Live
<1>21. CASE CleanupLoopStart \/ CleanupTick
  BY <1>21 DEF CleanupLoopStart, CleanupTick
<1>22. CASE CleanupRun
  BY <1>22 DEF CleanupRun
<1>23. CASE UNCHANGED vars
  BY <1>23 DEF vars
<1> QED
  BY <1>1, <1>2, <1>3, <1>4, <1>5, <1>6, <1>7, <1>8, <1>9, <1>10, <1>11, <1>12, <1>13, <1>14, <1>15, <1>16, <1>17, <1>18, <1>19, <1>20, <1>21, <1>22, <1>23
  DEF Next, StopNext, AcceptNext, HandlerNext, ClientNext
-------------------------------------------------------------------------------
(* The parts together are inductive.                                       *)
LEMMA IInvInductive == Spec => []IInv
<1>1. Init => IInv
  <2> SUFFICES ASSUME Init PROVE IInv
    OBVIOUS
  <2>1. TypeOK /\ LifeInv /\ AcceptInv /\ ConnInv /\ TrackInv /\ NoReadAfterManagerStop
    BY ConnsAssumption, IDsAssumption
    DEF Init, TypeOK, LifeInv, AcceptInv, ConnInv, TrackInv, NoReadAfterManagerStop,
        AcceptPcs, StopPcs, CleanupPcs, HandlerPcs
  <2>2. WgInv
    <3>1. CountedSet = {}
      BY DEF Init, CountedSet, Counted
    <3> QED
      BY <3>1, FS_EmptySet DEF Init, WgInv, AcceptCount
  <2>3. LimitInv
    <3>1. Tracked = {}
      BY DEF Init, Tracked
    <3> QED
      BY <3>1, FS_EmptySet, ConfigAssumption DEF LimitInv
  <2> QED
    BY <2>1, <2>2, <2>3 DEF IInv
<1>2. IInv /\ [Next]_vars => IInv'
  <2> SUFFICES ASSUME IInv, [Next]_vars PROVE IInv'
    OBVIOUS
  <2>1. WgInv'
    BY WgStep DEF IInv
  <2>2. wg' \in Nat
    <3>1. IsFiniteSet(CountedSet') /\ Cardinality(CountedSet') \in Nat
      BY ConnsAssumption, FS_Subset, FS_CardinalityType DEF CountedSet
    <3> QED
      BY <2>1, <3>1 DEF WgInv, AcceptCount
  <2>3. TypeOK' /\ LifeInv' /\ AcceptInv' /\ ConnInv'
    BY <2>2, TypeStep, LifeStep, AcceptStep, ConnStep DEF IInv
  <2>4. TrackInv' /\ LimitInv' /\ NoReadAfterManagerStop'
    BY TrackStep, LimitStep, NoReadStep DEF IInv
  <2> QED
    BY <2>1, <2>3, <2>4 DEF IInv
<1>3. QED
  BY <1>1, <1>2, PTL DEF Spec

(* Type correctness; in particular the wait group's counter is never       *)
(* negative, which would make wg.Done panic.                               *)
THEOREM TypeCorrect == Spec => []TypeOK
  BY IInvInductive, PTL DEF IInv

(* When Stop returns, acceptLoop has returned and every handler is past    *)
(* its last message, for any number of connections and any interleaving of *)
(* wg.Add with wg.Wait.                                                    *)
THEOREM StopWaits == Spec => []StopWaitsForAll
<1>1. IInv /\ (stopPc = "returned" => wg = 0) => StopWaitsForAll
  <2> SUFFICES ASSUME IInv, wg = 0, stopPc = "returned" PROVE StopWaitsForAll
    BY DEF StopWaitsForAll
  <2>1. AcceptCount = 0 /\ Cardinality(CountedSet) = 0
    BY CountedFinite DEF IInv, WgInv, AcceptCount
  <2>2. accept = "done"
    BY <2>1 DEF IInv, AcceptCount, LifeInv, TypeOK
  <2>3. CountedSet = {}
    BY <2>1, CountedFinite, FS_EmptySet
  <2> QED
    BY <2>2, <2>3 DEF StopWaitsForAll, CountedSet
<1>2. Init => (stopPc = "returned" => wg = 0)
  BY DEF Init
<1>3. /\ IInv /\ (stopPc = "returned" => wg = 0) /\ [Next]_vars
      => (stopPc = "returned" => wg = 0)'
  <2> SUFFICES ASSUME IInv, stopPc = "returned" => wg = 0, [Next]_vars, stopPc' = "returned"
               PROVE  wg' = 0
    OBVIOUS
  <2>1. CASE StopReturn
    BY <2>1 DEF StopReturn
  <2>2. CASE ~StopReturn
    <3>1. stopPc = "returned"
      BY <2>2 DEF Next, vars, serverVars, StopNext, AcceptNext, HandlerNext, ClientNext,
         Start, StopBegin, StopListener, ManagerStopSignal, ManagerStopConnections,
         AcceptReturns, AcceptOnClosedListener, AcceptChecksStop,
         AcceptReadsShuttingDown, AcceptClassifiesError, AddConnection, SpawnHandler,
         HandlerTop, ReadMessageEnter, ReadFromClosed, ReadFails, ReadMessageReturns,
         HandleMessage, HandlerWgDone, RemoveConnection, HandlerClose, CloserCloses,
         CleanupLoopStart, CleanupTick, CleanupRun
    <3>2. accept = "done" /\ \A c \in Conns : ~Counted(handler[c])
      BY <1>1, <3>1 DEF StopWaitsForAll
    <3>3. UNCHANGED wg
      BY <2>2, <3>1, <3>2 DEF Next, vars, StopNext, AcceptNext, HandlerNext, ClientNext,
         Start, StopBegin, StopListener, ManagerStopSignal, ManagerStopConnections,
         AcceptReturns, AcceptOnClosedListener, AcceptChecksStop,
         AcceptReadsShuttingDown, AcceptClassifiesError, AddConnection, SpawnHandler,
         HandlerTop, ReadMessageEnter, ReadFromClosed, ReadFails, ReadMessageReturns,
         HandleMessage, HandlerWgDone, RemoveConnection, HandlerClose, CloserCloses,
         CleanupLoopStart, CleanupTick, CleanupRun, HandlerGoes, Counted
    <3> QED
      BY <3>1, <3>3
  <2> QED
    BY <2>1, <2>2
<1>4. QED
  BY <1>1, <1>2, <1>3, IInvInductive, PTL DEF Spec

(* With unique IDs the manager knows every connection being served.        *)
THEOREM ServedAreTracked == Spec => []ServedIsTracked
<1>1. IInv => ServedIsTracked
  BY DEF IInv, TrackInv, ServedIsTracked, Serving, Counted
<1>2. QED
  BY <1>1, IInvInductive, PTL

(* With unique IDs MaxConnections bounds the connections being served: the *)
(* map from a served connection to its ID is injective into the manager's  *)
(* map.                                                                    *)
THEOREM LimitHolds == Spec => []ServedWithinLimit
<1>1. IInv => ServedWithinLimit
  <2> SUFFICES ASSUME IInv, UniqueIDs, MaxConnections > 0
               PROVE  Cardinality({c \in Conns : Serving(c)}) <= MaxConnections
    BY DEF ServedWithinLimit
  <2> DEFINE Served == {c \in Conns : Serving(c)}
             f == [c \in Served |-> id[c]]
  <2>1. IsFiniteSet(Tracked) /\ Cardinality(Tracked) \in Nat
    BY IDsAssumption, FS_Subset, FS_CardinalityType DEF Tracked
  <2>2. \A c \in Served : id[c] \in Tracked /\ id[c] # None
    BY ConnsAssumption, IDsAssumption
    DEF IInv, TypeOK, ConnInv, TrackInv, Serving, Counted, Tracked
  <2>3. \A c, d \in Served : id[c] = id[d] => c = d
    BY <2>2 DEF IInv, TrackInv
  <2>4. f \in Injection(Served, Tracked)
    BY <2>2, <2>3 DEF Injection, IsInjective
  <2>5. IsFiniteSet(Served) /\ Cardinality(Served) <= Cardinality(Tracked)
    BY <2>1, <2>4, FS_Injection
  <2>6. Cardinality(Served) \in Nat
    BY <2>5, FS_CardinalityType
  <2> QED
    BY <2>1, <2>5, <2>6, ConfigAssumption DEF IInv, LimitInv
<1>2. QED
  BY <1>1, IInvInductive, PTL

(* With unique IDs wg.Wait in Stop never waits for a client: no handler    *)
(* reads from an open socket after the manager has stopped.                *)
THEOREM StopIsIndependentOfClients == Spec => []NoReadAfterManagerStop
  BY IInvInductive, PTL DEF IInv
==================================================================================
