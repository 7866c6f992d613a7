------------------------------ MODULE GameServer ------------------------------
(***************************************************************************)
(* The requests of a game: the router of internal/router/router.go, the    *)
(* GameHandler of business/common/game_handler.go and the item handlers of *)
(* the HTTP server, composed with the items and orders they act on, a      *)
(* database whose statements may fail and whose slaves lag, and a process  *)
(* that may crash and start again.                                         *)
(***************************************************************************)
EXTENDS Items, Orders

CONSTANTS
  Games,
  MaxCalls,   \* bound: requests
  MaxFaults,  \* bound: statements that fail
  MaxCrashes  \* bound: crashes of the process

ASSUME BoundsAssumption == MaxCalls \in Nat /\ MaxFaults \in Nat /\ MaxCrashes \in Nat

VARIABLES handlers, calls, faults, crashes

bounds == <<calls, faults, crashes>>
vars == <<itemVars, orderVars, handlers, bounds>>

TypeOK ==
  /\ ItemTypeOK /\ OrderTypeOK /\ handlers \subseteq Games
  /\ calls \in 0..MaxCalls /\ faults \in 0..MaxFaults /\ crashes \in 0..MaxCrashes

(* main registers a handler for every game before it serves.               *)
Init ==
  /\ ItemInit /\ OrderInit
  /\ handlers = Games /\ calls = 0 /\ faults = 0 /\ crashes = 0

-------------------------------------------------------------------------------
UnregisterHandler(g) ==
  /\ g \in handlers /\ handlers' = handlers \ {g}
  /\ UNCHANGED <<itemVars, orderVars, bounds>>

RegisterHandler(g) ==
  /\ g \notin handlers /\ handlers' = handlers \cup {g}
  /\ UNCHANGED <<itemVars, orderVars, bounds>>

handleItemOperation(p) ==
  /\ createItem(p) \/ BeginOn(p, "consume") \/ BeginTransfer(p)
  /\ UNCHANGED orderVars

handleOrderOperation(p) ==
  /\ BeginCreateOrder(p) \/ ProcessPayment(p) \/ CancelOrder(p)
  /\ UNCHANGED itemVars

(* The operations of the two services that no handler calls.               *)
ServiceCall(p) ==
  \/ /\ BatchCreateItems(p) \/ BeginOn(p, "add") \/ BeginOn(p, "delete")
        \/ BeginOn(p, "readUpdate")
     /\ UNCHANGED orderVars
  \/ RefundOrder(p) /\ UNCHANGED itemVars

(* A request finds the handler of its game, or is answered 4004.           *)
Route(p, g) == g \in handlers /\ (handleItemOperation(p) \/ handleOrderOperation(p))

Request(p) ==
  /\ itemCall[p].pc = "idle" /\ orderCall[p].pc = "idle" /\ calls < MaxCalls
  /\ (\E g \in Games : Route(p, g)) \/ ServiceCall(p)
  /\ calls' = calls + 1 /\ UNCHANGED <<handlers, faults, crashes>>

(* One statement of the request of p.                                      *)
Work(p, o) ==
  /\ o # "ok" => faults < MaxFaults
  /\ faults' = IF o = "ok" THEN faults ELSE faults + 1
  /\ \/ ItemWork(p, o) /\ UNCHANGED orderVars
     \/ OrderWork(p, o) /\ UNCHANGED itemVars
  /\ UNCHANGED <<handlers, calls, crashes>>

(* A slave replays what the master has written.                            *)
Replicate ==
  /\ \/ ReplicateItem /\ UNCHANGED orderVars
     \/ ReplicateOrder /\ UNCHANGED itemVars
  /\ UNCHANGED <<handlers, bounds>>

Crash ==
  /\ crashes < MaxCrashes /\ crashes' = crashes + 1
  /\ ItemCrash /\ OrderCrash
  /\ handlers' = Games /\ UNCHANGED <<calls, faults>>

Next ==
  \/ \E g \in Games : UnregisterHandler(g) \/ RegisterHandler(g)
  \/ \E p \in Clients : Request(p) \/ \E o \in Outcomes : Work(p, o)
  \/ Replicate \/ Crash

Spec == Init /\ [][Next]_vars
================================================================================
