------------------------------ MODULE Orders ------------------------------
(***************************************************************************)
(* Orders: OrderService of business/common/order_service.go over the       *)
(* orders table of data/dao/dao.go.  A payment, cancellation or refund     *)
(* reads the status from a slave and then writes the new status to the     *)
(* master unconditionally.                                                 *)
(*                                                                         *)
(* paid is history: the orders that were paid at some time.                *)
(***************************************************************************)
EXTENDS Database

CONSTANTS
  OrderIds, NoOrder,
  OrderTables  \* the tables the service may find when it starts

VARIABLES orders, orderReplicas, orderCall, paid

orderVars == <<orders, orderReplicas, orderCall, paid>>

Status == {"none", "pending", "paid", "cancelled", "refunded"}
Final  == {"cancelled", "refunded"}

ASSUME OrderConstants == OrderTables \subseteq [OrderIds -> Status] /\ NoOrder \notin OrderIds

OrderTypeOK ==
  /\ orders \in [OrderIds -> Status] /\ orderReplicas \in [OrderIds -> SUBSET Status]
  /\ orderCall \in [Clients -> [pc : {"idle", "create", "read", "write"},
                                order : OrderIds \cup {NoOrder},
                                to : {"pending", "paid"} \cup Final]]
  /\ paid \subseteq OrderIds

OrderIdle == [pc |-> "idle", order |-> NoOrder, to |-> "pending"]

OrderInit ==
  /\ orders \in OrderTables /\ orderReplicas = Slaves(orders)
  /\ orderCall = [p \in Clients |-> OrderIdle]
  /\ paid = {id \in OrderIds : orders[id] \in {"paid", "refunded"}}

OrderBegin(p, first, id, status) ==
  /\ orderCall[p].pc = "idle"
  /\ orderCall' = [orderCall EXCEPT ![p] = [pc |-> first, order |-> id, to |-> status]]
  /\ UNCHANGED <<orders, orderReplicas, paid>>

BeginCreateOrder(p) == OrderBegin(p, "create", NoOrder, "pending")
ProcessPayment(p)   == \E id \in OrderIds : OrderBegin(p, "read", id, "paid")
CancelOrder(p)      == \E id \in OrderIds : OrderBegin(p, "read", id, "cancelled")
RefundOrder(p)      == \E id \in OrderIds : OrderBegin(p, "read", id, "refunded")

-------------------------------------------------------------------------------
(* Mutant: a new order gets a status that no operation knows.              *)
NewStatusOther == "created"

NewStatus == "pending"

CreateOrder(p, o) ==
  /\ orderCall[p].pc = "create"
  /\ \E id \in OrderIds :
       orders' = IF orders[id] = "none" /\ o # "error"
                   THEN [orders EXCEPT ![id] = NewStatus] ELSE orders
  /\ orderCall' = [orderCall EXCEPT ![p] = OrderIdle]
  /\ UNCHANGED paid

(* Mutant: a refund accepts a payment that is still pending.               *)
RequiredAny(status) == IF status = "refunded" THEN {"pending", "paid"} ELSE {"pending"}

(* The status a slave must show before the order may become status.        *)
Required(status) == IF status = "refunded" THEN {"paid"} ELSE {"pending"}

(* Mutant: the status is not looked at.                                    *)
ReadOrderUnchecked(p, o) ==
  LET c == orderCall[p]
  IN  /\ c.pc = "read"
      /\ \E status \in orderReplicas[c.order] :
           orderCall' = [orderCall EXCEPT ![p] =
             IF o = "ok" /\ status # "none" THEN [c EXCEPT !.pc = "write"] ELSE OrderIdle]
      /\ UNCHANGED <<orders, paid>>

(* A refund may ask for more than the order's amount and is refused then.  *)
ReadOrder(p, o) ==
  LET c == orderCall[p]
  IN  /\ c.pc = "read"
      /\ \E status \in orderReplicas[c.order], amountFits \in BOOLEAN :
           orderCall' = [orderCall EXCEPT ![p] =
             IF o = "ok" /\ status \in Required(c.to) /\ (c.to = "refunded" => amountFits)
               THEN [c EXCEPT !.pc = "write"] ELSE OrderIdle]
      /\ UNCHANGED <<orders, paid>>

UpdateOrderStatus(p, o) ==
  LET c == orderCall[p]
  IN  /\ c.pc = "write"
      /\ orders' = IF o = "error" THEN orders ELSE [orders EXCEPT ![c.order] = c.to]
      /\ paid' = IF o # "error" /\ c.to = "paid" THEN paid \cup {c.order} ELSE paid
      /\ orderCall' = [orderCall EXCEPT ![p] = OrderIdle]

OrderWork(p, o) ==
  /\ CreateOrder(p, o) \/ ReadOrder(p, o) \/ UpdateOrderStatus(p, o)
  /\ orderReplicas' = Shipped(orderReplicas, orders')

(* The last slave that shows a version of an order replays the next write. *)
ReplicateOrder ==
  /\ \E id \in OrderIds : \E old \in Outdated(orderReplicas, orders, id) :
       orderReplicas' = Replayed(orderReplicas, id, old)
  /\ UNCHANGED <<orders, orderCall, paid>>

OrderCrash ==
  /\ orderCall' = [p \in Clients |-> OrderIdle]
  /\ UNCHANGED <<orders, orderReplicas, paid>>

-------------------------------------------------------------------------------
(* Only an order that was paid is ever refunded, though RefundOrder looks  *)
(* at a slave that may lag and nothing holds the order meanwhile.          *)
RefundFollowsPayment == \A id \in OrderIds : orders[id] = "refunded" => id \in paid

(* An order is settled when it is cancelled or refunded, no slave shows it *)
(* in another state or has yet to replay one, and no call that read the    *)
(* order earlier is still to write.                                        *)
Settled(id) ==
  /\ orders[id] \in Final /\ orderReplicas[id] \subseteq Final
  /\ \A p \in Clients : orderCall[p].pc = "write" => orderCall[p].order # id

(* A settled order stays settled: no payment, cancellation or refund that  *)
(* comes later changes it, or gets so far that it is going to, whichever   *)
(* slave it reads.                                                         *)
SettledStays ==
  [][\A id \in OrderIds : Settled(id) => Settled(id)' /\ orders'[id] = orders[id]]_orderVars
================================================================================
