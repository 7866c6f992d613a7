------------------------------ MODULE OrdersProofs ------------------------------
(***************************************************************************)
(* The safety of the orders of GameServer, for any number of orders and    *)
(* clients, whatever the items do, however many slaves there are and       *)
(* however far each lags, and whenever the process crashes.                *)
(***************************************************************************)
EXTENDS GameServer, TLAPS

-------------------------------------------------------------------------------
(* The inductive invariant.                                                *)

WasPaid(status) == status \in {"paid", "refunded"}

(* What the master or any slave shows as paid or refunded was paid at some *)
(* time.                                                                   *)
TableInv == \A id \in OrderIds, status \in Status :
  status \in {orders[id]} \cup orderReplicas[id] /\ WasPaid(status) => id \in paid

(* A call that got as far as a status or its write has an order, and a     *)
(* refund about to be written is of an order that was paid.                *)
CallInv == \A p \in Clients :
  LET c == orderCall[p]
  IN  /\ c.pc \in {"read", "write"} => c.order \in OrderIds
      /\ c.pc = "write" /\ c.to = "refunded" => c.order \in paid

OrderInv == OrderTypeOK /\ TableInv /\ CallInv

(* What a step of the whole server may do to the orders.                   *)
OrderStep ==
  \/ \E p \in Clients :
       \/ BeginCreateOrder(p) \/ ProcessPayment(p) \/ CancelOrder(p) \/ RefundOrder(p)
       \/ \E o \in Outcomes : OrderWork(p, o)
  \/ ReplicateOrder
  \/ OrderCrash

LEMMA OrdersStep == [Next]_vars => OrderStep \/ UNCHANGED orderVars
<1> SUFFICES ASSUME [Next]_vars PROVE OrderStep \/ UNCHANGED orderVars
  OBVIOUS
<1>1. CASE UNCHANGED vars
  BY <1>1 DEF vars
<1>2. ASSUME NEW g \in Games, UnregisterHandler(g) \/ RegisterHandler(g)
      PROVE  UNCHANGED orderVars
  BY <1>2 DEF UnregisterHandler, RegisterHandler
<1>3. ASSUME NEW p \in Clients, Request(p)
      PROVE  OrderStep \/ UNCHANGED orderVars
  BY <1>3 DEF Request, Route, ServiceCall, handleItemOperation, handleOrderOperation, OrderStep
<1>4. ASSUME NEW p \in Clients, NEW o \in Outcomes, Work(p, o)
      PROVE  OrderStep \/ UNCHANGED orderVars
  BY <1>4 DEF Work, OrderStep
<1>5. CASE Replicate
  BY <1>5 DEF Replicate, OrderStep
<1>6. CASE Crash
  BY <1>6 DEF Crash, OrderStep
<1> QED BY <1>1, <1>2, <1>3, <1>4, <1>5, <1>6 DEF Next

-------------------------------------------------------------------------------
(* What the slaves may show after a statement: what they showed before and *)
(* what the statement left.                                                *)
LEMMA OrdersShipped ==
  ASSUME OrderTypeOK, orders' \in [OrderIds -> Status],
         orderReplicas' = Shipped(orderReplicas, orders')
  PROVE  /\ orderReplicas' \in [OrderIds -> SUBSET Status]
         /\ \A id \in OrderIds : orderReplicas'[id] = orderReplicas[id] \cup {orders'[id]}
  BY DEF Shipped, OrderTypeOK

(* A slave that replays a write only shows less.                           *)
LEMMA OrdersReplayed ==
  ASSUME OrderTypeOK, ReplicateOrder
  PROVE  /\ orderReplicas' \in [OrderIds -> SUBSET Status]
         /\ \A id \in OrderIds : orderReplicas'[id] \subseteq orderReplicas[id]
<1>1. PICK i \in OrderIds :
        \E old : orderReplicas' = [orderReplicas EXCEPT ![i] = @ \ {old}]
  BY DEF ReplicateOrder, Outdated, Replayed
<1> QED BY <1>1 DEF OrderTypeOK

LEMMA OrderInitInv == Init => OrderInv
<1> SUFFICES ASSUME Init PROVE OrderInv
  OBVIOUS
<1>1. OrderInit
  BY DEF Init
<1>2. OrderTypeOK
  BY <1>1, OrderConstants DEF OrderInit, OrderTypeOK, OrderIdle, Slaves
<1>3. TableInv
  BY <1>1, OrderConstants DEF OrderInit, TableInv, WasPaid, Slaves
<1>4. CallInv
  BY <1>1 DEF OrderInit, CallInv, OrderIdle
<1> QED BY <1>2, <1>3, <1>4 DEF OrderInv

(* The records a call can hold.                                            *)
OrderCalls == [pc : {"idle", "create", "read", "write"}, order : OrderIds \cup {NoOrder},
               to : {"pending", "paid"} \cup Final]

(* A step of one call, stated as what it needs of the new record.          *)
LEMMA CallChanges ==
  ASSUME OrderInv, NEW p \in Clients, NEW d \in OrderCalls,
         orderCall' = [orderCall EXCEPT ![p] = d],
         paid \subseteq paid', d.pc \in {"read", "write"} => d.order \in OrderIds,
         d.pc = "write" /\ d.to = "refunded" => d.order \in paid'
  PROVE  orderCall' \in [Clients -> OrderCalls] /\ CallInv'
<1>1. orderCall \in [Clients -> OrderCalls]
  BY DEF OrderInv, OrderTypeOK, OrderCalls
<1>2. orderCall' \in [Clients -> OrderCalls]
  BY <1>1
<1>3. \A q \in Clients : orderCall'[q] = IF q = p THEN d ELSE orderCall[q]
  BY <1>1
<1> QED BY <1>2, <1>3 DEF OrderInv, CallInv

LEMMA OrderNextInv == OrderInv /\ OrderStep => OrderInv'
<1> SUFFICES ASSUME OrderInv, OrderStep PROVE OrderInv'
  OBVIOUS
<1>t. /\ orders \in [OrderIds -> Status] /\ orderReplicas \in [OrderIds -> SUBSET Status]
      /\ orderCall \in [Clients -> OrderCalls] /\ paid \subseteq OrderIds
  BY DEF OrderInv, OrderTypeOK, OrderCalls
<1>i. OrderIdle \in OrderCalls /\ OrderIdle.pc = "idle"
  BY DEF OrderIdle, OrderCalls
<1>1. ASSUME NEW p \in Clients,
             BeginCreateOrder(p) \/ ProcessPayment(p) \/ CancelOrder(p) \/ RefundOrder(p)
      PROVE  OrderInv'
  <2>1. PICK first \in {"create", "read"}, id \in OrderIds \cup {NoOrder},
             status \in {"pending", "paid"} \cup Final :
          (first = "read" => id \in OrderIds) /\ OrderBegin(p, first, id, status)
    BY <1>1 DEF BeginCreateOrder, ProcessPayment, CancelOrder, RefundOrder, Final
  <2> DEFINE d == [pc |-> first, order |-> id, to |-> status]
  <2>2. /\ d \in OrderCalls /\ d.pc # "write" /\ (d.pc = "read" => d.order \in OrderIds)
        /\ orderCall' = [orderCall EXCEPT ![p] = d] /\ UNCHANGED <<orders, orderReplicas, paid>>
    BY <2>1 DEF OrderBegin, OrderCalls
  <2> HIDE DEF d
  <2>3. orderCall' \in [Clients -> OrderCalls] /\ CallInv'
    BY <2>2, CallChanges
  <2> QED BY <1>t, <2>2, <2>3 DEF OrderInv, OrderTypeOK, TableInv, OrderCalls
<1>s. ASSUME orders' \in [OrderIds -> Status], paid' \subseteq OrderIds, paid \subseteq paid',
             orderReplicas' = Shipped(orderReplicas, orders'),
             \A id \in OrderIds : WasPaid(orders'[id]) => id \in paid',
             orderCall' \in [Clients -> OrderCalls], CallInv'
      PROVE  OrderInv'
  <2>1. /\ orderReplicas' \in [OrderIds -> SUBSET Status]
        /\ \A id \in OrderIds : orderReplicas'[id] = orderReplicas[id] \cup {orders'[id]}
    BY <1>s, OrdersShipped DEF OrderInv
  <2>2. TableInv'
    BY <1>s, <2>1 DEF OrderInv, TableInv
  <2> QED BY <1>s, <2>1, <2>2 DEF OrderInv, OrderTypeOK, OrderCalls
<1>p. \A id \in OrderIds : WasPaid(orders[id]) => id \in paid
  BY <1>t DEF OrderInv, TableInv
<1>2. ASSUME NEW p \in Clients, NEW o \in Outcomes, CreateOrder(p, o),
             orderReplicas' = Shipped(orderReplicas, orders')
      PROVE  OrderInv'
  <2>1. PICK id \in OrderIds :
          orders' = IF orders[id] = "none" /\ o # "error"
                      THEN [orders EXCEPT ![id] = NewStatus] ELSE orders
    BY <1>2 DEF CreateOrder
  <2>2. orderCall' = [orderCall EXCEPT ![p] = OrderIdle] /\ UNCHANGED paid
    BY <1>2 DEF CreateOrder
  <2>3. orders' \in [OrderIds -> Status]
    BY <1>t, <2>1 DEF NewStatus, Status
  <2>4. \A i \in OrderIds : WasPaid(orders'[i]) => i \in paid'
    BY <1>t, <1>p, <2>1, <2>2 DEF WasPaid, NewStatus
  <2>5. orderCall' \in [Clients -> OrderCalls] /\ CallInv'
    BY <1>i, <2>2, CallChanges
  <2> QED BY <1>s, <1>t, <1>2, <2>2, <2>3, <2>4, <2>5
<1>3. ASSUME NEW p \in Clients, NEW o \in Outcomes, ReadOrder(p, o),
             orderReplicas' = Shipped(orderReplicas, orders')
      PROVE  OrderInv'
  <2> DEFINE c == orderCall[p]
  <2>0. c \in OrderCalls /\ c.order \in OrderIds
    BY <1>t, <1>3 DEF ReadOrder, OrderInv, CallInv
  <2>p. PICK status \in orderReplicas[c.order], amountFits \in BOOLEAN :
          orderCall' = [orderCall EXCEPT ![p] =
            IF o = "ok" /\ status \in Required(c.to) /\ (c.to = "refunded" => amountFits)
              THEN [c EXCEPT !.pc = "write"] ELSE OrderIdle]
    BY <1>3 DEF ReadOrder
  <2> DEFINE passes == o = "ok" /\ status \in Required(c.to) /\ (c.to = "refunded" => amountFits)
             d == IF passes THEN [c EXCEPT !.pc = "write"] ELSE OrderIdle
  <2>1. orderCall' = [orderCall EXCEPT ![p] = d] /\ UNCHANGED <<orders, paid>>
    BY <1>3, <2>p DEF ReadOrder
  <2>2. d \in OrderCalls
    BY <1>i, <2>0 DEF OrderCalls
  <2>3. d.pc \in {"read", "write"} => d.order \in OrderIds
    BY <1>i, <2>0 DEF OrderCalls
  <2>4. d.pc = "write" /\ d.to = "refunded" => d.order \in paid'
    <3>1. CASE passes /\ c.to = "refunded"
      <4>1. status = "paid" /\ status \in Status
        BY <3>1 DEF Required, Status
      <4>2. c.order \in paid
        BY <2>0, <4>1 DEF OrderInv, TableInv, WasPaid
      <4>3. d.order = c.order
        BY <2>0, <3>1 DEF OrderCalls
      <4>4. paid' = paid
        BY <2>1
      <4> HIDE DEF d
      <4> QED BY <4>2, <4>3, <4>4
    <3>2. CASE ~(passes /\ c.to = "refunded")
      BY <1>i, <2>0, <3>2 DEF OrderCalls, OrderIdle
    <3> QED BY <3>1, <3>2
  <2> HIDE DEF passes, d
  <2>6. orderCall' \in [Clients -> OrderCalls] /\ CallInv'
    BY <2>1, <2>2, <2>3, <2>4, CallChanges
  <2> QED BY <1>p, <1>s, <1>t, <1>3, <2>1, <2>6
<1>4. ASSUME NEW p \in Clients, NEW o \in Outcomes, UpdateOrderStatus(p, o),
             orderReplicas' = Shipped(orderReplicas, orders')
      PROVE  OrderInv'
  <2> DEFINE c == orderCall[p]
  <2>1. /\ c \in OrderCalls /\ c.order \in OrderIds
        /\ c.to = "refunded" => c.order \in paid
    BY <1>t, <1>4 DEF UpdateOrderStatus, OrderInv, CallInv
  <2>2. /\ orders' = IF o = "error" THEN orders ELSE [orders EXCEPT ![c.order] = c.to]
        /\ paid' = IF o # "error" /\ c.to = "paid" THEN paid \cup {c.order} ELSE paid
        /\ orderCall' = [orderCall EXCEPT ![p] = OrderIdle]
    BY <1>4 DEF UpdateOrderStatus
  <2>3. c.to \in Status
    BY <2>1 DEF OrderCalls, Status, Final
  <2>4. orders' \in [OrderIds -> Status] /\ paid' \subseteq OrderIds /\ paid \subseteq paid'
    BY <1>t, <2>1, <2>2, <2>3
  <2>5. \A id \in OrderIds : WasPaid(orders'[id]) => id \in paid'
    BY <1>t, <1>p, <2>1, <2>2 DEF WasPaid
  <2>6. orderCall' \in [Clients -> OrderCalls] /\ CallInv'
    BY <1>i, <2>2, <2>4, CallChanges
  <2> QED BY <1>s, <1>4, <2>4, <2>5, <2>6
<1>5. CASE ReplicateOrder
  <2>1. /\ orderReplicas' \in [OrderIds -> SUBSET Status]
        /\ \A id \in OrderIds : orderReplicas'[id] \subseteq orderReplicas[id]
        /\ UNCHANGED <<orders, orderCall, paid>>
    BY <1>5, OrdersReplayed DEF OrderInv, ReplicateOrder
  <2>2. TableInv'
    BY <2>1 DEF OrderInv, TableInv
  <2> QED BY <1>t, <2>1, <2>2 DEF OrderInv, OrderTypeOK, CallInv, OrderCalls
<1>6. CASE OrderCrash
  BY <1>t, <1>i, <1>6 DEF OrderCrash, OrderInv, OrderTypeOK, TableInv, CallInv, OrderCalls
<1> QED BY <1>1, <1>2, <1>3, <1>4, <1>5, <1>6 DEF OrderStep, OrderWork

LEMMA OrderInvHolds == Spec => []OrderInv
<1>1. OrderInv /\ UNCHANGED orderVars => OrderInv'
  BY DEF OrderInv, OrderTypeOK, TableInv, CallInv, orderVars
<1>2. OrderInv /\ [Next]_vars => OrderInv'
  BY <1>1, OrdersStep, OrderNextInv
<1> QED BY <1>2, OrderInitInv, PTL DEF Spec

-------------------------------------------------------------------------------
(* Whatever the requests, failures and crashes, the orders, the versions   *)
(* the slaves show of them and the calls on them have the values that      *)
(* OrderService gives them.                                                *)
THEOREM OrdersTypeCorrect == Spec => []OrderTypeOK
<1>1. OrderInv => OrderTypeOK
  BY DEF OrderInv
<1> QED BY <1>1, OrderInvHolds, PTL

(* RefundOrder never refunds an order that was not paid, for any number of *)
(* orders and of calls between its read on a slave and its write.          *)
THEOREM RefundsAreOfPayments == Spec => []RefundFollowsPayment
<1>1. OrderInv => RefundFollowsPayment
  BY DEF OrderInv, OrderTypeOK, TableInv, WasPaid, RefundFollowsPayment
<1> QED BY <1>1, OrderInvHolds, PTL

-------------------------------------------------------------------------------
(* No step on the orders moves a settled one.                              *)
LEMMA SettledStep ==
  ASSUME OrderInv, OrderStep \/ UNCHANGED orderVars, NEW id \in OrderIds, Settled(id)
  PROVE  Settled(id)' /\ orders'[id] = orders[id]
<1>t. /\ orders \in [OrderIds -> Status] /\ orderReplicas \in [OrderIds -> SUBSET Status]
      /\ orderCall \in [Clients -> OrderCalls]
      /\ orders[id] \in Final /\ orderReplicas[id] \subseteq Final
      /\ \A p \in Clients : orderCall[p].pc = "write" => orderCall[p].order # id
  BY DEF OrderInv, OrderTypeOK, OrderCalls, Settled
<1>1. ASSUME NEW p \in Clients, NEW d,
             orderCall' = [orderCall EXCEPT ![p] = d], d.pc = "write" => d.order # id,
             orders'[id] = orders[id], orderReplicas'[id] \subseteq Final
      PROVE  Settled(id)' /\ orders'[id] = orders[id]
  <2>1. \A q \in Clients : orderCall'[q] = IF q = p THEN d ELSE orderCall[q]
    BY <1>t, <1>1
  <2> QED BY <1>t, <1>1, <2>1 DEF Settled
<1>s. ASSUME orders' \in [OrderIds -> Status], orderReplicas' = Shipped(orderReplicas, orders'),
             orders'[id] = orders[id]
      PROVE  orderReplicas'[id] \subseteq Final
  BY <1>t, <1>s, OrdersShipped DEF OrderInv
<1>2. ASSUME NEW p \in Clients,
             BeginCreateOrder(p) \/ ProcessPayment(p) \/ CancelOrder(p) \/ RefundOrder(p)
      PROVE  Settled(id)' /\ orders'[id] = orders[id]
  <2>1. PICK first \in {"create", "read"}, i \in OrderIds \cup {NoOrder},
             status \in {"pending", "paid"} \cup Final : OrderBegin(p, first, i, status)
    BY <1>2 DEF BeginCreateOrder, ProcessPayment, CancelOrder, RefundOrder, Final
  <2> DEFINE d == [pc |-> first, order |-> i, to |-> status]
  <2>2. orderCall' = [orderCall EXCEPT ![p] = d] /\ d.pc # "write"
    BY <2>1 DEF OrderBegin
  <2>3. UNCHANGED <<orders, orderReplicas>>
    BY <2>1 DEF OrderBegin
  <2> HIDE DEF d
  <2> QED BY <1>t, <1>1, <2>2, <2>3
<1>3. ASSUME NEW p \in Clients, NEW o \in Outcomes, CreateOrder(p, o),
             orderReplicas' = Shipped(orderReplicas, orders')
      PROVE  Settled(id)' /\ orders'[id] = orders[id]
  <2>1. PICK i \in OrderIds :
          orders' = IF orders[i] = "none" /\ o # "error"
                      THEN [orders EXCEPT ![i] = NewStatus] ELSE orders
    BY <1>3 DEF CreateOrder
  <2>2. orders'[id] = orders[id] /\ orders' \in [OrderIds -> Status]
    BY <1>t, <2>1 DEF Final, NewStatus, Status
  <2>3. orderCall' = [orderCall EXCEPT ![p] = OrderIdle]
    BY <1>3 DEF CreateOrder
  <2>4. OrderIdle.pc # "write"
    BY DEF OrderIdle
  <2> QED BY <1>1, <1>3, <1>s, <2>2, <2>3, <2>4
<1>4. ASSUME NEW p \in Clients, NEW o \in Outcomes, ReadOrder(p, o),
             orderReplicas' = Shipped(orderReplicas, orders')
      PROVE  Settled(id)' /\ orders'[id] = orders[id]
  <2> DEFINE c == orderCall[p]
  <2>1. c \in OrderCalls /\ UNCHANGED orders
    BY <1>t, <1>4 DEF ReadOrder
  <2>2. PICK status \in orderReplicas[c.order], amountFits \in BOOLEAN :
          orderCall' = [orderCall EXCEPT ![p] =
            IF o = "ok" /\ status \in Required(c.to) /\ (c.to = "refunded" => amountFits)
              THEN [c EXCEPT !.pc = "write"] ELSE OrderIdle]
    BY <1>4 DEF ReadOrder
  <2> DEFINE passes == o = "ok" /\ status \in Required(c.to) /\ (c.to = "refunded" => amountFits)
             d == IF passes THEN [c EXCEPT !.pc = "write"] ELSE OrderIdle
  <2>3. d.pc = "write" => d.order # id
    <3>1. CASE passes
      <4>1. status \notin Final
        BY <3>1 DEF Required, Final
      <4>2. c.order # id
        BY <1>t, <4>1
      <4> QED BY <2>1, <3>1, <4>2 DEF OrderCalls
    <3>2. CASE ~passes
      BY <3>2 DEF OrderIdle
    <3> QED BY <3>1, <3>2
  <2>4. orderCall' = [orderCall EXCEPT ![p] = d]
    BY <2>2
  <2> HIDE DEF passes, d
  <2> QED BY <1>t, <1>1, <1>4, <1>s, <2>1, <2>3, <2>4
<1>5. ASSUME NEW p \in Clients, NEW o \in Outcomes, UpdateOrderStatus(p, o),
             orderReplicas' = Shipped(orderReplicas, orders')
      PROVE  Settled(id)' /\ orders'[id] = orders[id]
  <2>1. orders' = IF o = "error" THEN orders
                  ELSE [orders EXCEPT ![orderCall[p].order] = orderCall[p].to]
    BY <1>5 DEF UpdateOrderStatus
  <2>2. orderCall[p].order # id
    BY <1>t, <1>5 DEF UpdateOrderStatus
  <2>3. orders'[id] = orders[id] /\ orders' \in [OrderIds -> Status]
    <3>1. orderCall[p] \in OrderCalls
      BY <1>t
    <3>2. orderCall[p].to \in Status
      BY <3>1 DEF OrderCalls, Status, Final
    <3> QED BY <1>t, <2>1, <2>2, <3>2
  <2>4. orderCall' = [orderCall EXCEPT ![p] = OrderIdle]
    BY <1>5 DEF UpdateOrderStatus
  <2>5. OrderIdle.pc # "write"
    BY DEF OrderIdle
  <2> QED BY <1>1, <1>5, <1>s, <2>3, <2>4, <2>5
<1>6. CASE ReplicateOrder
  <2>1. orderReplicas'[id] \subseteq orderReplicas[id] /\ UNCHANGED <<orders, orderCall>>
    BY <1>6, OrdersReplayed DEF OrderInv, ReplicateOrder
  <2> QED BY <1>t, <2>1 DEF Settled
<1>7. CASE OrderCrash
  <2>1. \A p \in Clients : orderCall'[p].pc # "write"
    BY <1>7 DEF OrderCrash, OrderIdle
  <2> QED BY <1>t, <1>7, <2>1 DEF OrderCrash, Settled
<1>8. CASE UNCHANGED orderVars
  BY <1>t, <1>8 DEF Settled, orderVars
<1> QED BY <1>2, <1>3, <1>4, <1>5, <1>6, <1>7, <1>8 DEF OrderStep, OrderWork

(* A cancelled or refunded order that no slave shows or has yet to replay  *)
(* in another state, and that no earlier payment, cancellation or refund   *)
(* is still to write, stays so for ever, whatever calls begin later and    *)
(* whichever slave each of them reads.                                     *)
THEOREM SettledOrdersStay == Spec => SettledStays
<1>1. OrderInv /\ [Next]_vars =>
        \A id \in OrderIds : Settled(id) => Settled(id)' /\ orders'[id] = orders[id]
  BY OrdersStep, SettledStep
<1>2. OrderInv /\ [Next]_vars =>
        [\A id \in OrderIds : Settled(id) => Settled(id)' /\ orders'[id] = orders[id]]_orderVars
  BY <1>1
<1> QED BY <1>2, OrderInvHolds, PTL DEF Spec, SettledStays
================================================================================
