------------------------------ MODULE ItemsProofs ------------------------------
(***************************************************************************)
(* GameServer, for any number of items, users and clients and requests of  *)
(* any quantity: no item goes below zero, and transfers neither make nor   *)
(* lose any quantity but by the events that the model names.               *)
(***************************************************************************)
EXTENDS OrdersProofs, FiniteSetTheorems

-------------------------------------------------------------------------------
(* The inductive invariant.                                                *)

GoodRow == [owner : Users, kind : Kinds, qty : Nat, tradable : BOOLEAN]

(* Neither the master nor any slave shows less than nothing of an item:    *)
(* the slaves matter, as rows read from them are saved whole.              *)
RowsInv   == items \in [ItemIds -> GoodRow \cup {NoRow}]
TablesInv == RowsInv /\ itemReplicas \in [ItemIds -> SUBSET (GoodRow \cup {NoRow})]

(* A call under way has an item, unless it creates one, and the row it has *)
(* read, if it is past the read.                                           *)
PastRead == {"save", "readUser", "take", "give", "undo"}

GoodCall ==
  {c \in ItemCall : /\ c.pc # "create" => c.item \in ItemIds
                    /\ c.pc \in PastRead => c.row \in GoodRow}

CallsInv == itemCall \in [Clients -> GoodCall \cup {ItemIdle}]

ItemInv == TablesInv /\ CallsInv

(* What a step of the whole server may do to the items.                    *)
ItemStep ==
  \/ \E p \in Clients :
       \/ createItem(p) \/ BatchCreateItems(p) \/ BeginTransfer(p)
       \/ \E first \in {"consume", "add", "delete", "readUpdate"} : BeginOn(p, first)
       \/ \E o \in Outcomes : ItemWork(p, o)
  \/ ReplicateItem
  \/ ItemCrash

LEMMA ItemsStep == [Next]_vars => ItemStep \/ UNCHANGED itemVars
<1> SUFFICES ASSUME [Next]_vars
             PROVE  ItemStep \/ UNCHANGED itemVars
  OBVIOUS
<1>1. CASE UNCHANGED vars
  BY <1>1 DEF vars
<1>2. ASSUME NEW g \in Games, UnregisterHandler(g) \/ RegisterHandler(g)
      PROVE  UNCHANGED itemVars
  BY <1>2 DEF UnregisterHandler, RegisterHandler
<1>3. ASSUME NEW p \in Clients, Request(p)
      PROVE  ItemStep \/ UNCHANGED itemVars
  BY <1>3 DEF Request, Route, ServiceCall, handleItemOperation, handleOrderOperation,
              ItemStep
<1>4. ASSUME NEW p \in Clients, NEW o \in Outcomes, Work(p, o)
      PROVE  ItemStep \/ UNCHANGED itemVars
  BY <1>4 DEF Work, ItemStep
<1>5. CASE Replicate
  BY <1>5 DEF Replicate, ItemStep
<1>6. CASE Crash
  BY <1>6 DEF Crash, ItemStep
<1> QED BY <1>1, <1>2, <1>3, <1>4, <1>5, <1>6 DEF Next

-------------------------------------------------------------------------------
LEMMA NoRowIsNoRow == NoRow \notin GoodRow /\ GoodRow \subseteq Row
<1>1. GoodRow \subseteq Row
  BY DEF GoodRow, Row
<1> QED BY <1>1, ItemConstants

LEMMA ItemInitInv == Init => ItemInv
<1> SUFFICES ASSUME Init PROVE ItemInv
  OBVIOUS
<1>1. /\ items \in Stocks /\ itemReplicas = Slaves(items) /\ itemCall = [p \in Clients |-> ItemIdle]
  BY DEF Init, ItemInit
<1>2. items \in [ItemIds -> Row \cup {NoRow}]
  BY <1>1, ItemConstants
<1>3. ASSUME NEW i \in ItemIds PROVE items[i] \in GoodRow \cup {NoRow}
  <2>1. items[i] \in Row \cup {NoRow} /\ (items[i] # NoRow => items[i].qty >= 0)
    BY <1>1, <1>2, ItemConstants
  <2> QED BY <2>1 DEF Row, GoodRow
<1>4. items \in [ItemIds -> GoodRow \cup {NoRow}]
  BY <1>2, <1>3
<1> QED BY <1>1, <1>4 DEF ItemInv, TablesInv, RowsInv, CallsInv, Slaves

-------------------------------------------------------------------------------
(* The call of p goes on as d.                                             *)
LEMMA CallBecomes ==
  ASSUME ItemInv, NEW p \in Clients, NEW d \in GoodCall \cup {ItemIdle},
         itemCall' = [itemCall EXCEPT ![p] = d]
  PROVE  CallsInv'
  BY DEF ItemInv, CallsInv

(* The call of p goes on to step, or ends.                                 *)
LEMMA CallGoesTo ==
  ASSUME ItemInv, NEW p \in Clients, itemCall[p] \in GoodCall,
         NEW step \in {"idle", "readUser", "take", "give", "undo"}, ItemGoto(p, step),
         step # "idle" => itemCall[p].item \in ItemIds /\ itemCall[p].row \in GoodRow
  PROVE  CallsInv'
<1> DEFINE d == IF step = "idle" THEN ItemIdle ELSE [itemCall[p] EXCEPT !.pc = step]
<1>1. d \in GoodCall \cup {ItemIdle}
  <2>1. CASE step = "idle"
    BY <2>1
  <2>2. CASE step # "idle"
    BY <2>2 DEF GoodCall, ItemCall, PastRead
  <2> QED BY <2>1, <2>2
<1>2. itemCall' = [itemCall EXCEPT ![p] = d]
  BY DEF ItemGoto
<1> HIDE DEF d
<1> QED BY <1>1, <1>2, CallBecomes

(* The row of i changes to another good one, or goes.                      *)
LEMMA RowBecomes ==
  ASSUME ItemInv, NEW i \in ItemIds, NEW r \in GoodRow \cup {NoRow},
         items' \in {items, [items EXCEPT ![i] = r]}
  PROVE  RowsInv'
  BY DEF ItemInv, TablesInv, RowsInv

(* Adding to a row, as AddItemQuantity does.                               *)
LEMMA AddKeepsRows ==
  ASSUME ItemInv, NEW i \in ItemIds, NEW q \in Nat, NEW o, Add(i, q, o)
  PROVE  RowsInv'
<1>1. CASE Exists(items, i)
  <2>1. items[i] \in GoodRow
    BY <1>1 DEF ItemInv, TablesInv, RowsInv, Exists
  <2>2. [items[i] EXCEPT !.qty = @ + q] \in GoodRow
    BY <2>1 DEF GoodRow
  <2>3. items' \in {items, [items EXCEPT ![i] = [items[i] EXCEPT !.qty = @ + q]]}
    BY <1>1 DEF Add
  <2> QED BY <2>2, <2>3, RowBecomes
<1>2. CASE ~Exists(items, i)
  BY <1>2 DEF Add, ItemInv, TablesInv, RowsInv
<1> QED BY <1>1, <1>2

(* Taking from a row, under the condition of the UPDATE.                   *)
LEMMA TakeKeepsRows ==
  ASSUME ItemInv, NEW i \in ItemIds, NEW q \in Nat, NEW done \in BOOLEAN,
         done => Enough(i, q),
         items' = IF done THEN [items EXCEPT ![i].qty = @ - q] ELSE items
  PROVE  RowsInv'
<1>1. CASE done
  <2>1. items[i] \in GoodRow /\ items[i].qty >= q
    BY <1>1 DEF ItemInv, TablesInv, RowsInv, Enough, Exists
  <2>2. [items[i] EXCEPT !.qty = @ - q] \in GoodRow
    BY <2>1 DEF GoodRow
  <2>3. items' = [items EXCEPT ![i] = [items[i] EXCEPT !.qty = @ - q]]
    BY <1>1
  <2> QED BY <2>2, <2>3, RowBecomes
<1>2. CASE ~done
  BY <1>2 DEF ItemInv, TablesInv, RowsInv
<1> QED BY <1>1, <1>2

-------------------------------------------------------------------------------
(* The beginning of a call.                                                *)
LEMMA BeginInv ==
  ASSUME ItemInv, NEW p \in Clients, NEW first \in {"create", "consume", "add", "delete",
                                                   "readUpdate", "readItem"},
         NEW i \in ItemIds \cup {NoId}, NEW u \in Users, NEW v \in Users, NEW k \in Kinds,
         NEW q \in Nat, NEW n \in Nat, ItemBegin(p, first, i, u, v, k, q, n),
         first # "create" => i \in ItemIds
  PROVE  ItemInv'
<1> DEFINE d == [pc |-> first, item |-> i, user |-> u, to |-> v, kind |-> k, q |-> q,
                 row |-> NoRow, other |-> NoId, left |-> n]
<1>1. d \in GoodCall
  BY DEF GoodCall, ItemCall, PastRead
<1>2. itemCall' = [itemCall EXCEPT ![p] = d] /\ UNCHANGED <<items, itemReplicas>>
  BY DEF ItemBegin
<1> HIDE DEF d
<1>3. CallsInv'
  BY <1>1, <1>2, CallBecomes
<1> QED BY <1>2, <1>3 DEF ItemInv, TablesInv, RowsInv

LEMMA AnyFields == AnyUser \in Users /\ AnyKind \in Kinds
  BY ItemConstants DEF AnyUser, AnyKind

LEMMA RequestInv ==
  ASSUME ItemInv, NEW p \in Clients,
         \/ createItem(p) \/ BatchCreateItems(p) \/ BeginTransfer(p)
         \/ \E first \in {"consume", "add", "delete", "readUpdate"} : BeginOn(p, first)
  PROVE  ItemInv'
<1>1. ASSUME NEW n \in {1, 2}, BeginCreate(p, n) PROVE ItemInv'
  <2>1. PICK u \in Users, k \in Kinds, q \in NewQuantities :
          ItemBegin(p, "create", NoId, u, u, k, q, n)
    BY <1>1 DEF BeginCreate
  <2>2. q \in Nat /\ n \in Nat
    BY ItemConstants
  <2> QED BY <2>1, <2>2, BeginInv
<1>2. ASSUME BeginTransfer(p) PROVE ItemInv'
  <2>1. PICK i \in ItemIds, u \in Users, v \in Users, q \in Quantities :
          ItemBegin(p, "readItem", i, u, v, AnyKind, q, 1)
    BY <1>2 DEF BeginTransfer
  <2>2. q \in Nat /\ AnyKind \in Kinds
    BY ItemConstants, AnyFields
  <2> QED BY <2>1, <2>2, BeginInv
<1>3. ASSUME NEW first \in {"consume", "add", "delete", "readUpdate"}, BeginOn(p, first)
      PROVE  ItemInv'
  <2>1. PICK i \in ItemIds, q \in Quantities :
          ItemBegin(p, first, i, AnyUser, AnyUser, AnyKind, q, 1)
    BY <1>3 DEF BeginOn
  <2>2. q \in Nat
    BY ItemConstants
  <2> QED BY <2>1, <2>2, AnyFields, BeginInv
<1> QED BY <1>1, <1>2, <1>3 DEF createItem, BatchCreateItems

-------------------------------------------------------------------------------
(* A call at a statement other than the insertion has an item, and its     *)
(* row once it has been read.                                              *)
LEMMA AtStatement ==
  ASSUME ItemInv, NEW p \in Clients, itemCall[p].pc # "idle"
  PROVE  /\ itemCall[p] \in GoodCall
         /\ itemCall[p].q \in Nat /\ itemCall[p].user \in Users /\ itemCall[p].to \in Users
         /\ itemCall[p].kind \in Kinds /\ itemCall[p].other \in ItemIds \cup {NoId}
         /\ itemCall[p].left \in Nat
         /\ itemCall[p].pc # "create" => itemCall[p].item \in ItemIds
         /\ itemCall[p].pc \in PastRead => itemCall[p].row \in GoodRow
<1>1. itemCall[p] \in GoodCall
  BY DEF ItemInv, CallsInv, ItemIdle
<1> QED BY <1>1 DEF GoodCall, ItemCall

LEMMA StatementInv ==
  ASSUME ItemInv, NEW p \in Clients, NEW o \in Outcomes, ItemStatement(p, o)
  PROVE  RowsInv' /\ CallsInv'
<1> DEFINE c == itemCall[p]
<1>1. CASE CreateItem(p, o)
  <2> DEFINE row == [owner |-> c.user, kind |-> c.kind, tradable |-> TRUE,
                     qty |-> IF c.q = 0 THEN 1 ELSE c.q]
  <2>1. c.pc = "create"
    BY <1>1 DEF CreateItem
  <2>2. PICK i \in ItemIds, done \in BOOLEAN :
          /\ items' = IF done THEN [items EXCEPT ![i] = row] ELSE items
          /\ itemCall' = [itemCall EXCEPT ![p] =
               IF done /\ o = "ok" /\ c.left > 1 THEN [c EXCEPT !.left = @ - 1] ELSE ItemIdle]
    <3>1. PICK i \in ItemIds :
            LET done == Free(i) /\ o # "error"
            IN  /\ items' = IF done THEN [items EXCEPT ![i] = row] ELSE items
                /\ itemCall' = [itemCall EXCEPT ![p] =
                     IF done /\ o = "ok" /\ c.left > 1 THEN [c EXCEPT !.left = @ - 1]
                     ELSE ItemIdle]
      BY <1>1 DEF CreateItem
    <3> QED BY <3>1
  <2>3. row \in GoodRow
    BY <2>1, AtStatement DEF GoodRow
  <2>4. RowsInv'
    BY <2>1, <2>2, <2>3, RowBecomes
  <2>5. CASE c.left > 1
    <3>1. c \in GoodCall /\ c.left \in Nat
      BY <2>1, AtStatement
    <3>2. [c EXCEPT !.left = @ - 1] \in GoodCall
      BY <2>1, <2>5, <3>1 DEF GoodCall, ItemCall, PastRead
    <3>3. CallsInv'
      BY <2>2, <3>2, CallBecomes
    <3> QED BY <2>4, <3>3
  <2>6. CASE ~(c.left > 1)
    <3>1. itemCall' = [itemCall EXCEPT ![p] = ItemIdle]
      BY <2>2, <2>6
    <3>2. CallsInv'
      BY <3>1, CallBecomes
    <3> QED BY <2>4, <3>2
  <2> QED BY <2>5, <2>6
<1>2. CASE ConsumeItem(p, o)
  <2>1. /\ c.pc = "consume" /\ ItemGoto(p, "idle")
        /\ items' = IF Enough(c.item, c.q) /\ o # "error"
                      THEN [items EXCEPT ![c.item].qty = @ - c.q] ELSE items
    BY <1>2 DEF ConsumeItem
  <2>2. c \in GoodCall /\ c.item \in ItemIds /\ c.q \in Nat
    BY <2>1, AtStatement
  <2> DEFINE done == Enough(c.item, c.q) /\ o # "error"
  <2>3. done \in BOOLEAN /\ (done => Enough(c.item, c.q))
    OBVIOUS
  <2>4. items' = IF done THEN [items EXCEPT ![c.item].qty = @ - c.q] ELSE items
    BY <2>1
  <2> HIDE DEF done
  <2>5. RowsInv'
    BY <2>1, <2>2, <2>3, <2>4, TakeKeepsRows
  <2>6. CallsInv'
    BY <2>1, <2>2, CallGoesTo
  <2> QED BY <2>5, <2>6
<1>3. CASE AddItemQuantity(p, o)
  <2>1. c.pc = "add" /\ ItemGoto(p, "idle") /\ Add(c.item, c.q, o)
    BY <1>3 DEF AddItemQuantity
  <2>2. c \in GoodCall /\ c.item \in ItemIds /\ c.q \in Nat
    BY <2>1, AtStatement
  <2>3. RowsInv'
    BY <2>1, <2>2, AddKeepsRows
  <2>4. CallsInv'
    BY <2>1, <2>2, CallGoesTo
  <2> QED BY <2>3, <2>4
<1>4. CASE DeleteItem(p, o)
  <2>1. /\ c.pc = "delete" /\ ItemGoto(p, "idle")
        /\ items' \in {items, [items EXCEPT ![c.item] = NoRow]}
    BY <1>4 DEF DeleteItem
  <2>2. c \in GoodCall /\ c.item \in ItemIds
    BY <2>1, AtStatement
  <2>3. RowsInv'
    BY <2>1, <2>2, RowBecomes
  <2>4. CallsInv'
    BY <2>1, <2>2, CallGoesTo
  <2> QED BY <2>3, <2>4
<1>5. CASE ReadForUpdate(p, o)
  <2>1. c.pc = "readUpdate" /\ UNCHANGED items
    BY <1>5 DEF ReadForUpdate
  <2>2. c \in GoodCall /\ c.item \in ItemIds
    BY <2>1, AtStatement
  <2>3. RowsInv'
    BY <2>1 DEF ItemInv, TablesInv, RowsInv
  <2>4. PICK row \in itemReplicas[c.item] :
          IF o = "ok" /\ row # NoRow
            THEN \E k \in Kinds : itemCall' = [itemCall EXCEPT ![p] =
                   [c EXCEPT !.pc = "save", !.row = [row EXCEPT !.kind = k]]]
            ELSE ItemGoto(p, "idle")
    BY <1>5 DEF ReadForUpdate
  <2>5. CASE o = "ok" /\ row # NoRow
    <3>1. PICK k \in Kinds : itemCall' = [itemCall EXCEPT ![p] =
            [c EXCEPT !.pc = "save", !.row = [row EXCEPT !.kind = k]]]
      BY <2>4, <2>5
    <3>2. row \in GoodRow
      BY <2>2, <2>5 DEF ItemInv, TablesInv
    <3>3. [row EXCEPT !.kind = k] \in GoodRow
      BY <3>2 DEF GoodRow
    <3> DEFINE d == [c EXCEPT !.pc = "save", !.row = [row EXCEPT !.kind = k]]
    <3>4. d \in GoodCall
      BY <2>2, <3>3, NoRowIsNoRow DEF GoodCall, ItemCall, PastRead
    <3>5. CallsInv'
      BY <3>1, <3>4, CallBecomes
    <3> QED BY <2>3, <3>5
  <2>6. CASE ~(o = "ok" /\ row # NoRow)
    <3>1. ItemGoto(p, "idle")
      BY <2>4, <2>6
    <3>2. CallsInv'
      BY <2>2, <3>1, CallGoesTo
    <3> QED BY <2>3, <3>2
  <2> QED BY <2>5, <2>6
<1>6. CASE SaveItem(p, o)
  <2>1. /\ c.pc = "save" /\ ItemGoto(p, "idle")
        /\ items' \in {items, [items EXCEPT ![c.item] = c.row]}
    BY <1>6 DEF SaveItem
  <2>2. c \in GoodCall /\ c.item \in ItemIds /\ c.row \in GoodRow
    BY <2>1, AtStatement DEF PastRead
  <2>3. RowsInv'
    BY <2>1, <2>2, RowBecomes
  <2>4. CallsInv'
    BY <2>1, <2>2, CallGoesTo
  <2> QED BY <2>3, <2>4
<1>7. CASE ReadItem(p, o)
  <2> DEFINE Allowed(row) ==
               row # NoRow /\ row.owner = c.user /\ row.qty >= c.q /\ row.tradable
  <2>1. c.pc = "readItem" /\ UNCHANGED items
    BY <1>7 DEF ReadItem
  <2>2. c \in GoodCall /\ c.item \in ItemIds
    BY <2>1, AtStatement
  <2>3. RowsInv'
    BY <2>1 DEF ItemInv, TablesInv, RowsInv
  <2>4. PICK row \in itemReplicas[c.item] :
          IF o = "ok" /\ Allowed(row)
            THEN itemCall' = [itemCall EXCEPT ![p] = [c EXCEPT !.pc = "readUser", !.row = row]]
            ELSE ItemGoto(p, "idle")
    BY <1>7 DEF ReadItem
  <2>5. CASE o = "ok" /\ Allowed(row)
    <3>1. row \in GoodRow
      BY <2>2, <2>5 DEF ItemInv, TablesInv
    <3> DEFINE d == [c EXCEPT !.pc = "readUser", !.row = row]
    <3>2. itemCall' = [itemCall EXCEPT ![p] = d]
      BY <2>4, <2>5
    <3>3. d \in GoodCall
      BY <2>2, <3>1, NoRowIsNoRow DEF GoodCall, ItemCall, PastRead
    <3> HIDE DEF d
    <3>4. CallsInv'
      BY <3>2, <3>3, CallBecomes
    <3> QED BY <2>3, <3>4
  <2>6. CASE ~(o = "ok" /\ Allowed(row))
    <3>1. ItemGoto(p, "idle")
      BY <2>4, <2>6
    <3>2. CallsInv'
      BY <2>2, <3>1, CallGoesTo
    <3> QED BY <2>3, <3>2
  <2> QED BY <2>5, <2>6
<1>8. CASE ReadUserItems(p, o)
  <2>1. c.pc = "readUser" /\ UNCHANGED items
    BY <1>8 DEF ReadUserItems
  <2>2. c \in GoodCall /\ c.item \in ItemIds /\ c.row \in GoodRow
    BY <2>1, AtStatement DEF PastRead
  <2>3. RowsInv'
    BY <2>1 DEF ItemInv, TablesInv, RowsInv
  <2>4. CASE o = "ok"
    <3>1. PICK i \in Receivers(c) :
            itemCall' = [itemCall EXCEPT ![p] = [c EXCEPT !.pc = "take", !.other = i]]
      BY <1>8, <2>4 DEF ReadUserItems
    <3>2. i \in ItemIds \cup {NoId}
      BY DEF Receivers
    <3>3. [c EXCEPT !.pc = "take", !.other = i] \in GoodCall
      BY <2>2, <3>2 DEF GoodCall, ItemCall, PastRead
    <3>4. CallsInv'
      BY <3>1, <3>3, CallBecomes
    <3> QED BY <2>3, <3>4
  <2>5. CASE o # "ok"
    <3>1. ItemGoto(p, "idle")
      BY <1>8, <2>5 DEF ReadUserItems
    <3>2. CallsInv'
      BY <2>2, <3>1, CallGoesTo
    <3> QED BY <2>3, <3>2
  <2> QED BY <2>4, <2>5
<1>9. CASE TakeFromSender(p, o)
  <2> DEFINE done == Enough(c.item, c.q) /\ o # "error"
  <2>1. /\ c.pc = "take"
        /\ ItemGoto(p, IF done /\ o = "ok" THEN "give" ELSE "idle")
        /\ items' = IF done THEN [items EXCEPT ![c.item].qty = @ - c.q] ELSE items
    BY <1>9 DEF TakeFromSender
  <2>2. done \in BOOLEAN /\ (done => Enough(c.item, c.q))
    OBVIOUS
  <2>3. c \in GoodCall /\ c.item \in ItemIds /\ c.q \in Nat /\ c.row \in GoodRow
    BY <2>1, AtStatement DEF PastRead
  <2> HIDE DEF done
  <2>4. RowsInv'
    BY <2>1, <2>2, <2>3, TakeKeepsRows
  <2>5. CallsInv'
    BY <2>1, <2>3, CallGoesTo
  <2> QED BY <2>4, <2>5
<1>10. CASE GiveToItem(p, o)
  <2>1. /\ c.pc = "give" /\ c.other # NoId /\ Add(c.other, c.q, o)
        /\ ItemGoto(p, AfterGift(o = "ok"))
    BY <1>10 DEF GiveToItem
  <2>2. /\ c \in GoodCall /\ c.item \in ItemIds /\ c.q \in Nat /\ c.row \in GoodRow
        /\ c.other \in ItemIds
    BY <2>1, AtStatement DEF PastRead
  <2>3. RowsInv'
    BY <2>1, <2>2, AddKeepsRows
  <2>4. CallsInv'
    BY <2>1, <2>2, CallGoesTo DEF AfterGift
  <2> QED BY <2>3, <2>4
<1>11. CASE GiveAsNewItem(p, o)
  <2> DEFINE gift == [c.row EXCEPT !.owner = c.to, !.qty = c.q]
  <2>1. PICK i \in ItemIds :
          /\ items' = IF Free(i) /\ o # "error" THEN [items EXCEPT ![i] = gift] ELSE items
          /\ ItemGoto(p, AfterGift(Free(i) /\ o = "ok"))
    BY <1>11 DEF GiveAsNewItem
  <2>2. c.pc = "give"
    BY <1>11 DEF GiveAsNewItem
  <2>3. /\ c \in GoodCall /\ c.item \in ItemIds /\ c.q \in Nat /\ c.row \in GoodRow
        /\ c.to \in Users
    BY <2>2, AtStatement DEF PastRead
  <2>4. gift \in GoodRow
    BY <2>3 DEF GoodRow
  <2>5. items' \in {items, [items EXCEPT ![i] = gift]}
    BY <2>1
  <2> HIDE DEF gift
  <2>6. RowsInv'
    BY <2>2, <2>4, <2>5, RowBecomes
  <2>7. CallsInv'
    BY <2>1, <2>3, CallGoesTo DEF AfterGift
  <2> QED BY <2>6, <2>7
<1>12. CASE UndoTake(p, o)
  <2>1. c.pc = "undo" /\ ItemGoto(p, "idle") /\ Add(c.item, c.q, o)
    BY <1>12 DEF UndoTake
  <2>2. c \in GoodCall /\ c.item \in ItemIds /\ c.q \in Nat
    BY <2>1, AtStatement
  <2>3. RowsInv'
    BY <2>1, <2>2, AddKeepsRows
  <2>4. CallsInv'
    BY <2>1, <2>2, CallGoesTo
  <2> QED BY <2>3, <2>4
<1> QED BY <1>1, <1>2, <1>3, <1>4, <1>5, <1>6, <1>7, <1>8, <1>9, <1>10, <1>11, <1>12
        DEF ItemStatement

(* With the rows of the master good, those shipped to the slaves are too.  *)
LEMMA WorkInv ==
  ASSUME ItemInv, NEW p \in Clients, NEW o \in Outcomes, ItemWork(p, o)
  PROVE  ItemInv'
<1>1. RowsInv' /\ CallsInv'
  BY StatementInv DEF ItemWork
<1>2. itemReplicas' = Shipped(itemReplicas, items')
  BY DEF ItemWork
<1>3. itemReplicas' \in [ItemIds -> SUBSET (GoodRow \cup {NoRow})]
  BY <1>1, <1>2 DEF ItemInv, TablesInv, RowsInv, Shipped
<1> QED BY <1>1, <1>3 DEF ItemInv, TablesInv

LEMMA ItemNextInv == ItemInv /\ [Next]_vars => ItemInv'
<1> SUFFICES ASSUME ItemInv, [Next]_vars PROVE ItemInv'
  OBVIOUS
<1>1. CASE UNCHANGED itemVars
  BY <1>1 DEF itemVars, ItemInv, TablesInv, RowsInv, CallsInv
<1>2. CASE ReplicateItem
  <2>1. UNCHANGED <<items, itemCall>>
    BY <1>2 DEF ReplicateItem
  <2>2. PICK i \in ItemIds :
          \E old : itemReplicas' = [itemReplicas EXCEPT ![i] = @ \ {old}]
    BY <1>2 DEF ReplicateItem, Outdated, Replayed
  <2>3. itemReplicas' \in [ItemIds -> SUBSET (GoodRow \cup {NoRow})]
    BY <2>2 DEF ItemInv, TablesInv
  <2> QED BY <2>1, <2>3 DEF ItemInv, TablesInv, RowsInv, CallsInv
<1>3. CASE ItemCrash
  BY <1>3 DEF ItemCrash, ItemInv, TablesInv, RowsInv, CallsInv
<1>4. ItemStep \/ UNCHANGED itemVars
  BY ItemsStep
<1> QED BY <1>1, <1>2, <1>3, <1>4, RequestInv, WorkInv DEF ItemStep

-------------------------------------------------------------------------------
(* Sums over finite sets.                                                  *)

(* The element a sum over s adds first, and what it is by MapThenSumSet:   *)
(* a function g that gives the sum over each subset of S.                  *)
First(s) == CHOOSE x \in s : TRUE

Sums(w, S, g) ==
  g = [s \in SUBSET S |-> IF s = {} THEN 0 ELSE w[First(s)] + g[s \ {First(s)}]]

Total(w, S) == MapThenSumSet(LAMBDA x : w[x], S)

(* A property that some subset of a finite set has, a least subset has.    *)
LEMMA LeastSubset ==
  ASSUME NEW S, IsFiniteSet(S), NEW B \in SUBSET SUBSET S, B # {}
  PROVE  \E m \in B : \A u \in B : u \subseteq m => u = m
<1>1. IsWellFoundedOn(StrictSubsetOrdering(S), SUBSET S)
  BY FS_StrictSubsetOrderingWellFounded, FS_FiniteSubsetsOfFinite
<1>2. PICK m \in B : \A u \in B : ~(<<u, m>> \in StrictSubsetOrdering(S))
  BY <1>1, WFMin
<1> QED BY <1>2 DEF StrictSubsetOrdering

LEMMA FirstIsIn == \A s : s # {} => First(s) \in s
  BY DEF First

LEMMA SumsAt ==
  ASSUME NEW w, NEW S, NEW g, Sums(w, S, g), NEW s \in SUBSET S
  PROVE  g[s] = IF s = {} THEN 0 ELSE w[First(s)] + g[s \ {First(s)}]
<1> DEFINE step(t) == IF t = {} THEN 0 ELSE w[First(t)] + g[t \ {First(t)}]
<1>1. g = [t \in SUBSET S |-> step(t)]
  BY DEF Sums
<1>2. g[s] = step(s)
  <2> HIDE DEF step
  <2> QED BY <1>1
<1> QED BY <1>2

(* Sums of weights that agree are equal.                                   *)
LEMMA SumsAgree ==
  ASSUME NEW S, IsFiniteSet(S), NEW w, NEW v, NEW g, NEW h, NEW R, NEW T, Sums(w, R, g), Sums(v, T, h),
         S \subseteq R, S \subseteq T, \A x \in S : w[x] = v[x]
  PROVE  g[S] = h[S]
<1> SUFFICES ASSUME g[S] # h[S] PROVE FALSE
  OBVIOUS
<1> DEFINE B == {s \in SUBSET S : g[s] # h[s]}
<1>1. PICK m \in B : \A u \in B : u \subseteq m => u = m
  <2>1. S \in B
    OBVIOUS
  <2> HIDE DEF B
  <2>2. B \in SUBSET SUBSET S
    BY DEF B
  <2> QED BY <2>1, <2>2, LeastSubset
<1>2. /\ g[m] = IF m = {} THEN 0 ELSE w[First(m)] + g[m \ {First(m)}]
      /\ h[m] = IF m = {} THEN 0 ELSE v[First(m)] + h[m \ {First(m)}]
  <2>1. m \in SUBSET R /\ m \in SUBSET T
    OBVIOUS
  <2> QED BY <2>1, SumsAt
<1>3. m # {}
  BY <1>2
<1>4. First(m) \in m
  BY <1>3, FirstIsIn
<1>5. g[m \ {First(m)}] = h[m \ {First(m)}]
  BY <1>1, <1>4
<1>6. w[First(m)] = v[First(m)]
  BY <1>4
<1> QED BY <1>2, <1>5, <1>6

LEMMA SumsExist ==
  ASSUME NEW S, IsFiniteSet(S), NEW w
  PROVE  \E g : Sums(w, S, g)
<1> DEFINE Has(T) == \E g : Sums(w, T, g)
           B == {T \in SUBSET S : ~Has(T)}
<1> SUFFICES ASSUME ~Has(S) PROVE FALSE
  OBVIOUS
<1>1. PICK T \in B : \A U \in B : U \subseteq T => U = T
  <2>1. S \in B
    OBVIOUS
  <2> HIDE DEF B
  <2>2. B \in SUBSET SUBSET S
    BY DEF B
  <2> QED BY <2>1, <2>2, LeastSubset
<1> DEFINE G(U) == CHOOSE g : Sums(w, U, g)
           before(s) == G(s \ {First(s)})[s \ {First(s)}]
           step(s) == IF s = {} THEN 0 ELSE w[First(s)] + before(s)
           h == [s \in SUBSET T |-> step(s)]
<1>2. ASSUME NEW U \in SUBSET T, U # T
      PROVE  Sums(w, U, G(U)) /\ IsFiniteSet(U)
  <2>1. Has(U)
    BY <1>1, <1>2
  <2> HIDE DEF Has
  <2>2. Sums(w, U, G(U))
    BY <2>1 DEF Has
  <2> HIDE DEF G
  <2> QED BY <2>2, FS_Subset
<1>3. ASSUME NEW U \in SUBSET T, U # T
      PROVE  h[U] = G(U)[U]
  <2>1. h[U] = step(U)
    <3> HIDE DEF step
    <3> QED OBVIOUS
  <2>2. Sums(w, U, G(U))
    BY <1>2, <1>3
  <2> HIDE DEF h, G
  <2>3. G(U)[U] = IF U = {} THEN 0 ELSE w[First(U)] + G(U)[U \ {First(U)}]
    BY <2>2, SumsAt
  <2>4. CASE U = {}
    BY <2>1, <2>3, <2>4
  <2>5. CASE U # {}
    <3> DEFINE V == U \ {First(U)}
    <3>1. First(U) \in U
      BY <2>5, FirstIsIn
    <3>2. V \in SUBSET T /\ V # T /\ V \subseteq U
      BY <3>1, <1>3
    <3>3. Sums(w, V, G(V)) /\ IsFiniteSet(V)
      BY <1>2, <3>2
    <3>4. G(U)[V] = G(V)[V]
      <4> HIDE DEF V
      <4> QED BY <2>2, <3>2, <3>3, SumsAgree
    <3> QED BY <2>1, <2>3, <2>5, <3>4
  <2> QED BY <2>4, <2>5
<1>4. ASSUME NEW s \in SUBSET T
      PROVE  step(s) = IF s = {} THEN 0 ELSE w[First(s)] + h[s \ {First(s)}]
  <2>1. CASE s = {}
    BY <2>1
  <2>2. CASE s # {}
    <3> DEFINE V == s \ {First(s)}
    <3>1. First(s) \in s
      BY <2>2, FirstIsIn
    <3>2. V \in SUBSET T /\ V # T
      BY <3>1
    <3> HIDE DEF h, G
    <3>3. h[V] = G(V)[V]
      <4> HIDE DEF V
      <4> QED BY <1>3, <3>2
    <3> QED BY <2>2, <3>3
  <2> QED BY <2>1, <2>2
<1>5. h = [s \in SUBSET T |-> IF s = {} THEN 0 ELSE w[First(s)] + h[s \ {First(s)}]]
  <2> DEFINE after(s) == IF s = {} THEN 0 ELSE w[First(s)] + h[s \ {First(s)}]
  <2>1. \A s \in SUBSET T : step(s) = after(s)
    BY <1>4
  <2>2. h = [s \in SUBSET T |-> after(s)]
    <3> HIDE DEF step, after
    <3> QED BY <2>1
  <2> HIDE DEF h
  <2> QED BY <2>2
<1>6. Sums(w, T, h)
  <2> HIDE DEF h
  <2> QED BY <1>5 DEF Sums
<1>7. Has(T)
  <2> HIDE DEF h
  <2> QED BY <1>6
<1> QED BY <1>1, <1>7

(* The total of a finite set is what such a function gives it.             *)
LEMMA TotalIs ==
  ASSUME NEW S, IsFiniteSet(S), NEW w
  PROVE  \E g : Sums(w, S, g) /\ Total(w, S) = g[S]
<1> DEFINE g == CHOOSE f : Sums(w, S, f)
<1>1. Sums(w, S, g)
  BY SumsExist
<1>2. Total(w, S) = g[S]
  BY DEF Total, MapThenSumSet, MapThenFoldSet, Sums, First
<1> HIDE DEF g
<1> QED BY <1>1, <1>2

LEMMA TotalSame ==
  ASSUME NEW S, IsFiniteSet(S), NEW w, NEW v, \A x \in S : w[x] = v[x]
  PROVE  Total(w, S) = Total(v, S)
<1>1. PICK g : Sums(w, S, g) /\ Total(w, S) = g[S]
  BY TotalIs
<1>2. PICK h : Sums(v, S, h) /\ Total(v, S) = h[S]
  BY TotalIs
<1> QED BY <1>1, <1>2, SumsAgree

LEMMA TotalSmaller ==
  ASSUME NEW S, IsFiniteSet(S), NEW w, NEW g, Sums(w, S, g), NEW T \in SUBSET S
  PROVE  Total(w, T) = g[T]
<1>1. IsFiniteSet(T)
  BY FS_Subset
<1>2. PICK h : Sums(w, T, h) /\ Total(w, T) = h[T]
  BY <1>1, TotalIs
<1> QED BY <1>1, <1>2, SumsAgree

LEMMA TotalFirst ==
  ASSUME NEW S, IsFiniteSet(S), NEW w
  PROVE  Total(w, S) = IF S = {} THEN 0 ELSE w[First(S)] + Total(w, S \ {First(S)})
<1>1. PICK g : Sums(w, S, g) /\ Total(w, S) = g[S]
  BY TotalIs
<1>2. Total(w, S \ {First(S)}) = g[S \ {First(S)}]
  <2>1. S \ {First(S)} \in SUBSET S
    OBVIOUS
  <2> QED BY <1>1, <2>1, TotalSmaller
<1> QED BY <1>1, <1>2, SumsAt

(* Sums of naturals are naturals.                                          *)
LEMMA TotalType ==
  ASSUME NEW S, IsFiniteSet(S), NEW w, \A x \in S : w[x] \in Nat
  PROVE  Total(w, S) \in Nat
<1> DEFINE B == {s \in SUBSET S : Total(w, s) \notin Nat}
<1> SUFFICES ASSUME S \in B PROVE FALSE
  OBVIOUS
<1>1. PICK m \in B : \A u \in B : u \subseteq m => u = m
  <2> HIDE DEF B
  <2>1. B \in SUBSET SUBSET S
    BY DEF B
  <2> QED BY <2>1, LeastSubset
<1>2. IsFiniteSet(m)
  BY FS_Subset
<1>3. Total(w, m) = IF m = {} THEN 0 ELSE w[First(m)] + Total(w, m \ {First(m)})
  BY <1>2, TotalFirst
<1>4. m # {} /\ First(m) \in m
  BY <1>3, FirstIsIn
<1>5. Total(w, m \ {First(m)}) \in Nat /\ w[First(m)] \in Nat
  BY <1>1, <1>4
<1> QED BY <1>3, <1>4, <1>5

(* Any element may be added last.                                          *)
LEMMA TotalOne ==
  ASSUME NEW S, IsFiniteSet(S), NEW w, \A x \in S : w[x] \in Nat
  PROVE  \A x \in S : Total(w, S) = w[x] + Total(w, S \ {x})
<1> DEFINE B == {s \in SUBSET S : \E x \in s : Total(w, s) # w[x] + Total(w, s \ {x})}
<1> SUFFICES ASSUME S \in B PROVE FALSE
  OBVIOUS
<1>1. PICK m \in B : \A u \in B : u \subseteq m => u = m
  <2> HIDE DEF B
  <2>1. B \in SUBSET SUBSET S
    BY DEF B
  <2> QED BY <2>1, LeastSubset
<1>2. PICK x \in m : Total(w, m) # w[x] + Total(w, m \ {x})
  OBVIOUS
<1> DEFINE y == First(m)
<1>3. y \in m /\ m \subseteq S
  BY FirstIsIn
<1>4. /\ IsFiniteSet(m) /\ IsFiniteSet(m \ {x, y})
  BY <1>3, FS_Subset
<1>5. Total(w, m) = w[y] + Total(w, m \ {y})
  BY <1>3, <1>4, TotalFirst
<1> HIDE DEF y
<1>6. y # x
  BY <1>2, <1>5
<1>7. ASSUME NEW u \in m, NEW v \in m, u # v
      PROVE  Total(w, m \ {u}) = w[v] + Total(w, m \ {u, v})
  <2>1. m \ {u} \notin B
    BY <1>1
  <2>2. v \in m \ {u} /\ m \ {u} \in SUBSET S /\ (m \ {u}) \ {v} = m \ {u, v}
    BY <1>7
  <2> QED BY <2>1, <2>2
<1>8. /\ Total(w, m \ {y}) = w[x] + Total(w, m \ {x, y})
      /\ Total(w, m \ {x}) = w[y] + Total(w, m \ {x, y})
  <2>1. m \ {y, x} = m \ {x, y}
    OBVIOUS
  <2> QED BY <1>3, <1>6, <1>7, <2>1
<1>9. w[x] \in Nat /\ w[y] \in Nat /\ Total(w, m \ {x, y}) \in Nat
  BY <1>3, <1>4, TotalType
<1> QED BY <1>2, <1>5, <1>8, <1>9

(* Changing one weight, or whether it counts, changes the sum by so much.  *)
Counted(w, S, x) == IF x \in S THEN w[x] ELSE 0

LEMMA TotalChanges ==
  ASSUME NEW S, IsFiniteSet(S), NEW T, IsFiniteSet(T), NEW w, NEW v, NEW x,
         \A y \in S : w[y] \in Nat, \A y \in T : v[y] \in Nat,
         S \ {x} = T \ {x}, \A y \in S \ {x} : w[y] = v[y]
  PROVE  /\ Total(w, S) \in Nat /\ Total(v, T) \in Nat
         /\ Total(v, T) = Total(w, S) - Counted(w, S, x) + Counted(v, T, x)
<1>1. IsFiniteSet(S \ {x})
  BY FS_RemoveElement
<1>2. Total(w, S \ {x}) = Total(v, T \ {x}) /\ Total(w, S \ {x}) \in Nat
  BY <1>1, TotalSame, TotalType
<1>3. /\ Total(w, S) = Counted(w, S, x) + Total(w, S \ {x}) /\ Counted(w, S, x) \in Nat
  <2>1. CASE x \in S
    BY <2>1, TotalOne DEF Counted
  <2>2. CASE x \notin S
    <3>1. S \ {x} = S
      BY <2>2
    <3> QED BY <1>2, <2>2, <3>1 DEF Counted
  <2> QED BY <2>1, <2>2
<1>4. /\ Total(v, T) = Counted(v, T, x) + Total(v, T \ {x}) /\ Counted(v, T, x) \in Nat
  <2>1. CASE x \in T
    BY <2>1, TotalOne DEF Counted
  <2>2. CASE x \notin T
    <3>1. T \ {x} = T /\ Counted(v, T, x) = 0
      BY <2>2 DEF Counted
    <3>2. Total(v, T) \in Nat
      BY TotalType
    <3> QED BY <3>1, <3>2
  <2> QED BY <2>1, <2>2
<1> QED BY <1>2, <1>3, <1>4

(* The sums of the model are totals.                                       *)
Existing(table) == {i \in ItemIds : Exists(table, i)}
Stocked(table) == [i \in ItemIds |-> table[i].qty]
Holding(c) == c.pc \in {"give", "undo"}
Holders(calling) == {p \in Clients : Holding(calling[p])}
Hands(calling) == [p \in Clients |-> calling[p].q]
InHandsOf(calling) == MapThenSumSet(LAMBDA p : calling[p].q, Holders(calling))

LEMMA QuantityIsTotal ==
  ASSUME NEW table
  PROVE  Quantity(table) = Total(Stocked(table), Existing(table)) /\ IsFiniteSet(Existing(table))
<1> DEFINE w == Stocked(table)
           all == Existing(table)
           ByRows(g) == g = [s \in SUBSET all |->
                               IF s = {} THEN 0 ELSE table[First(s)].qty + g[s \ {First(s)}]]
           sum == CHOOSE g : ByRows(g)
<1>1. IsFiniteSet(all) /\ all \subseteq ItemIds
  BY ItemConstants, FS_Subset DEF Existing
<1>2. ASSUME NEW g PROVE Sums(w, all, g) <=> ByRows(g)
  <2> DEFINE f1(s) == IF s = {} THEN 0 ELSE w[First(s)] + g[s \ {First(s)}]
             f2(s) == IF s = {} THEN 0 ELSE table[First(s)].qty + g[s \ {First(s)}]
  <2>1. \A s \in SUBSET all : f1(s) = f2(s)
    BY <1>1, FirstIsIn DEF Stocked
  <2>2. [s \in SUBSET all |-> f1(s)] = [s \in SUBSET all |-> f2(s)]
    <3> HIDE DEF f1, f2, all
    <3> QED BY <2>1
  <2> QED BY <2>2 DEF Sums
<1>3. Quantity(table) = sum[all]
  BY DEF Quantity, MapThenSumSet, MapThenFoldSet, First, Existing, Exists
<1> HIDE DEF w, all, ByRows
<1>4. \E g : Sums(w, all, g)
  BY <1>1, SumsExist
<1>5. ByRows(sum)
  BY <1>2, <1>4
<1>6. Sums(w, all, sum)
  <2> HIDE DEF sum
  <2> QED BY <1>2, <1>5
<1> HIDE DEF sum
<1> QED BY <1>1, <1>3, <1>6, TotalSmaller DEF w, all

LEMMA InHandIsTotal ==
  ASSUME NEW table
  PROVE  InHandsOf(table) = Total(Hands(table), Holders(table)) /\ IsFiniteSet(Holders(table))
<1> DEFINE w == Hands(table)
           all == Holders(table)
           ByRows(g) == g = [s \in SUBSET all |->
                               IF s = {} THEN 0 ELSE table[First(s)].q + g[s \ {First(s)}]]
           sum == CHOOSE g : ByRows(g)
<1>1. IsFiniteSet(all) /\ all \subseteq Clients
  BY FiniteClients, FS_Subset DEF Holders
<1>2. ASSUME NEW g PROVE Sums(w, all, g) <=> ByRows(g)
  <2> DEFINE f1(s) == IF s = {} THEN 0 ELSE w[First(s)] + g[s \ {First(s)}]
             f2(s) == IF s = {} THEN 0 ELSE table[First(s)].q + g[s \ {First(s)}]
  <2>1. \A s \in SUBSET all : f1(s) = f2(s)
    BY <1>1, FirstIsIn DEF Hands
  <2>2. [s \in SUBSET all |-> f1(s)] = [s \in SUBSET all |-> f2(s)]
    <3> HIDE DEF f1, f2, all
    <3> QED BY <2>1
  <2> QED BY <2>2 DEF Sums
<1>3. InHandsOf(table) = sum[all]
  BY DEF InHandsOf, MapThenSumSet, MapThenFoldSet, First, Holders
<1> HIDE DEF w, all, ByRows
<1>4. \E g : Sums(w, all, g)
  BY <1>1, SumsExist
<1>5. ByRows(sum)
  BY <1>2, <1>4
<1>6. Sums(w, all, sum)
  <2> HIDE DEF sum
  <2> QED BY <1>2, <1>5
<1> HIDE DEF sum
<1> QED BY <1>1, <1>3, <1>6, TotalSmaller DEF w, all

-------------------------------------------------------------------------------
(* What a step does to the two sums.                                       *)

Tables == [ItemIds -> GoodRow \cup {NoRow}]
Calling == [Clients -> GoodCall \cup {ItemIdle}]

(* What the row of an item, and a call, count for.                         *)
Stock(table, i) == IF Exists(table, i) THEN table[i].qty ELSE 0
Hand(c) == IF Holding(c) THEN c.q ELSE 0

LEMMA QuantityMoves ==
  ASSUME NEW t \in Tables, NEW u \in Tables, NEW i \in ItemIds,
         \A j \in ItemIds \ {i} : u[j] = t[j]
  PROVE  /\ Quantity(t) \in Nat /\ Quantity(u) \in Nat /\ Stock(t, i) \in Nat /\ Stock(u, i) \in Nat
         /\ Quantity(u) = Quantity(t) - Stock(t, i) + Stock(u, i)
<1>1. /\ \A j \in Existing(t) : Stocked(t)[j] \in Nat
      /\ \A j \in Existing(u) : Stocked(u)[j] \in Nat
  BY DEF Existing, Exists, Stocked, Tables, GoodRow
<1>2. Existing(t) \ {i} = Existing(u) \ {i}
  BY DEF Existing, Exists
<1>3. \A j \in Existing(t) \ {i} : Stocked(t)[j] = Stocked(u)[j]
  BY DEF Existing, Stocked
<1>4. /\ Counted(Stocked(t), Existing(t), i) = Stock(t, i)
      /\ Counted(Stocked(u), Existing(u), i) = Stock(u, i)
  BY DEF Counted, Stocked, Existing, Stock
<1>5. /\ Quantity(t) = Total(Stocked(t), Existing(t)) /\ IsFiniteSet(Existing(t))
      /\ Quantity(u) = Total(Stocked(u), Existing(u)) /\ IsFiniteSet(Existing(u))
  BY QuantityIsTotal
<1>6. Stock(t, i) \in Nat /\ Stock(u, i) \in Nat
  BY DEF Stock, Exists, Tables, GoodRow
<1> HIDE DEF Stock, Tables
<1>7. /\ Total(Stocked(t), Existing(t)) \in Nat /\ Total(Stocked(u), Existing(u)) \in Nat
      /\ Total(Stocked(u), Existing(u)) = Total(Stocked(t), Existing(t))
           - Counted(Stocked(t), Existing(t), i) + Counted(Stocked(u), Existing(u), i)
  BY <1>1, <1>2, <1>3, <1>5, TotalChanges
<1> QED BY <1>4, <1>5, <1>6, <1>7

LEMMA GoodCallHolds ==
  \A c \in GoodCall \cup {ItemIdle} : /\ Hand(c) \in Nat
                                      /\ Holding(c) => c.q \in Nat
  BY DEF Hand, Holding, GoodCall, ItemCall, ItemIdle

LEMMA HandsMove ==
  ASSUME NEW t \in Calling, NEW u \in Calling, NEW p \in Clients,
         \A q \in Clients \ {p} : u[q] = t[q]
  PROVE  /\ InHandsOf(t) \in Nat /\ InHandsOf(u) \in Nat /\ Hand(t[p]) \in Nat /\ Hand(u[p]) \in Nat
         /\ InHandsOf(u) = InHandsOf(t) - Hand(t[p]) + Hand(u[p])
<1>1. /\ \A q \in Holders(t) : Hands(t)[q] \in Nat
      /\ \A q \in Holders(u) : Hands(u)[q] \in Nat
  BY GoodCallHolds DEF Holders, Hands, Calling
<1>2. Holders(t) \ {p} = Holders(u) \ {p}
  BY DEF Holders
<1>3. \A q \in Holders(t) \ {p} : Hands(t)[q] = Hands(u)[q]
  BY DEF Holders, Hands
<1>4. /\ Counted(Hands(t), Holders(t), p) = Hand(t[p])
      /\ Counted(Hands(u), Holders(u), p) = Hand(u[p])
  BY DEF Counted, Hands, Holders, Hand
<1>5. /\ InHandsOf(t) = Total(Hands(t), Holders(t)) /\ IsFiniteSet(Holders(t))
      /\ InHandsOf(u) = Total(Hands(u), Holders(u)) /\ IsFiniteSet(Holders(u))
  BY InHandIsTotal
<1>6. Hand(t[p]) \in Nat /\ Hand(u[p]) \in Nat
  BY GoodCallHolds DEF Calling
<1>7. /\ Total(Hands(t), Holders(t)) \in Nat /\ Total(Hands(u), Holders(u)) \in Nat
      /\ Total(Hands(u), Holders(u)) = Total(Hands(t), Holders(t))
           - Counted(Hands(t), Holders(t), p) + Counted(Hands(u), Holders(u), p)
  BY <1>1, <1>2, <1>3, <1>5, TotalChanges
<1> QED BY <1>4, <1>5, <1>6, <1>7

LEMMA InHandIs == InHand = InHandsOf(itemCall) /\ InHand' = InHandsOf(itemCall')
  BY DEF InHand, InHandsOf, Holders, Holding, MapThenSumSet, MapThenFoldSet

(* Nobody holds anything when no call is under way.                        *)
LEMMA IdleHandsAreEmpty ==
  InHandsOf([p \in Clients |-> ItemIdle]) = 0
<1> DEFINE t == [p \in Clients |-> ItemIdle]
<1>1. Holders(t) = {}
  BY DEF Holders, Holding, ItemIdle
<1> HIDE DEF t
<1>2. InHandsOf(t) = Total(Hands(t), {}) /\ IsFiniteSet({})
  BY <1>1, InHandIsTotal
<1>3. Total(Hands(t), {}) = 0
  BY <1>2, TotalFirst
<1> QED BY <1>2, <1>3 DEF t

LEMMA SumTypes ==
  ASSUME ItemInv
  PROVE  Quantity(items) \in Nat /\ InHand \in Nat
<1>1. Quantity(items) = Total(Stocked(items), Existing(items)) /\ IsFiniteSet(Existing(items))
  BY QuantityIsTotal
<1>2. \A j \in Existing(items) : Stocked(items)[j] \in Nat
  BY DEF Existing, Exists, Stocked, ItemInv, TablesInv, RowsInv, GoodRow
<1>3. InHand = Total(Hands(itemCall), Holders(itemCall)) /\ IsFiniteSet(Holders(itemCall))
  BY InHandIs, InHandIsTotal
<1>4. \A q \in Holders(itemCall) : Hands(itemCall)[q] \in Nat
  BY GoodCallHolds DEF Holders, Hands, ItemInv, CallsInv
<1>5. Total(Stocked(items), Existing(items)) \in Nat
  BY <1>1, <1>2, TotalType
<1>6. Total(Hands(itemCall), Holders(itemCall)) \in Nat
  BY <1>3, <1>4, TotalType
<1> QED BY <1>1, <1>3, <1>5, <1>6

-------------------------------------------------------------------------------
(* No item goes below zero, however many requests consume and transfer it  *)
(* at once after checks on a slave: the condition in the UPDATE is         *)
(* enough, and rows saved whole were good when they were read.             *)
THEOREM NothingGoesBelowZero == Spec => []QuantityNotNegative
<1>1. ItemInv => QuantityNotNegative
  BY DEF ItemInv, TablesInv, RowsInv, QuantityNotNegative, Exists, GoodRow
<1> QED BY <1>1, ItemInitInv, ItemNextInv, PTL DEF Spec

-------------------------------------------------------------------------------
(* The balance.                                                            *)

BalanceInv ==
  /\ balance \in Int /\ lossy \in BOOLEAN /\ doubtful \in BOOLEAN
  /\ NoDuplication /\ NothingLost

LEMMA BalanceInitInv == Init => BalanceInv
<1> SUFFICES ASSUME Init PROVE BalanceInv
  OBVIOUS
<1>1. ItemInv /\ Quantity(items) \in Nat
  BY ItemInitInv, SumTypes
<1>2. /\ balance = Quantity(items) /\ lossy = FALSE /\ doubtful = FALSE
      /\ itemCall = [p \in Clients |-> ItemIdle]
  BY DEF Init, ItemInit
<1>3. InHand = 0
  BY <1>2, InHandIs, IdleHandsAreEmpty
<1>4. balance \in Int
  BY <1>1, <1>2
<1>b. lossy \in BOOLEAN /\ doubtful \in BOOLEAN
  BY <1>2
<1>5. Quantity(items) + InHand = balance /\ Quantity(items) + InHand <= balance
  BY <1>1, <1>2, <1>3
<1> QED BY <1>4, <1>b, <1>5 DEF BalanceInv, NoDuplication, NothingLost

(* What was doubtful or lossy remains so.                                  *)
Remembers ==
  /\ balance' \in Int /\ lossy' \in BOOLEAN /\ doubtful' \in BOOLEAN
  /\ doubtful => doubtful'
  /\ lossy => lossy'

LEMMA GainWithin ==
  ASSUME NEW q \in Nat, NEW h \in Nat, NEW r \in Nat, NEW k \in Nat,
         NEW gain \in Int, NEW x \in Int, NEW y \in Int,
         q + h <= x, gain <= y - x, r + k = q + h + gain
  PROVE  r + k <= y
  OBVIOUS

(* The items and the hands of all calls together gain by the step.         *)
LEMMA SumsMove ==
  ASSUME ItemInv, ItemInv', BalanceInv, Remembers, NEW gain \in Int,
         Quantity(items)' + InHand' = Quantity(items) + InHand + gain,
         ~doubtful' => gain <= balance' - balance,
         ~lossy' /\ ~doubtful' => gain = balance' - balance
  PROVE  BalanceInv'
<1>1. /\ Quantity(items) \in Nat /\ InHand \in Nat
      /\ Quantity(items)' \in Nat /\ InHand' \in Nat
  <2>1. Quantity(items) \in Nat /\ InHand \in Nat
    BY SumTypes
  <2>2. ItemInv' => Quantity(items)' \in Nat /\ InHand' \in Nat
    <3>1. /\ Quantity(items)' = Total(Stocked(items'), Existing(items'))
          /\ IsFiniteSet(Existing(items'))
      BY QuantityIsTotal
    <3>2. /\ InHand' = Total(Hands(itemCall'), Holders(itemCall'))
          /\ IsFiniteSet(Holders(itemCall'))
      BY InHandIs, InHandIsTotal
    <3>3. \A j \in Existing(items') : Stocked(items')[j] \in Nat
      BY DEF Existing, Exists, Stocked, ItemInv, TablesInv, RowsInv, GoodRow
    <3>4. \A q \in Holders(itemCall') : Hands(itemCall')[q] \in Nat
      BY GoodCallHolds DEF Holders, Hands, ItemInv, CallsInv
    <3>5. Total(Stocked(items'), Existing(items')) \in Nat
      BY <3>1, <3>3, TotalType
    <3>6. Total(Hands(itemCall'), Holders(itemCall')) \in Nat
      BY <3>2, <3>4, TotalType
    <3> QED BY <3>1, <3>2, <3>5, <3>6
  <2> QED BY <2>1, <2>2
<1>2. /\ ~doubtful => Quantity(items) + InHand <= balance
      /\ ~lossy /\ ~doubtful => Quantity(items) + InHand = balance
      /\ balance \in Int
  BY DEF BalanceInv, NoDuplication, NothingLost
<1>3. ASSUME ~doubtful' PROVE Quantity(items)' + InHand' <= balance'
  <2>1. Quantity(items) + InHand <= balance
    BY <1>2, <1>3 DEF Remembers
  <2>2. gain <= balance' - balance
    BY <1>3
  <2>3. balance \in Int /\ balance' \in Int
    BY <1>2 DEF Remembers
  <2> DEFINE q == Quantity(items)
             h == InHand
             r == Quantity(items)'
             k == InHand'
             x == balance
             y == balance'
  <2>4. /\ q \in Nat /\ h \in Nat /\ r \in Nat /\ k \in Nat /\ x \in Int /\ y \in Int
        /\ r + k = q + h + gain
    BY <1>1, <2>3
  <2>5. q + h <= x /\ gain <= y - x
    BY <2>1, <2>2
  <2> HIDE DEF q, h, r, k, x, y
  <2>6. r + k <= y
    BY <2>4, <2>5, GainWithin
  <2> QED BY <2>6 DEF r, k, y
<1>4. ~lossy' /\ ~doubtful' => Quantity(items)' + InHand' = balance'
  BY <1>1, <1>2 DEF Remembers
<1> QED BY <1>3, <1>4 DEF BalanceInv, Remembers, NoDuplication, NothingLost

(* A step of p on the row of i.                                            *)
LEMMA StepMoves ==
  ASSUME ItemInv, ItemInv', BalanceInv, Remembers, NEW p \in Clients, NEW i \in ItemIds,
         \A q \in Clients \ {p} : itemCall'[q] = itemCall[q],
         \A j \in ItemIds \ {i} : items'[j] = items[j],
         ~doubtful' => Stock(items', i) + Hand(itemCall'[p])
                         <= Stock(items, i) + Hand(itemCall[p]) + (balance' - balance),
         ~lossy' /\ ~doubtful' => Stock(items', i) + Hand(itemCall'[p])
                                    = Stock(items, i) + Hand(itemCall[p]) + (balance' - balance)
  PROVE  BalanceInv'
<1>1. items \in Tables /\ items' \in Tables /\ itemCall \in Calling /\ itemCall' \in Calling
  BY DEF ItemInv, TablesInv, RowsInv, CallsInv, Tables, Calling
<1>2. /\ Quantity(items) \in Nat /\ Quantity(items') \in Nat
      /\ Stock(items, i) \in Nat /\ Stock(items', i) \in Nat
      /\ Quantity(items') = Quantity(items) - Stock(items, i) + Stock(items', i)
  BY <1>1, QuantityMoves
<1>3. /\ InHand \in Nat /\ InHand' \in Nat
      /\ Hand(itemCall[p]) \in Nat /\ Hand(itemCall'[p]) \in Nat
      /\ InHand' = InHand - Hand(itemCall[p]) + Hand(itemCall'[p])
  BY <1>1, HandsMove, InHandIs
<1> DEFINE gain == (Stock(items', i) + Hand(itemCall'[p])) - (Stock(items, i) + Hand(itemCall[p]))
<1>4. gain \in Int /\ Quantity(items)' + InHand' = Quantity(items) + InHand + gain
  BY <1>2, <1>3
<1>5. /\ ~doubtful' => gain <= balance' - balance
      /\ ~lossy' /\ ~doubtful' => gain = balance' - balance
  BY <1>2, <1>3 DEF BalanceInv, Remembers
<1> HIDE DEF gain
<1> QED BY <1>4, <1>5, SumsMove

(* A step of p that leaves the items alone.                                *)
LEMMA CallMoves ==
  ASSUME ItemInv, ItemInv', BalanceInv, NEW p \in Clients, UNCHANGED <<items, itemHistory>>,
         \A q \in Clients \ {p} : itemCall'[q] = itemCall[q],
         Hand(itemCall'[p]) = Hand(itemCall[p])
  PROVE  BalanceInv'
<1>1. itemCall \in Calling /\ itemCall' \in Calling
  BY DEF ItemInv, CallsInv, Calling
<1>2. InHand \in Nat /\ Quantity(items) \in Nat
  BY SumTypes
<1>3. InHand' = InHand
  BY <1>1, HandsMove, InHandIs
<1>4. Quantity(items)' = Quantity(items)
  BY DEF itemHistory
<1>5. UNCHANGED <<balance, lossy, doubtful>>
  BY DEF itemHistory
<1> QED BY <1>3, <1>4, <1>5 DEF BalanceInv, NoDuplication, NothingLost

LEMMA RequestBalance ==
  ASSUME ItemInv, ItemInv', BalanceInv, NEW p \in Clients,
         \/ createItem(p) \/ BatchCreateItems(p) \/ BeginTransfer(p)
         \/ \E first \in {"consume", "add", "delete", "readUpdate"} : BeginOn(p, first)
  PROVE  BalanceInv'
<1>1. PICK first \in {"create", "consume", "add", "delete", "readUpdate", "readItem"} :
        \E i, u, v, k, q, n : ItemBegin(p, first, i, u, v, k, q, n)
  BY DEF createItem, BatchCreateItems, BeginCreate, BeginTransfer, BeginOn
<1>2. PICK i, u, v, k, q, n : ItemBegin(p, first, i, u, v, k, q, n)
  BY <1>1
<1> DEFINE d == [pc |-> first, item |-> i, user |-> u, to |-> v, kind |-> k, q |-> q,
                 row |-> NoRow, other |-> NoId, left |-> n]
<1>3. itemCall' = [itemCall EXCEPT ![p] = d] /\ UNCHANGED <<items, itemHistory>>
      /\ itemCall[p].pc = "idle"
  BY <1>2 DEF ItemBegin
<1>4. d.pc = first
  OBVIOUS
<1> HIDE DEF d
<1>5. itemCall'[p] = d /\ \A r \in Clients \ {p} : itemCall'[r] = itemCall[r]
  BY <1>3 DEF ItemInv, CallsInv
<1>6. Hand(itemCall'[p]) = 0 /\ Hand(itemCall[p]) = 0
  BY <1>3, <1>4, <1>5 DEF Hand, Holding
<1> QED BY <1>3, <1>5, <1>6, CallMoves

-------------------------------------------------------------------------------
(* What a statement does to the row it is about and to the call it serves. *)
LEMMA GotoMoves ==
  ASSUME ItemInv, NEW p \in Clients, itemCall[p].pc # "idle", NEW step, ItemGoto(p, step)
  PROVE  /\ \A q \in Clients \ {p} : itemCall'[q] = itemCall[q]
         /\ Hand(itemCall'[p]) = IF step \in {"give", "undo"} THEN itemCall[p].q ELSE 0
<1>1. itemCall[p] \in GoodCall /\ itemCall \in Calling
  BY AtStatement DEF ItemInv, CallsInv, Calling
<1>2. \A q \in Clients \ {p} : itemCall'[q] = itemCall[q]
  BY <1>1 DEF ItemGoto, Calling
<1>3. CASE step = "idle"
  <2>1. itemCall'[p] = ItemIdle
    BY <1>1, <1>3 DEF ItemGoto, Calling
  <2> QED BY <1>2, <1>3, <2>1 DEF Hand, Holding, ItemIdle
<1>4. CASE step # "idle"
  <2>1. itemCall'[p] = [itemCall[p] EXCEPT !.pc = step]
    BY <1>1, <1>4 DEF ItemGoto, Calling
  <2>2. itemCall'[p].pc = step /\ itemCall'[p].q = itemCall[p].q
    BY <1>1, <2>1 DEF GoodCall, ItemCall
  <2> QED BY <1>2, <2>2 DEF Hand, Holding
<1> QED BY <1>3, <1>4

LEMMA RowMoves ==
  ASSUME ItemInv, NEW i \in ItemIds, NEW row \in GoodRow, items' = [items EXCEPT ![i] = row]
  PROVE  /\ \A j \in ItemIds \ {i} : items'[j] = items[j]
         /\ Stock(items', i) = row.qty
<1>1. items'[i] = row
  BY DEF ItemInv, TablesInv, RowsInv
<1>2. row # NoRow
  BY NoRowIsNoRow
<1> QED BY <1>1, <1>2 DEF ItemInv, TablesInv, RowsInv, Stock, Exists

LEMMA AddMoves ==
  ASSUME ItemInv, NEW i \in ItemIds, NEW q \in Nat, NEW o, Add(i, q, o)
  PROVE  /\ \A j \in ItemIds \ {i} : items'[j] = items[j]
         /\ Stock(items, i) \in Nat /\ Stock(items', i) \in Nat
         /\ Stock(items', i) = IF Exists(items, i) /\ o # "error" THEN Stock(items, i) + q
                               ELSE Stock(items, i)
         /\ ~(Exists(items, i) /\ o # "error") => items' = items
<1>1. CASE Exists(items, i) /\ o # "error"
  <2>1. items' = [items EXCEPT ![i].qty = @ + q] /\ items[i] \in GoodRow
    BY <1>1 DEF Add, Exists, ItemInv, TablesInv, RowsInv
  <2> DEFINE row == [items[i] EXCEPT !.qty = @ + q]
  <2>2. row \in GoodRow /\ row.qty = items[i].qty + q /\ items[i].qty \in Nat
    BY <2>1 DEF GoodRow
  <2>3. items' = [items EXCEPT ![i] = row]
    BY <2>1
  <2>4. Stock(items, i) = items[i].qty
    BY <1>1 DEF Stock
  <2> HIDE DEF row
  <2>5. /\ \A j \in ItemIds \ {i} : items'[j] = items[j]
        /\ Stock(items', i) = row.qty
    BY <2>2, <2>3, RowMoves
  <2> QED BY <1>1, <2>2, <2>4, <2>5
<1>2. CASE ~(Exists(items, i) /\ o # "error")
  <2>1. items' = items
    BY <1>2 DEF Add
  <2>2. Stock(items, i) \in Nat
    BY DEF Stock, Exists, ItemInv, TablesInv, RowsInv, GoodRow
  <2> QED BY <1>2, <2>1, <2>2
<1> QED BY <1>1, <1>2

LEMMA TakeMoves ==
  ASSUME ItemInv, NEW i \in ItemIds, NEW q \in Nat, NEW done \in BOOLEAN, done => Enough(i, q),
         items' = IF done THEN [items EXCEPT ![i].qty = @ - q] ELSE items
  PROVE  /\ \A j \in ItemIds \ {i} : items'[j] = items[j]
         /\ Stock(items, i) \in Nat
         /\ Stock(items', i) = IF done THEN Stock(items, i) - q ELSE Stock(items, i)
<1>1. CASE done
  <2>1. /\ items' = [items EXCEPT ![i].qty = @ - q] /\ items[i] \in GoodRow
        /\ items[i].qty >= q /\ Exists(items, i)
    BY <1>1 DEF Enough, Exists, ItemInv, TablesInv, RowsInv
  <2> DEFINE row == [items[i] EXCEPT !.qty = @ - q]
  <2>2. row \in GoodRow /\ row.qty = items[i].qty - q /\ items[i].qty \in Nat
    BY <2>1 DEF GoodRow
  <2>3. items' = [items EXCEPT ![i] = row]
    BY <2>1
  <2>4. Stock(items, i) = items[i].qty
    BY <2>1 DEF Stock
  <2> HIDE DEF row
  <2>5. /\ \A j \in ItemIds \ {i} : items'[j] = items[j]
        /\ Stock(items', i) = row.qty
    BY <2>2, <2>3, RowMoves
  <2> QED BY <1>1, <2>2, <2>4, <2>5
<1>2. CASE ~done
  <2>1. Stock(items, i) \in Nat
    BY DEF Stock, Exists, ItemInv, TablesInv, RowsInv, GoodRow
  <2> QED BY <1>2, <2>1
<1> QED BY <1>1, <1>2

-------------------------------------------------------------------------------
(* Creation, consumption, addition and deletion change the balance by what *)
(* they change the table.                                                  *)
LEMMA CreateBalance ==
  ASSUME ItemInv, ItemInv', BalanceInv, NEW p \in Clients, NEW o, CreateItem(p, o)
  PROVE  BalanceInv'
<1> DEFINE c == itemCall[p]
           row == [owner |-> c.user, kind |-> c.kind, tradable |-> TRUE,
                   qty |-> IF c.q = 0 THEN 1 ELSE c.q]
<1>1. c.pc = "create" /\ UNCHANGED <<lossy, doubtful>>
  BY DEF CreateItem
<1>2. PICK i \in ItemIds :
        LET done == Free(i) /\ o # "error"
        IN  /\ items' = IF done THEN [items EXCEPT ![i] = row] ELSE items
            /\ balance' = IF done THEN balance + row.qty ELSE balance
            /\ itemCall' = [itemCall EXCEPT ![p] =
                 IF done /\ o = "ok" /\ c.left > 1 THEN [c EXCEPT !.left = @ - 1] ELSE ItemIdle]
  BY DEF CreateItem
<1>3. row \in GoodRow /\ row.qty \in Nat /\ c \in GoodCall
  BY <1>1, AtStatement DEF GoodRow
<1>4. \A q \in Clients \ {p} : itemCall'[q] = itemCall[q]
  BY <1>2 DEF ItemInv, CallsInv
<1>5. Hand(itemCall[p]) = 0 /\ Hand(itemCall'[p]) = 0
  <2>1. PICK d \in {[c EXCEPT !.left = @ - 1], ItemIdle} : itemCall'[p] = d
    <3>1. PICK d \in {[c EXCEPT !.left = @ - 1], ItemIdle} :
            itemCall' = [itemCall EXCEPT ![p] = d]
      BY <1>2
    <3>2. itemCall \in [Clients -> GoodCall \cup {ItemIdle}]
      BY DEF ItemInv, CallsInv
    <3> QED BY <3>1, <3>2
  <2>2. d.pc \in {"create", "idle"}
    BY <1>1, <1>3 DEF GoodCall, ItemCall, ItemIdle
  <2> QED BY <1>1, <2>1, <2>2 DEF Hand, Holding
<1>6. balance \in Int /\ lossy \in BOOLEAN /\ doubtful \in BOOLEAN
  BY DEF BalanceInv
<1>7. CASE Free(i) /\ o # "error"
  <2>1. items' = [items EXCEPT ![i] = row] /\ balance' = balance + row.qty
    BY <1>2, <1>7
  <2>2. Stock(items, i) = 0
    BY <1>7 DEF Free, Stock
  <2> HIDE DEF row
  <2>3. Stock(items', i) = row.qty /\ \A j \in ItemIds \ {i} : items'[j] = items[j]
    BY <1>3, <2>1, RowMoves
  <2>4. /\ Stock(items', i) + Hand(itemCall'[p])
             = Stock(items, i) + Hand(itemCall[p]) + (balance' - balance)
        /\ Stock(items', i) + Hand(itemCall'[p])
             <= Stock(items, i) + Hand(itemCall[p]) + (balance' - balance)
        /\ balance' \in Int
    BY <1>3, <1>5, <1>6, <2>1, <2>2, <2>3
  <2>5. Remembers
    BY <1>1, <1>6, <2>4 DEF Remembers
  <2> QED BY <1>4, <2>3, <2>4, <2>5, StepMoves
<1>8. CASE ~(Free(i) /\ o # "error")
  <2>1. UNCHANGED <<items, itemHistory>>
    BY <1>1, <1>2, <1>8 DEF itemHistory
  <2> QED BY <1>4, <1>5, <2>1, CallMoves
<1> QED BY <1>7, <1>8

LEMMA ConsumeBalance ==
  ASSUME ItemInv, ItemInv', BalanceInv, NEW p \in Clients, NEW o, ConsumeItem(p, o)
  PROVE  BalanceInv'
<1> DEFINE c == itemCall[p]
           i == c.item
           done == Enough(i, c.q) /\ o # "error"
<1>1. /\ c.pc = "consume" /\ ItemGoto(p, "idle") /\ UNCHANGED <<lossy, doubtful>>
      /\ items' = IF done THEN [items EXCEPT ![i].qty = @ - c.q] ELSE items
      /\ balance' = IF done THEN balance - c.q ELSE balance
  BY DEF ConsumeItem
<1>2. c.q \in Nat /\ i \in ItemIds
  BY <1>1, AtStatement
<1>3. /\ \A q \in Clients \ {p} : itemCall'[q] = itemCall[q]
      /\ Hand(itemCall'[p]) = 0 /\ Hand(itemCall[p]) = 0
  BY <1>1, GotoMoves DEF Hand, Holding
<1>4. done \in BOOLEAN /\ (done => Enough(i, c.q))
  OBVIOUS
<1>5. balance \in Int /\ lossy \in BOOLEAN /\ doubtful \in BOOLEAN
  BY DEF BalanceInv
<1> HIDE DEF done
<1>6. /\ Stock(items, i) \in Nat /\ \A j \in ItemIds \ {i} : items'[j] = items[j]
      /\ Stock(items', i) = IF done THEN Stock(items, i) - c.q ELSE Stock(items, i)
  BY <1>1, <1>2, <1>4, TakeMoves
<1>7. /\ Stock(items', i) + Hand(itemCall'[p])
           = Stock(items, i) + Hand(itemCall[p]) + (balance' - balance)
      /\ Stock(items', i) + Hand(itemCall'[p])
           <= Stock(items, i) + Hand(itemCall[p]) + (balance' - balance)
      /\ balance' \in Int
  BY <1>1, <1>2, <1>3, <1>5, <1>6
<1>8. Remembers
  BY <1>1, <1>5, <1>7 DEF Remembers
<1> QED BY <1>2, <1>3, <1>6, <1>7, <1>8, StepMoves

LEMMA AddBalance ==
  ASSUME ItemInv, ItemInv', BalanceInv, NEW p \in Clients, NEW o, AddItemQuantity(p, o)
  PROVE  BalanceInv'
<1> DEFINE c == itemCall[p]
           i == c.item
<1>1. /\ c.pc = "add" /\ ItemGoto(p, "idle") /\ UNCHANGED <<lossy, doubtful>>
      /\ Add(i, c.q, o)
      /\ balance' = IF items' # items THEN balance + c.q ELSE balance
  BY DEF AddItemQuantity
<1>2. c.q \in Nat /\ i \in ItemIds
  BY <1>1, AtStatement
<1>3. /\ \A q \in Clients \ {p} : itemCall'[q] = itemCall[q]
      /\ Hand(itemCall'[p]) = 0 /\ Hand(itemCall[p]) = 0
  BY <1>1, GotoMoves DEF Hand, Holding
<1>4. balance \in Int /\ lossy \in BOOLEAN /\ doubtful \in BOOLEAN
  BY DEF BalanceInv
<1>5. CASE items' = items
  <2>1. UNCHANGED <<items, itemHistory>>
    BY <1>1, <1>5 DEF itemHistory
  <2> QED BY <1>3, <2>1, CallMoves
<1>6. CASE items' # items
  <2>1. /\ Stock(items, i) \in Nat /\ \A j \in ItemIds \ {i} : items'[j] = items[j]
        /\ Stock(items', i) = Stock(items, i) + c.q
    BY <1>1, <1>2, <1>6, AddMoves
  <2>2. balance' = balance + c.q
    BY <1>1, <1>6
  <2>3. /\ Stock(items', i) + Hand(itemCall'[p])
             = Stock(items, i) + Hand(itemCall[p]) + (balance' - balance)
        /\ Stock(items', i) + Hand(itemCall'[p])
             <= Stock(items, i) + Hand(itemCall[p]) + (balance' - balance)
        /\ balance' \in Int
    BY <1>2, <1>3, <1>4, <2>1, <2>2
  <2>4. Remembers
    BY <1>1, <1>4, <2>3 DEF Remembers
  <2> QED BY <1>2, <1>3, <2>1, <2>3, <2>4, StepMoves
<1> QED BY <1>5, <1>6

LEMMA DeleteBalance ==
  ASSUME ItemInv, ItemInv', BalanceInv, NEW p \in Clients, NEW o, DeleteItem(p, o)
  PROVE  BalanceInv'
<1> DEFINE c == itemCall[p]
           i == c.item
<1>1. /\ c.pc = "delete" /\ ItemGoto(p, "idle") /\ UNCHANGED <<lossy, doubtful>>
  BY DEF DeleteItem
<1>2. i \in ItemIds
  BY <1>1, AtStatement
<1>3. /\ \A q \in Clients \ {p} : itemCall'[q] = itemCall[q]
      /\ Hand(itemCall'[p]) = 0 /\ Hand(itemCall[p]) = 0
  BY <1>1, GotoMoves DEF Hand, Holding
<1>4. balance \in Int /\ lossy \in BOOLEAN /\ doubtful \in BOOLEAN
  BY DEF BalanceInv
<1>5. CASE Exists(items, i) /\ o # "error"
  <2>1. /\ items' = [items EXCEPT ![i] = NoRow]
        /\ balance' = balance - items[i].qty
    BY <1>5 DEF DeleteItem
  <2>2. /\ \A j \in ItemIds \ {i} : items'[j] = items[j]
        /\ items'[i] = NoRow
    BY <1>2, <2>1 DEF ItemInv, TablesInv, RowsInv
  <2>3. items[i] \in GoodRow
    BY <1>2, <1>5 DEF Exists, ItemInv, TablesInv, RowsInv
  <2>4. Stock(items', i) = 0 /\ Stock(items, i) = items[i].qty /\ items[i].qty \in Nat
    BY <1>5, <2>2, <2>3 DEF Stock, Exists, GoodRow
  <2>5. /\ Stock(items', i) + Hand(itemCall'[p])
             = Stock(items, i) + Hand(itemCall[p]) + (balance' - balance)
        /\ Stock(items', i) + Hand(itemCall'[p])
             <= Stock(items, i) + Hand(itemCall[p]) + (balance' - balance)
        /\ balance' \in Int
    BY <1>3, <1>4, <2>1, <2>4
  <2>6. Remembers
    BY <1>1, <1>4, <2>5 DEF Remembers
  <2> QED BY <1>2, <1>3, <2>2, <2>5, <2>6, StepMoves
<1>6. CASE ~(Exists(items, i) /\ o # "error")
  <2>1. UNCHANGED <<items, itemHistory>>
    BY <1>6 DEF DeleteItem, itemHistory
  <2> QED BY <1>3, <2>1, CallMoves
<1> QED BY <1>5, <1>6

(* A save of a row that is not stale leaves the quantity as it was.        *)
LEMMA SaveBalance ==
  ASSUME ItemInv, ItemInv', BalanceInv, NEW p \in Clients, NEW o, SaveItem(p, o)
  PROVE  BalanceInv'
<1> DEFINE c == itemCall[p]
           i == c.item
           stale == o # "error" /\ (items[i] = NoRow \/ items[i].qty # c.row.qty)
<1>1. /\ c.pc = "save" /\ ItemGoto(p, "idle") /\ UNCHANGED balance
      /\ items' = IF o # "error" THEN [items EXCEPT ![i] = c.row] ELSE items
      /\ lossy' = (lossy \/ stale) /\ doubtful' = (doubtful \/ stale)
  BY DEF SaveItem
<1>2. i \in ItemIds /\ c.row \in GoodRow
  BY <1>1, AtStatement DEF PastRead
<1>3. /\ \A q \in Clients \ {p} : itemCall'[q] = itemCall[q]
      /\ Hand(itemCall'[p]) = 0 /\ Hand(itemCall[p]) = 0
  BY <1>1, GotoMoves DEF Hand, Holding
<1>4. balance \in Int /\ lossy \in BOOLEAN /\ doubtful \in BOOLEAN
  BY DEF BalanceInv
<1>5. Remembers
  <2>1. stale \in BOOLEAN
    OBVIOUS
  <2> HIDE DEF stale
  <2> QED BY <1>1, <1>4, <2>1 DEF Remembers
<1>6. CASE stale
  <2>1. doubtful'
    BY <1>1, <1>6
  <2>2. \A j \in ItemIds \ {i} : items'[j] = items[j]
    BY <1>1, <1>2 DEF ItemInv, TablesInv, RowsInv
  <2> QED BY <1>2, <1>3, <1>5, <2>1, <2>2, StepMoves
<1>7. CASE o = "error"
  <2>1. UNCHANGED <<items, itemHistory>>
    BY <1>1, <1>7, <1>4 DEF itemHistory
  <2> QED BY <1>3, <2>1, CallMoves
<1>8. CASE ~stale /\ o # "error"
  <2>1. Exists(items, i) /\ items[i].qty = c.row.qty
    BY <1>8 DEF Exists
  <2>2. items' = [items EXCEPT ![i] = c.row]
    BY <1>1, <1>8
  <2>3. /\ \A j \in ItemIds \ {i} : items'[j] = items[j]
        /\ Stock(items', i) = c.row.qty
    BY <1>2, <2>2, RowMoves
  <2>4. Stock(items, i) = c.row.qty /\ c.row.qty \in Nat
    BY <1>2, <2>1 DEF Stock, GoodRow
  <2>5. /\ Stock(items', i) + Hand(itemCall'[p])
             = Stock(items, i) + Hand(itemCall[p]) + (balance' - balance)
        /\ Stock(items', i) + Hand(itemCall'[p])
             <= Stock(items, i) + Hand(itemCall[p]) + (balance' - balance)
    BY <1>1, <1>3, <1>4, <2>3, <2>4
  <2> QED BY <1>2, <1>3, <1>5, <2>3, <2>5, StepMoves
<1> QED BY <1>6, <1>7, <1>8

(* The quantity passes from the sender's row into the hand of the call.    *)
LEMMA TakeBalance ==
  ASSUME ItemInv, ItemInv', BalanceInv, NEW p \in Clients, NEW o \in Outcomes,
         TakeFromSender(p, o)
  PROVE  BalanceInv'
<1> DEFINE c == itemCall[p]
           i == c.item
           done == Enough(i, c.q) /\ o # "error"
           step == IF done /\ o = "ok" THEN "give" ELSE "idle"
<1>1. /\ c.pc = "take" /\ ItemGoto(p, step) /\ UNCHANGED <<balance, doubtful>>
      /\ items' = IF done THEN [items EXCEPT ![i].qty = @ - c.q] ELSE items
      /\ lossy' = (lossy \/ (done /\ o = "unknown"))
  BY DEF TakeFromSender
<1>2. i \in ItemIds /\ c.q \in Nat
  BY <1>1, AtStatement
<1>3. /\ \A q \in Clients \ {p} : itemCall'[q] = itemCall[q]
      /\ Hand(itemCall'[p]) = IF done /\ o = "ok" THEN c.q ELSE 0
      /\ Hand(itemCall[p]) = 0
  <2>1. /\ \A q \in Clients \ {p} : itemCall'[q] = itemCall[q]
        /\ Hand(itemCall'[p]) = IF step \in {"give", "undo"} THEN c.q ELSE 0
    BY <1>1, GotoMoves
  <2> QED BY <1>1, <2>1 DEF Hand, Holding
<1>4. balance \in Int /\ lossy \in BOOLEAN /\ doubtful \in BOOLEAN
  BY DEF BalanceInv
<1>5. done \in BOOLEAN /\ (done => Enough(i, c.q) /\ o # "error")
  OBVIOUS
<1> HIDE DEF done, step
<1>6. /\ Stock(items, i) \in Nat /\ \A j \in ItemIds \ {i} : items'[j] = items[j]
      /\ Stock(items', i) = IF done THEN Stock(items, i) - c.q ELSE Stock(items, i)
  BY <1>1, <1>2, <1>5, TakeMoves
<1>7. Remembers
  BY <1>1, <1>4, <1>5 DEF Remembers
<1>8. Stock(items', i) + Hand(itemCall'[p])
        <= Stock(items, i) + Hand(itemCall[p]) + (balance' - balance)
  BY <1>1, <1>2, <1>3, <1>4, <1>6
<1>9. CASE done /\ o = "unknown"
  <2>1. lossy'
    BY <1>1, <1>9
  <2> QED BY <1>2, <1>3, <1>6, <1>7, <1>8, <2>1, StepMoves
<1>10. CASE ~(done /\ o = "unknown")
  <2>1. ~done \/ (done /\ o = "ok")
    BY <1>5, <1>10 DEF Outcomes
  <2>2. Stock(items', i) + Hand(itemCall'[p])
          = Stock(items, i) + Hand(itemCall[p]) + (balance' - balance)
    BY <1>1, <1>2, <1>3, <1>4, <1>6, <2>1
  <2> QED BY <1>2, <1>3, <1>6, <1>7, <1>8, <2>2, StepMoves
<1> QED BY <1>9, <1>10

(* The gift passes from the hand to the receiver's row; a gift that fails  *)
(* stays in the hand, to be undone.                                        *)
LEMMA GiveToBalance ==
  ASSUME ItemInv, ItemInv', BalanceInv, NEW p \in Clients, NEW o \in Outcomes, GiveToItem(p, o)
  PROVE  BalanceInv'
<1> DEFINE c == itemCall[p]
           i == c.other
<1>1. /\ c.pc = "give" /\ i # NoId /\ Add(i, c.q, o) /\ UNCHANGED balance
      /\ ItemGoto(p, AfterGift(o = "ok"))
      /\ lossy' = (lossy \/ (o = "ok" /\ ~Exists(items, i)))
      /\ doubtful' = (doubtful \/ (o = "unknown" /\ Exists(items, i)))
  BY DEF GiveToItem
<1>2. i \in ItemIds /\ c.q \in Nat
  BY <1>1, AtStatement
<1>3. /\ \A q \in Clients \ {p} : itemCall'[q] = itemCall[q]
      /\ Hand(itemCall'[p]) = IF o = "ok" THEN 0 ELSE c.q
      /\ Hand(itemCall[p]) = c.q
  <2>1. /\ \A q \in Clients \ {p} : itemCall'[q] = itemCall[q]
        /\ Hand(itemCall'[p]) = IF AfterGift(o = "ok") \in {"give", "undo"} THEN c.q ELSE 0
    BY <1>1, GotoMoves
  <2> QED BY <1>1, <2>1 DEF Hand, Holding, AfterGift
<1>4. balance \in Int /\ lossy \in BOOLEAN /\ doubtful \in BOOLEAN
  BY DEF BalanceInv
<1>5. Remembers
  BY <1>1, <1>4 DEF Remembers
<1>6. /\ \A j \in ItemIds \ {i} : items'[j] = items[j]
      /\ Stock(items, i) \in Nat /\ Stock(items', i) \in Nat
      /\ Stock(items', i) = IF Exists(items, i) /\ o # "error" THEN Stock(items, i) + c.q
                            ELSE Stock(items, i)
  BY <1>1, <1>2, AddMoves
<1>7. CASE o = "unknown" /\ Exists(items, i)
  <2>1. doubtful'
    BY <1>1, <1>7
  <2> QED BY <1>2, <1>3, <1>5, <1>6, <2>1, StepMoves
<1>8. CASE ~(o = "unknown" /\ Exists(items, i))
  <2>1. Stock(items', i) + Hand(itemCall'[p])
          <= Stock(items, i) + Hand(itemCall[p]) + (balance' - balance)
    BY <1>1, <1>2, <1>3, <1>4, <1>6, <1>8 DEF Outcomes
  <2>2. CASE o = "ok" /\ ~Exists(items, i)
    <3>1. lossy'
      BY <1>1, <2>2
    <3> QED BY <1>2, <1>3, <1>5, <1>6, <2>1, <3>1, StepMoves
  <2>3. CASE ~(o = "ok" /\ ~Exists(items, i))
    <3>1. Stock(items', i) + Hand(itemCall'[p])
            = Stock(items, i) + Hand(itemCall[p]) + (balance' - balance)
      BY <1>1, <1>2, <1>3, <1>4, <1>6, <1>8, <2>3 DEF Outcomes
    <3> QED BY <1>2, <1>3, <1>5, <1>6, <2>1, <3>1, StepMoves
  <2> QED BY <2>2, <2>3
<1> QED BY <1>7, <1>8

LEMMA GiveNewBalance ==
  ASSUME ItemInv, ItemInv', BalanceInv, NEW p \in Clients, NEW o \in Outcomes,
         GiveAsNewItem(p, o)
  PROVE  BalanceInv'
<1> DEFINE c == itemCall[p]
           gift == [c.row EXCEPT !.owner = c.to, !.qty = c.q]
<1>1. c.pc = "give" /\ UNCHANGED <<balance, lossy>>
  BY DEF GiveAsNewItem
<1>2. PICK i \in ItemIds :
        /\ items' = IF Free(i) /\ o # "error" THEN [items EXCEPT ![i] = gift] ELSE items
        /\ ItemGoto(p, AfterGift(Free(i) /\ o = "ok"))
        /\ doubtful' = (doubtful \/ (o = "unknown" /\ Free(i)))
  BY DEF GiveAsNewItem
<1>3. c.q \in Nat /\ gift \in GoodRow /\ gift.qty = c.q
  BY <1>1, AtStatement DEF PastRead, GoodRow
<1>4. /\ \A q \in Clients \ {p} : itemCall'[q] = itemCall[q]
      /\ Hand(itemCall'[p]) = IF Free(i) /\ o = "ok" THEN 0 ELSE c.q
      /\ Hand(itemCall[p]) = c.q
  <2>1. /\ \A q \in Clients \ {p} : itemCall'[q] = itemCall[q]
        /\ Hand(itemCall'[p])
             = IF AfterGift(Free(i) /\ o = "ok") \in {"give", "undo"} THEN c.q ELSE 0
    BY <1>1, <1>2, GotoMoves
  <2> QED BY <1>1, <2>1 DEF Hand, Holding, AfterGift
<1>5. balance \in Int /\ lossy \in BOOLEAN /\ doubtful \in BOOLEAN
  BY DEF BalanceInv
<1>6. Remembers
  BY <1>1, <1>2, <1>5 DEF Remembers, Free
<1> HIDE DEF gift
<1>7. CASE Free(i) /\ o # "error"
  <2>1. Stock(items, i) = 0
    BY <1>7 DEF Free, Stock
  <2>2. items' = [items EXCEPT ![i] = gift]
    BY <1>2, <1>7
  <2>3. /\ \A j \in ItemIds \ {i} : items'[j] = items[j]
        /\ Stock(items', i) = c.q
    BY <1>3, <2>2, RowMoves
  <2>4. CASE o = "unknown"
    <3>1. doubtful'
      BY <1>2, <1>7, <2>4
    <3> QED BY <1>4, <1>6, <2>3, <3>1, StepMoves
  <2>5. CASE o = "ok"
    <3>1. /\ Stock(items', i) + Hand(itemCall'[p])
               = Stock(items, i) + Hand(itemCall[p]) + (balance' - balance)
          /\ Stock(items', i) + Hand(itemCall'[p])
               <= Stock(items, i) + Hand(itemCall[p]) + (balance' - balance)
      BY <1>1, <1>3, <1>4, <1>5, <1>7, <2>1, <2>3, <2>5
    <3> QED BY <1>4, <1>6, <2>3, <3>1, StepMoves
  <2> QED BY <1>7, <2>4, <2>5 DEF Outcomes
<1>8. CASE ~(Free(i) /\ o # "error")
  <2>1. UNCHANGED <<items, itemHistory>>
    BY <1>1, <1>2, <1>5, <1>8 DEF itemHistory
  <2>2. Hand(itemCall'[p]) = Hand(itemCall[p])
    BY <1>4, <1>8
  <2> QED BY <1>4, <2>1, <2>2, CallMoves
<1> QED BY <1>7, <1>8

(* The roll-back puts the quantity back into the sender's row, or it is    *)
(* lost.                                                                   *)
LEMMA UndoBalance ==
  ASSUME ItemInv, ItemInv', BalanceInv, NEW p \in Clients, NEW o, UndoTake(p, o)
  PROVE  BalanceInv'
<1> DEFINE c == itemCall[p]
           i == c.item
<1>1. /\ c.pc = "undo" /\ ItemGoto(p, "idle") /\ Add(i, c.q, o)
      /\ UNCHANGED <<balance, doubtful>> /\ lossy' = (lossy \/ items' = items)
  BY DEF UndoTake
<1>2. i \in ItemIds /\ c.q \in Nat
  BY <1>1, AtStatement
<1>3. /\ \A q \in Clients \ {p} : itemCall'[q] = itemCall[q]
      /\ Hand(itemCall'[p]) = 0 /\ Hand(itemCall[p]) = c.q
  BY <1>1, GotoMoves DEF Hand, Holding
<1>4. balance \in Int /\ lossy \in BOOLEAN /\ doubtful \in BOOLEAN
  BY DEF BalanceInv
<1>5. Remembers
  BY <1>1, <1>4 DEF Remembers
<1>6. /\ \A j \in ItemIds \ {i} : items'[j] = items[j]
      /\ Stock(items, i) \in Nat /\ Stock(items', i) \in Nat
      /\ Stock(items', i) = IF Exists(items, i) /\ o # "error" THEN Stock(items, i) + c.q
                            ELSE Stock(items, i)
      /\ ~(Exists(items, i) /\ o # "error") => items' = items
  BY <1>1, <1>2, AddMoves
<1>7. Stock(items', i) + Hand(itemCall'[p])
        <= Stock(items, i) + Hand(itemCall[p]) + (balance' - balance)
  BY <1>1, <1>2, <1>3, <1>4, <1>6
<1>8. CASE items' = items
  <2>1. lossy'
    BY <1>1, <1>8
  <2> QED BY <1>2, <1>3, <1>5, <1>6, <1>7, <2>1, StepMoves
<1>9. CASE items' # items
  <2>1. Stock(items', i) = Stock(items, i) + c.q
    BY <1>6, <1>9
  <2>2. Stock(items', i) + Hand(itemCall'[p])
          = Stock(items, i) + Hand(itemCall[p]) + (balance' - balance)
    BY <1>1, <1>2, <1>3, <1>4, <1>6, <2>1
  <2> QED BY <1>2, <1>3, <1>5, <1>6, <1>7, <2>2, StepMoves
<1> QED BY <1>8, <1>9

(* A read moves nothing.                                                   *)
LEMMA ReadBalance ==
  ASSUME ItemInv, ItemInv', BalanceInv, NEW p \in Clients, NEW o,
         ReadForUpdate(p, o) \/ ReadItem(p, o) \/ ReadUserItems(p, o)
  PROVE  BalanceInv'
<1> DEFINE c == itemCall[p]
<1>1. c.pc \in {"readUpdate", "readItem", "readUser"} /\ UNCHANGED <<items, itemHistory>>
  BY DEF ReadForUpdate, ReadItem, ReadUserItems
<1>2. c \in GoodCall /\ itemCall \in [Clients -> GoodCall \cup {ItemIdle}]
  BY <1>1, AtStatement DEF ItemInv, CallsInv
<1>3. Hand(itemCall[p]) = 0
  BY <1>1 DEF Hand, Holding
<1>4. CASE ItemGoto(p, "idle")
  <2>1. /\ \A q \in Clients \ {p} : itemCall'[q] = itemCall[q]
        /\ Hand(itemCall'[p]) = 0
    BY <1>1, <1>4, GotoMoves
  <2> QED BY <1>1, <1>3, <2>1, CallMoves
<1>5. ASSUME itemCall'[p].pc \in {"save", "readUser", "take"},
             \A q \in Clients \ {p} : itemCall'[q] = itemCall[q]
      PROVE  BalanceInv'
  <2>1. Hand(itemCall'[p]) = 0
    BY <1>5 DEF Hand, Holding
  <2> QED BY <1>1, <1>3, <1>5, <2>1, CallMoves
<1>6. CASE ReadForUpdate(p, o) /\ ~ItemGoto(p, "idle")
  <2>1. PICK row, k : itemCall' = [itemCall EXCEPT ![p] =
          [c EXCEPT !.pc = "save", !.row = [row EXCEPT !.kind = k]]]
    BY <1>6 DEF ReadForUpdate
  <2> DEFINE e == [c EXCEPT !.pc = "save", !.row = [row EXCEPT !.kind = k]]
  <2>2. e.pc = "save"
    BY <1>2 DEF GoodCall, ItemCall
  <2>3. itemCall' = [itemCall EXCEPT ![p] = e]
    BY <2>1
  <2> HIDE DEF e
  <2>4. itemCall'[p] = e /\ \A q \in Clients \ {p} : itemCall'[q] = itemCall[q]
    BY <1>2, <2>3
  <2> QED BY <1>5, <2>2, <2>4
<1>7. CASE ReadItem(p, o) /\ ~ItemGoto(p, "idle")
  <2>0. PICK row : itemCall' = [itemCall EXCEPT ![p] = [c EXCEPT !.pc = "readUser", !.row = row]]
    BY <1>7 DEF ReadItem
  <2> DEFINE e == [c EXCEPT !.pc = "readUser", !.row = row]
  <2>1. itemCall' = [itemCall EXCEPT ![p] = e]
    BY <2>0
  <2>2. e.pc = "readUser"
    BY <1>2 DEF GoodCall, ItemCall
  <2> HIDE DEF e
  <2>3. itemCall'[p] = e /\ \A q \in Clients \ {p} : itemCall'[q] = itemCall[q]
    BY <1>2, <2>1
  <2> QED BY <1>5, <2>2, <2>3
<1>8. CASE ReadUserItems(p, o) /\ ~ItemGoto(p, "idle")
  <2>1. PICK i : itemCall' = [itemCall EXCEPT ![p] = [c EXCEPT !.pc = "take", !.other = i]]
    BY <1>8 DEF ReadUserItems
  <2> DEFINE e == [c EXCEPT !.pc = "take", !.other = i]
  <2>2. e.pc = "take"
    BY <1>2 DEF GoodCall, ItemCall
  <2>3. itemCall' = [itemCall EXCEPT ![p] = e]
    BY <2>1
  <2> HIDE DEF e
  <2>4. itemCall'[p] = e /\ \A q \in Clients \ {p} : itemCall'[q] = itemCall[q]
    BY <1>2, <2>3
  <2> QED BY <1>5, <2>2, <2>4
<1> QED BY <1>4, <1>6, <1>7, <1>8

LEMMA WorkBalance ==
  ASSUME ItemInv, ItemInv', BalanceInv, NEW p \in Clients, NEW o \in Outcomes, ItemWork(p, o)
  PROVE  BalanceInv'
BY CreateBalance, ConsumeBalance, AddBalance, DeleteBalance, SaveBalance, ReadBalance,
   TakeBalance, GiveToBalance, GiveNewBalance, UndoBalance
   DEF ItemWork, ItemStatement

(* A crash lets fall what the calls have in hand.                          *)
LEMMA CrashBalance ==
  ASSUME ItemInv, BalanceInv, ItemCrash
  PROVE  BalanceInv'
<1>1. /\ itemCall' = [p \in Clients |-> ItemIdle]
      /\ lossy' = (lossy \/ InHand > 0) /\ UNCHANGED <<items, balance, doubtful>>
  BY DEF ItemCrash
<1>2. InHand' = 0
  BY <1>1, InHandIs, IdleHandsAreEmpty
<1>3. Quantity(items) \in Nat /\ InHand \in Nat /\ Quantity(items)' = Quantity(items)
  BY <1>1, SumTypes
<1>4. balance \in Int /\ lossy \in BOOLEAN /\ doubtful \in BOOLEAN
  BY DEF BalanceInv
<1>5. (InHand > 0) \in BOOLEAN /\ (~(InHand > 0) => InHand = 0)
  BY <1>3
<1>6. lossy' \in BOOLEAN /\ (~lossy' => ~lossy /\ InHand = 0)
  BY <1>1, <1>4, <1>5
<1>7. ASSUME ~doubtful'
      PROVE  Quantity(items)' + InHand' <= balance'
  <2>1. Quantity(items) + InHand <= balance
    BY <1>1, <1>7 DEF BalanceInv, NoDuplication
  <2> QED BY <1>1, <1>2, <1>3, <1>4, <2>1
<1>8. ASSUME ~lossy', ~doubtful'
      PROVE  Quantity(items)' + InHand' = balance'
  <2>1. Quantity(items) + InHand = balance /\ InHand = 0
    BY <1>1, <1>6, <1>8 DEF BalanceInv, NothingLost
  <2> QED BY <1>1, <1>2, <1>3, <2>1
<1> QED BY <1>1, <1>4, <1>6, <1>7, <1>8 DEF BalanceInv, NoDuplication, NothingLost

LEMMA BalanceNextInv == ItemInv /\ ItemInv' /\ BalanceInv /\ [Next]_vars => BalanceInv'
<1> SUFFICES ASSUME ItemInv, ItemInv', BalanceInv, [Next]_vars PROVE BalanceInv'
  OBVIOUS
<1>1. CASE UNCHANGED <<items, itemCall, itemHistory>>
  <2>1. InHand' = InHand /\ Quantity(items)' = Quantity(items)
    BY <1>1, InHandIs
  <2>2. UNCHANGED <<balance, lossy, doubtful>>
    BY <1>1 DEF itemHistory
  <2> QED BY <2>1, <2>2 DEF BalanceInv, NoDuplication, NothingLost
<1>2. CASE ItemCrash
  BY <1>2, CrashBalance
<1>3. CASE ReplicateItem
  BY <1>1, <1>3 DEF ReplicateItem
<1>4. ItemStep \/ UNCHANGED itemVars
  BY ItemsStep
<1> QED BY <1>1, <1>2, <1>3, <1>4, RequestBalance, WorkBalance DEF ItemStep, itemVars

(* Transfers make no quantity: what the rows hold and what transfers have  *)
(* in hand never exceeds what was created, whatever overlaps, fails or     *)
(* crashes, until a whole row is saved that has changed or gone since it   *)
(* was read, or a gift was done and reported as failed.                    *)
THEOREM TransfersMakeNothing == Spec => []NoDuplication
<1>1. ItemInv /\ BalanceInv => NoDuplication
  BY DEF BalanceInv
<1> QED BY <1>1, ItemInitInv, ItemNextInv, BalanceInitInv, BalanceNextInv, PTL DEF Spec

(* Nothing is lost either, until one of the six events of NothingLost: a   *)
(* crash with a transfer's quantity in hand, a roll-back that finds no row *)
(* or fails, a gift to a row that is gone, a take or a gift that was done  *)
(* but reported as failed, a save of a row changed since it was read.      *)
(* Short of those, what a failed transfer took is in its hand until the    *)
(* roll-back has put it back.                                              *)
THEOREM FailedTransfersLoseNothing == Spec => []NothingLost
<1>1. ItemInv /\ BalanceInv => NothingLost
  BY DEF BalanceInv
<1> QED BY <1>1, ItemInitInv, ItemNextInv, BalanceInitInv, BalanceNextInv, PTL DEF Spec

(* Every state of the server is of its type: the calls under way, with the *)
(* rows they have read, and the bounds of the requests, faults and crashes *)
(* included.                                                               *)
THEOREM GameServerTypeCorrect == Spec => []TypeOK
<1> DEFINE Rest == /\ handlers \subseteq Games /\ calls \in 0..MaxCalls
                   /\ faults \in 0..MaxFaults /\ crashes \in 0..MaxCrashes
<1>1. Init => Rest
  BY BoundsAssumption DEF Init
<1>2. Rest /\ [Next]_vars => Rest'
  <2> SUFFICES ASSUME Rest, [Next]_vars PROVE Rest'
    OBVIOUS
  <2>1. CASE UNCHANGED vars
    BY <2>1 DEF vars, bounds
  <2>2. ASSUME NEW g \in Games, UnregisterHandler(g) \/ RegisterHandler(g)
        PROVE  Rest'
    BY <2>2 DEF UnregisterHandler, RegisterHandler, bounds
  <2>3. ASSUME NEW p \in Clients, Request(p)
        PROVE  Rest'
    BY <2>3, BoundsAssumption DEF Request
  <2>4. ASSUME NEW p \in Clients, NEW o \in Outcomes, Work(p, o)
        PROVE  Rest'
    BY <2>4, BoundsAssumption DEF Work
  <2>5. CASE Replicate
    BY <2>5 DEF Replicate, bounds
  <2>6. CASE Crash
    BY <2>6, BoundsAssumption DEF Crash
  <2> QED BY <2>1, <2>2, <2>3, <2>4, <2>5, <2>6 DEF Next
<1>3. ItemInv /\ BalanceInv => ItemTypeOK
  BY NoRowIsNoRow DEF ItemInv, TablesInv, RowsInv, CallsInv, GoodCall, BalanceInv, ItemTypeOK
<1>4. OrderTypeOK /\ ItemTypeOK /\ Rest => TypeOK
  BY DEF TypeOK
<1> HIDE DEF Rest
<1> QED BY <1>1, <1>2, <1>3, <1>4, OrdersTypeCorrect, ItemInitInv, ItemNextInv,
           BalanceInitInv, BalanceNextInv, PTL DEF Spec
================================================================================
