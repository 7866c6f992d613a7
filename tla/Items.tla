------------------------------ MODULE Items ------------------------------
(***************************************************************************)
(* Items: ItemService of business/common/item_service.go over the items    *)
(* table of data/dao/dao.go.  Every DAO call is one SQL statement and one  *)
(* step; it ends in one of the Outcomes.                                   *)
(*                                                                         *)
(* balance, lossy and doubtful are history.  balance is what creation,     *)
(* addition, consumption and deletion should have left in the table; lossy *)
(* and doubtful tell whether an event has happened that the comments of    *)
(* NothingLost and NoDuplication name.                                     *)
(***************************************************************************)
EXTENDS Integers, FiniteSets, FiniteSetsExt, Database

CONSTANTS
  Users, Kinds, ItemIds,
  NoRow, NoId,
  Stocks,      \* the tables the service may find when it starts
  Quantities,  \* bound: quantities of requests to consume, add and transfer
  NewQuantities

Row == [owner : Users, kind : Kinds, qty : Int, tradable : BOOLEAN]

ASSUME ItemConstants ==
  /\ IsFiniteSet(ItemIds) /\ NoId \notin ItemIds /\ NoRow \notin Row
  /\ Users # {} /\ Kinds # {}
  /\ Stocks \subseteq [ItemIds -> Row \cup {NoRow}]
  /\ \A table \in Stocks, i \in ItemIds : table[i] # NoRow => table[i].qty >= 0
  /\ Quantities \subseteq Nat \ {0} /\ NewQuantities \subseteq Nat

VARIABLES items, itemReplicas, itemCall, balance, lossy, doubtful

itemHistory == <<balance, lossy, doubtful>>
itemVars == <<items, itemReplicas, itemCall, itemHistory>>

ItemCall ==
  [pc : {"idle", "create", "consume", "add", "delete", "readUpdate", "save",
         "readItem", "readUser", "take", "give", "undo"},
   item : ItemIds \cup {NoId}, user : Users, to : Users, kind : Kinds, q : Nat,
   row : Row \cup {NoRow}, other : ItemIds \cup {NoId}, left : Nat]

ItemIdle == [pc |-> "idle"]

ItemTypeOK ==
  /\ items \in [ItemIds -> Row \cup {NoRow}] /\ itemReplicas \in [ItemIds -> SUBSET (Row \cup {NoRow})]
  /\ itemCall \in [Clients -> ItemCall \cup {ItemIdle}]
  /\ balance \in Int /\ lossy \in BOOLEAN /\ doubtful \in BOOLEAN

Quantity(table) ==
  MapThenSumSet(LAMBDA i : table[i].qty, {i \in ItemIds : table[i] # NoRow})

ItemInit ==
  /\ items \in Stocks /\ itemReplicas = Slaves(items)
  /\ itemCall = [p \in Clients |-> ItemIdle]
  /\ balance = Quantity(items) /\ lossy = FALSE /\ doubtful = FALSE

ItemGoto(p, step) ==
  itemCall' = [itemCall EXCEPT ![p] = IF step = "idle" THEN ItemIdle
                                      ELSE [itemCall[p] EXCEPT !.pc = step]]

(* Whether a statement on the master finds the row.                        *)
Exists(table, i) == table[i] # NoRow

-------------------------------------------------------------------------------
(* The requests.                                                           *)

ItemBegin(p, first, i, u, v, k, q, n) ==
  /\ itemCall[p].pc = "idle"
  /\ itemCall' = [itemCall EXCEPT ![p] =
       [pc |-> first, item |-> i, user |-> u, to |-> v, kind |-> k, q |-> q,
        row |-> NoRow, other |-> NoId, left |-> n]]
  /\ UNCHANGED <<items, itemReplicas, itemHistory>>

(* Fields an operation does not use.                                       *)
AnyUser == CHOOSE u \in Users : TRUE
AnyKind == CHOOSE k \in Kinds : TRUE

(* CreateItem checks no quantity.                                          *)
BeginCreate(p, n) == \E u \in Users, k \in Kinds, q \in NewQuantities :
                       ItemBegin(p, "create", NoId, u, u, k, q, n)
createItem(p)       == BeginCreate(p, 1)
BatchCreateItems(p) == BeginCreate(p, 2)

BeginOn(p, first) == \E i \in ItemIds, q \in Quantities :
                       ItemBegin(p, first, i, AnyUser, AnyUser, AnyKind, q, 1)
BeginTransfer(p) == \E i \in ItemIds, u, v \in Users, q \in Quantities :
                      ItemBegin(p, "readItem", i, u, v, AnyKind, q, 1)

-------------------------------------------------------------------------------
(* The statements: c is the call of p, o how its statement ends.           *)

(* The unique index on item_id lets the insertion pass.                    *)
Free(i) == ~Exists(items, i)

(* Ids come from the clock, so two may be equal.  A quantity of 0 becomes  *)
(* the column's default of 1.                                              *)
CreateItem(p, o) ==
  LET c == itemCall[p]
      row == [owner |-> c.user, kind |-> c.kind, tradable |-> TRUE,
              qty |-> IF c.q = 0 THEN 1 ELSE c.q]
  IN  /\ c.pc = "create"
      /\ \E i \in ItemIds :
           LET done == Free(i) /\ o # "error"
           IN  /\ items' = IF done THEN [items EXCEPT ![i] = row] ELSE items
               /\ balance' = IF done THEN balance + row.qty ELSE balance
               /\ itemCall' = [itemCall EXCEPT ![p] =
                    IF done /\ o = "ok" /\ c.left > 1 THEN [c EXCEPT !.left = @ - 1]
                    ELSE ItemIdle]
      /\ UNCHANGED <<lossy, doubtful>>

(* Mutant: the statement does not compare the quantity.                    *)
EnoughNot(i, q) == Exists(items, i)

Enough(i, q) == Exists(items, i) /\ items[i].qty >= q

ConsumeItem(p, o) ==
  LET c == itemCall[p]
      done == Enough(c.item, c.q) /\ o # "error"
  IN  /\ c.pc = "consume" /\ ItemGoto(p, "idle")
      /\ items' = IF done THEN [items EXCEPT ![c.item].qty = @ - c.q] ELSE items
      /\ balance' = IF done THEN balance - c.q ELSE balance
      /\ UNCHANGED <<lossy, doubtful>>

(* AddItemQuantity does not look whether a row was found.                  *)
Add(i, q, o) ==
  items' = IF Exists(items, i) /\ o # "error" THEN [items EXCEPT ![i].qty = @ + q] ELSE items

AddItemQuantity(p, o) ==
  LET c == itemCall[p]
  IN  /\ c.pc = "add" /\ ItemGoto(p, "idle")
      /\ Add(c.item, c.q, o)
      /\ balance' = IF items' # items THEN balance + c.q ELSE balance
      /\ UNCHANGED <<lossy, doubtful>>

DeleteItem(p, o) ==
  LET c == itemCall[p]
      done == Exists(items, c.item) /\ o # "error"
  IN  /\ c.pc = "delete" /\ ItemGoto(p, "idle")
      /\ items' = IF done THEN [items EXCEPT ![c.item] = NoRow] ELSE items
      /\ balance' = IF done THEN balance - items[c.item].qty ELSE balance
      /\ UNCHANGED <<lossy, doubtful>>

(* UpdateItem reads the row, renames it and saves all of it: a quantity    *)
(* changed since is overwritten, a row deleted since is inserted again.    *)
ReadForUpdate(p, o) ==
  LET c == itemCall[p]
  IN  /\ c.pc = "readUpdate"
      /\ \E row \in itemReplicas[c.item] :
           IF o = "ok" /\ row # NoRow
             THEN \E k \in Kinds : itemCall' = [itemCall EXCEPT ![p] =
                    [c EXCEPT !.pc = "save", !.row = [row EXCEPT !.kind = k]]]
             ELSE ItemGoto(p, "idle")
      /\ UNCHANGED <<items, itemHistory>>

SaveItem(p, o) ==
  LET c == itemCall[p]
      now == items[c.item]
      stale == o # "error" /\ (now = NoRow \/ now.qty # c.row.qty)
  IN  /\ c.pc = "save" /\ ItemGoto(p, "idle")
      /\ items' = IF o # "error" THEN [items EXCEPT ![c.item] = c.row] ELSE items
      /\ lossy' = (lossy \/ stale) /\ doubtful' = (doubtful \/ stale)
      /\ UNCHANGED balance

-------------------------------------------------------------------------------
(* TransferItem.                                                           *)

ReadItem(p, o) ==
  LET c == itemCall[p]
      Allowed(row) == row # NoRow /\ row.owner = c.user /\ row.qty >= c.q /\ row.tradable
  IN  /\ c.pc = "readItem"
      /\ \E row \in itemReplicas[c.item] :
           IF o = "ok" /\ Allowed(row)
             THEN itemCall' = [itemCall EXCEPT ![p] = [c EXCEPT !.pc = "readUser", !.row = row]]
             ELSE ItemGoto(p, "idle")
      /\ UNCHANGED <<items, itemHistory>>

(* A row of the receiver with the same name and type.                      *)
Similar(c, row) == row # NoRow /\ row.owner = c.to /\ row.kind = c.row.kind

(* What the list of the receiver's items may yield: an item that some      *)
(* slave shows as similar, or none if every item is shown otherwise.       *)
Receivers(c) ==
  {i \in ItemIds : \E row \in itemReplicas[i] : Similar(c, row)}
    \cup {i \in {NoId} : \A j \in ItemIds : \E row \in itemReplicas[j] : ~Similar(c, row)}

ReadUserItems(p, o) ==
  LET c == itemCall[p]
  IN  /\ c.pc = "readUser"
      /\ IF o = "ok"
           THEN \E i \in Receivers(c) :
                  itemCall' = [itemCall EXCEPT ![p] = [c EXCEPT !.pc = "take", !.other = i]]
           ELSE ItemGoto(p, "idle")
      /\ UNCHANGED <<items, itemHistory>>

(* A take that is reported as failed is not rolled back, done or not.      *)
TakeFromSender(p, o) ==
  LET c == itemCall[p]
      done == Enough(c.item, c.q) /\ o # "error"
  IN  /\ c.pc = "take" /\ ItemGoto(p, IF done /\ o = "ok" THEN "give" ELSE "idle")
      /\ items' = IF done THEN [items EXCEPT ![c.item].qty = @ - c.q] ELSE items
      /\ lossy' = (lossy \/ (done /\ o = "unknown"))
      /\ UNCHANGED <<balance, doubtful>>

(* Mutants: a failed gift is not undone; the roll-back runs in every case. *)
AfterGiftForgets(given) == "idle"
AfterGiftAlways(given) == "undo"

AfterGift(given) == IF given THEN "idle" ELSE "undo"

(* The gift is added to the receiver's item; if that row is gone, nothing  *)
(* is added and nobody notices.                                            *)
GiveToItem(p, o) ==
  LET c == itemCall[p]
  IN  /\ c.pc = "give" /\ c.other # NoId
      /\ Add(c.other, c.q, o)
      /\ ItemGoto(p, AfterGift(o = "ok"))
      /\ lossy' = (lossy \/ (o = "ok" /\ ~Exists(items, c.other)))
      /\ doubtful' = (doubtful \/ (o = "unknown" /\ Exists(items, c.other)))
      /\ UNCHANGED balance

GiveAsNewItem(p, o) ==
  LET c == itemCall[p]
      gift == [c.row EXCEPT !.owner = c.to, !.qty = c.q]
  IN  /\ c.pc = "give" /\ c.other = NoId
      /\ \E i \in ItemIds :
           /\ items' = IF Free(i) /\ o # "error" THEN [items EXCEPT ![i] = gift] ELSE items
           /\ ItemGoto(p, AfterGift(Free(i) /\ o = "ok"))
           /\ doubtful' = (doubtful \/ (o = "unknown" /\ Free(i)))
      /\ UNCHANGED <<balance, lossy>>

(* The roll-back adds the quantity to the sender; its error is ignored.    *)
UndoTake(p, o) ==
  LET c == itemCall[p]
  IN  /\ c.pc = "undo" /\ ItemGoto(p, "idle")
      /\ Add(c.item, c.q, o)
      /\ lossy' = (lossy \/ items' = items)
      /\ UNCHANGED <<balance, doubtful>>

ItemStatement(p, o) ==
  \/ CreateItem(p, o) \/ ConsumeItem(p, o) \/ AddItemQuantity(p, o) \/ DeleteItem(p, o)
  \/ ReadForUpdate(p, o) \/ SaveItem(p, o) \/ ReadItem(p, o) \/ ReadUserItems(p, o)
  \/ TakeFromSender(p, o) \/ GiveToItem(p, o) \/ GiveAsNewItem(p, o) \/ UndoTake(p, o)

ItemWork(p, o) ==
  /\ ItemStatement(p, o)
  /\ itemReplicas' = Shipped(itemReplicas, items')

(* The last slave that shows a version of an item replays the next write.  *)
ReplicateItem ==
  /\ \E i \in ItemIds : \E old \in Outdated(itemReplicas, items, i) :
       itemReplicas' = Replayed(itemReplicas, i, old)
  /\ UNCHANGED <<items, itemCall, itemHistory>>

(* What a transfer has taken and not given yet.                            *)
InHand ==
  MapThenSumSet(LAMBDA p : itemCall[p].q,
                {p \in Clients : itemCall[p].pc \in {"give", "undo"}})

(* The process ends: its calls end with it, the tables stay.               *)
ItemCrash ==
  /\ itemCall' = [p \in Clients |-> ItemIdle]
  /\ lossy' = (lossy \/ InHand > 0)
  /\ UNCHANGED <<items, itemReplicas, balance, doubtful>>

-------------------------------------------------------------------------------
(* No item that was created with a quantity of 0 or more is ever left with *)
(* less than nothing, whatever requests overlap, however far the slaves    *)
(* lag and wherever the process crashes.                                   *)
QuantityNotNegative == \A i \in ItemIds : Exists(items, i) => items[i].qty >= 0

(* Transfers move quantity and never make any: together with what they     *)
(* have in hand the items hold no more than was created, even after        *)
(* crashes, errors and deletions.  Two events break it: a whole-row save   *)
(* of a row that has changed or gone since it was read, and a gift that    *)
(* was done but reported as failed, so that it is rolled back too.         *)
NoDuplication == ~doubtful => Quantity(items) + InHand <= balance

(* A transfer that fails puts back what it took, and no quantity is lost   *)
(* until one of six events: a crash with a transfer's quantity in hand, a  *)
(* roll-back that finds no row or fails, a gift to a row that is gone, a   *)
(* take that was done but reported as failed (TransferItem returns without *)
(* a roll-back), and the two events of NoDuplication.                      *)
NothingLost == ~lossy /\ ~doubtful => Quantity(items) + InHand = balance
================================================================================
