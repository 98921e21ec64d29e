------------------------------ MODULE Inventory ------------------------------
(***************************************************************************)
(* The catalogue and stock handlers of src/index.ts: categories, items and *)
(* POST /api/stock/adjust.  As in PurchaseOrders, one action is one D1     *)
(* call, and every write is one conditional batch.  None of these batches  *)
(* catches a trigger's abort, except that of a duplicate name: it leaves   *)
(* the handler as a 500.  Names are left to the database's unique indexes, *)
(* so the reads that look for a duplicate name are not modelled.           *)
(***************************************************************************)
EXTENDS Tables

OnItem(op, i, at) == [Idle EXCEPT !.op = op, !.item = i, !.at = at]
OnCategory(op, k, at) == [Idle EXCEPT !.op = op, !.category = k, !.at = at]

-----------------------------------------------------------------------------
(* Categories *)

CreateCategory(c, k) ==
  /\ MaySend(c, "createCategory")
  /\ categories[k] = "absent"
  /\ categories' = [categories EXCEPT ![k] = "active"]
  /\ Suspend(c, OnCategory("createCategory", k, "readBack"))
  /\ UNCHANGED <<orderTables, items, ledger, receipts>>

StageDeleteCategory(c, k) ==
  /\ MaySend(c, "deleteCategory")
  /\ IF CategoryActive(k)
     THEN Suspend(c, OnCategory("deleteCategory", k, "countUses"))
     ELSE Answer(c, "not_found")
  /\ UNCHANGED tables

CategoryInUse(k) == \E i \in Items : ItemActive(i) /\ items[i].category = k

DeleteCategoryCount(c) ==
  /\ InFlight(c, "deleteCategory", "countUses")
  /\ IF CategoryInUse(req[c].category) THEN Answer(c, "conflict") ELSE Await(c, "commit")
  /\ UNCHANGED tables

DeleteCategoryGuard(k) == CategoryActive(k) /\ ~CategoryInUse(k)

CommitDeleteCategory(c) ==
  LET k == req[c].category
  IN /\ InFlight(c, "deleteCategory", "commit")
     /\ IF DeleteCategoryGuard(k)
        THEN /\ categories' = [categories EXCEPT ![k] = "deleted"]
             /\ Answer(c, "ok")
             /\ UNCHANGED <<orderTables, items, ledger, receipts>>
        ELSE Answer(c, "conflict") /\ UNCHANGED tables

-----------------------------------------------------------------------------
(* Items *)

(* Bound: a create request finds an unused item id when it commits. *)
SpareItem ==
  Cardinality({d \in Clients : req[d].op = "createItem" /\ req[d].at = "commit"})
    < Cardinality({i \in Items : items[i] = NoItemYet})

(* The category a new item or a move names is looked up first. *)
CategoryRefused(k) == k # None /\ ~CategoryActive(k)

StageCreateItem(c, k, stock) ==
  /\ MaySend(c, "createItem")
  /\ SpareItem
  /\ IF CategoryRefused(k) THEN Answer(c, "invalid")
     ELSE Suspend(c, [OnCategory("createItem", k, "commit") EXCEPT !.qty = stock])
  /\ UNCHANGED tables

(* The item with its initial stock, and that stock as its first ledger row. *)
CommitCreateItem(c, i) ==
  LET r == req[c]
  IN /\ InFlight(c, "createItem", "commit")
     /\ items[i] = NoItemYet
     /\ IF WriteItemAborts(r.category, r.qty) THEN Answer(c, "error") /\ UNCHANGED tables
        ELSE /\ items' = [items EXCEPT ![i] =
                  [life |-> "active", category |-> r.category, stock |-> r.qty]]
             /\ ledger' = [ledger EXCEPT ![i] = r.qty]
             /\ Await(c, "readBack")
             /\ UNCHANGED <<orderTables, categories, receipts>>

StageMoveItem(c, i, k) ==
  /\ MaySend(c, "moveItem")
  /\ IF CategoryRefused(k) THEN Answer(c, "invalid")
     ELSE Suspend(c, [OnItem("moveItem", i, "readItem") EXCEPT !.category = k])
  /\ UNCHANGED tables

MoveItemRead(c) ==
  /\ InFlight(c, "moveItem", "readItem")
  /\ IF ItemActive(req[c].item) THEN Await(c, "commit") ELSE Answer(c, "not_found")
  /\ UNCHANGED tables

CommitMoveItem(c) ==
  LET i == req[c].item
      k == req[c].category
  IN /\ InFlight(c, "moveItem", "commit")
     /\ IF ~ItemActive(i) THEN Answer(c, "conflict") /\ UNCHANGED tables
        ELSE IF WriteItemAborts(k, items[i].stock) THEN Answer(c, "error") /\ UNCHANGED tables
        ELSE /\ items' = [items EXCEPT ![i].category = k]
             /\ Await(c, "readBack")
             /\ UNCHANGED <<orderTables, categories, ledger, receipts>>

StageDeleteItem(c, i) ==
  /\ MaySend(c, "deleteItem")
  /\ IF ItemActive(i) THEN Suspend(c, OnItem("deleteItem", i, "countUses"))
     ELSE Answer(c, "not_found")
  /\ UNCHANGED tables

(* Mutant: drafts do not count. *)
ItemOutstandingConfirmed(i) ==
  \E o \in Orders : /\ LineActive(o, i)
                    /\ OrderActive(o)
                    /\ orders[o].status \in {"ordered", "partially_received"}

(* An order that is neither finished nor deleted still has a row of i. *)
ItemOutstanding(i) ==
  \E o \in Orders : /\ LineActive(o, i)
                    /\ OrderActive(o)
                    /\ orders[o].status \notin {"fully_received", "canceled"}

DeleteItemCount(c) ==
  /\ InFlight(c, "deleteItem", "countUses")
  /\ IF ItemOutstanding(req[c].item) THEN Answer(c, "conflict") ELSE Await(c, "commit")
  /\ UNCHANGED tables

(* Mutant: the update relies on the count the handler read before. *)
DeleteItemGuardNoRecount(i) == ItemActive(i)

DeleteItemGuard(i) == ItemActive(i) /\ ~ItemOutstanding(i)

CommitDeleteItem(c) ==
  LET i == req[c].item
  IN /\ InFlight(c, "deleteItem", "commit")
     /\ IF ~DeleteItemGuard(i) THEN Answer(c, "conflict") /\ UNCHANGED tables
        ELSE IF WriteItemAborts(items[i].category, items[i].stock)
        THEN Answer(c, "error") /\ UNCHANGED tables
        ELSE /\ items' = [items EXCEPT ![i].life = "deleted"]
             /\ Answer(c, "ok")
             /\ UNCHANGED <<orderTables, categories, ledger, receipts>>

-----------------------------------------------------------------------------
(* Stock adjustment: IN and OUT are deltas, ADJUST is the stock counted.   *)

Delta(kind, qty, stock) ==
  CASE kind = "IN" -> qty
    [] kind = "OUT" -> -qty
    [] kind = "ADJUST" -> qty - stock

(* Bound: no delivery is booked by hand beyond MaxStock. *)
StageAdjustStock(c, i, kind, qty) ==
  /\ MaySend(c, "adjustStock")
  /\ kind = "IN" => items[i].stock + qty <= MaxStock
  /\ IF ~ItemActive(i) THEN Answer(c, "not_found")
     ELSE IF items[i].stock + Delta(kind, qty, items[i].stock) < 0 THEN Answer(c, "invalid")
     ELSE Suspend(c, [OnItem("adjustStock", i, "commit") EXCEPT !.ask = kind, !.qty = qty])
  /\ UNCHANGED tables

(* Mutant: the stock the handler read before is trusted. *)
AdjustGuardNoRecheck(i, delta) == ItemActive(i)

(* The ledger row is inserted only for an active item whose stock the      *)
(* adjustment, computed from the stock of that moment, leaves at 0 or more.*)
AdjustGuard(i, delta) == ItemActive(i) /\ items[i].stock + delta >= 0

AdjustDelta(r) == Delta(r.ask, r.qty, items[r.item].stock)

(* Mutant: the ledger books the quantity of the request, not the change. *)
CommitAdjustStockRaw(c) ==
  LET r == req[c]
      i == r.item
      delta == AdjustDelta(r)
  IN /\ InFlight(c, "adjustStock", "commit")
     /\ IF ~AdjustGuard(i, delta) THEN Answer(c, "conflict") /\ UNCHANGED tables
        ELSE IF WriteItemAborts(items[i].category, items[i].stock + delta)
        THEN Answer(c, "error") /\ UNCHANGED tables
        ELSE /\ ledger' = [ledger EXCEPT ![i] = @ + r.qty]
             /\ items' = [items EXCEPT ![i].stock = @ + delta]
             /\ Await(c, "readBack")
             /\ UNCHANGED <<orderTables, categories, receipts>>

CommitAdjustStock(c) ==
  LET r == req[c]
      i == r.item
      delta == AdjustDelta(r)
  IN /\ InFlight(c, "adjustStock", "commit")
     /\ IF ~AdjustGuard(i, delta) THEN Answer(c, "conflict") /\ UNCHANGED tables
        ELSE IF WriteItemAborts(items[i].category, items[i].stock + delta)
        THEN Answer(c, "error") /\ UNCHANGED tables
        ELSE /\ ledger' = [ledger EXCEPT ![i] = @ + delta]
             /\ items' = [items EXCEPT ![i].stock = @ + delta]
             /\ Await(c, "readBack")
             /\ UNCHANGED <<orderTables, categories, receipts>>

-----------------------------------------------------------------------------
(* What clients may send, and the steps of the handlers. *)

SendInventoryRequest(c) ==
  \/ \E k \in Categories : CreateCategory(c, k) \/ StageDeleteCategory(c, k)
  \/ \E k \in Categories \cup {None} :
       \/ \E stock \in Quantities \cup {0} : StageCreateItem(c, k, stock)
       \/ \E i \in Items : StageMoveItem(c, i, k)
  \/ \E i \in Items :
       \/ StageDeleteItem(c, i)
       \/ \E kind \in {"IN", "OUT"}, qty \in Quantities : StageAdjustStock(c, i, kind, qty)
       \/ \E qty \in Quantities \cup {0} : StageAdjustStock(c, i, "ADJUST", qty)

InventoryHandlerStep(c) ==
  \/ DeleteCategoryCount(c) \/ CommitDeleteCategory(c)
  \/ \E i \in Items : CommitCreateItem(c, i)
  \/ MoveItemRead(c) \/ CommitMoveItem(c)
  \/ DeleteItemCount(c) \/ CommitDeleteItem(c)
  \/ CommitAdjustStock(c)
=============================================================================
