--------------------------- MODULE PurchaseOrders ---------------------------
(***************************************************************************)
(* src/purchase-orders.ts and its routes: the life of a purchase order     *)
(* from draft to receipt.  Every handler reads, awaits, and then writes in *)
(* one conditional D1 batch, so between its reads and its batch any other  *)
(* request may commit.  One action is one D1 call of a handler.            *)
(*                                                                         *)
(* In a batch the statements look for the token the first one wrote, or    *)
(* for its operation row: what that one matches is the batch's guard       *)
(* operator, and the triggers the others run into are the Aborts operators *)
(* of Tables.                                                              *)
(***************************************************************************)
EXTENDS Tables

(* The request op(o) has passed its first read and waits in at. *)
Staged(op, o, at) == [Idle EXCEPT !.op = op, !.order = o, !.at = at]

(* Every handler that wrote reads the row back for its reply. *)
ReadBack(c) ==
  /\ req[c].at = "readBack"
  /\ Answer(c, "ok")
  /\ UNCHANGED tables

-----------------------------------------------------------------------------
(* createDraft *)

(* Bound: a create request finds an unused order id when it commits. *)
SpareOrder ==
  Cardinality({d \in Clients : req[d].op = "createWithItems" /\ req[d].at # "readBack"})
    < Cardinality({o \in Orders : orders[o] = NoOrderYet})

CreateDraft(c, o, asked) ==
  /\ MaySend(c, "createDraft")
  /\ IF asked # "draft"
     THEN Answer(c, "invalid") /\ UNCHANGED tables
     ELSE /\ SpareOrder
          /\ orders[o] = NoOrderYet
          /\ orders' = [orders EXCEPT ![o].status = "draft"]
          /\ Suspend(c, Staged("createDraft", o, "readBack"))
          /\ UNCHANGED <<lines, stockTables, receipts>>

-----------------------------------------------------------------------------
(* createDraftWithItems and addItemsToDraft share the loop that looks up   *)
(* every wanted item, in the order the client listed them.                 *)

BeginCreateWithItems(c, want) ==
  LET r == [Staged("createWithItems", None, "checkItem") EXCEPT !.want = want]
  IN /\ MaySend(c, "createWithItems")
     /\ SpareOrder
     /\ IF Wanted(r) = {} THEN Answer(c, "invalid")
        ELSE Suspend(c, [r EXCEPT !.todo = Wanted(r)])
     /\ UNCHANGED tables

(* Bound: the draft has room for everything being added to it. *)
Room(o, want) ==
  \A i \in Items :
    want[i] > 0 =>
      lines[o][i].ordered + want[i]
        + MapThenSumSet(LAMBDA d : IF req[d].op = "addItems" /\ req[d].order = o
                                   THEN req[d].want[i] ELSE 0, Clients) <= MaxOrdered

StageAddItems(c, o, want) ==
  LET r == [Staged("addItems", o, "checkItem") EXCEPT !.want = want]
  IN /\ MaySend(c, "addItems")
     /\ Room(o, want)
     /\ IF ~OrderActive(o) THEN Answer(c, "not_found")
        ELSE IF ~ActiveDraft(o) \/ Wanted(r) = {} THEN Answer(c, "invalid")
        ELSE Suspend(c, [r EXCEPT !.todo = Wanted(r)])
     /\ UNCHANGED tables

(* Mutant: the read loop does not move on. *)
LeftTodoStalled(r, i) == r.todo

LeftTodo(r, i) == r.todo \ {i}

(* After its last item a create commits; an add looks its rows up next. *)
CheckItem(c, i) ==
  LET r == req[c]
      left == LeftTodo(r, i)
      creating == r.op = "createWithItems"
      next == IF left # {} THEN "checkItem" ELSE IF creating THEN "commit" ELSE "scanLine"
  IN /\ r.at = "checkItem"
     /\ i \in r.todo
     /\ IF ~ItemActive(i) THEN Answer(c, "invalid")
        ELSE Suspend(c, [r EXCEPT !.at = next,
                                  !.todo = IF next = "scanLine" THEN Wanted(r) ELSE left])
     /\ UNCHANGED tables

ScanLine(c, i) ==
  LET r == req[c]
      left == LeftTodo(r, i)
      found == IF LineActive(r.order, i) THEN {i} ELSE {}
  IN /\ r.at = "scanLine"
     /\ i \in r.todo
     /\ Suspend(c, [r EXCEPT !.at = IF left = {} THEN "commit" ELSE "scanLine",
                             !.todo = left, !.existing = @ \cup found])
     /\ UNCHANGED tables

NewLine(qty) == [life |-> "active", ordered |-> qty, received |-> 0]

CommitCreateWithItems(c, o) ==
  LET r == req[c]
      aborts == \E i \in Wanted(r) :
                  InsertLineAborts(i, NewLine(r.want[i]), TRUE, LineActive(o, i))
  IN /\ InFlight(c, "createWithItems", "commit")
     /\ orders[o] = NoOrderYet
     /\ IF aborts
        THEN Answer(c, "conflict") /\ UNCHANGED tables
        ELSE /\ orders' = [orders EXCEPT ![o].status = "draft"]
             /\ lines' = [lines EXCEPT ![o] =
                  [i \in Items |-> IF i \in Wanted(r) THEN NewLine(r.want[i]) ELSE @[i]]]
             /\ Await(c, "readBack")
             /\ UNCHANGED <<stockTables, receipts>>

(* The row of a wanted item: the one the scan found is extended, whatever  *)
(* became of it; any other is inserted.                                    *)
AddedLine(r, i) ==
  IF i \in r.existing THEN [lines[r.order][i] EXCEPT !.ordered = @ + r.want[i]]
  ELSE NewLine(r.want[i])

(* Mutant: the conditional write forgets the draft status. *)
AddItemsGuardAnyStatus(o) == OrderActive(o)

AddItemsGuard(o) == ActiveDraft(o)

(* Mutant: order_items without its unique index. *)
AddLineAbortsNoUniqueIndex(r, i) ==
  IF i \in r.existing THEN UpdateLineAborts(i, AddedLine(r, i), OrderActive(r.order))
  ELSE InsertLineAborts(i, AddedLine(r, i), OrderActive(r.order), FALSE)

AddLineAborts(r, i) ==
  IF i \in r.existing THEN UpdateLineAborts(i, AddedLine(r, i), OrderActive(r.order))
  ELSE InsertLineAborts(i, AddedLine(r, i), OrderActive(r.order), LineActive(r.order, i))

CommitAddItems(c) ==
  LET r == req[c]
      o == r.order
  IN /\ InFlight(c, "addItems", "commit")
     /\ IF ~AddItemsGuard(o) \/ (\E i \in Wanted(r) : AddLineAborts(r, i))
        THEN Answer(c, "conflict") /\ UNCHANGED tables
        ELSE /\ lines' = [lines EXCEPT ![o] =
                  [i \in Items |-> IF i \in Wanted(r) THEN AddedLine(r, i) ELSE @[i]]]
             /\ Await(c, "readBack")
             /\ UNCHANGED <<orders, stockTables, receipts>>

-----------------------------------------------------------------------------
(* editDraftItem: order, row, batch.  Its batch is not in a try block: a   *)
(* trigger that aborts it surfaces as a 500.                               *)

StageEditItem(c, o, i, qty) ==
  /\ MaySend(c, "editItem")
  /\ IF ~OrderActive(o) THEN Answer(c, "not_found")
     ELSE IF ~ActiveDraft(o) THEN Answer(c, "invalid")
     ELSE Suspend(c, [Staged("editItem", o, "readLine") EXCEPT !.item = i, !.qty = qty])
  /\ UNCHANGED tables

EditReadLine(c) ==
  LET r == req[c]
  IN /\ InFlight(c, "editItem", "readLine")
     /\ IF ~LineActive(r.order, r.item) THEN Answer(c, "not_found")
        ELSE IF lines[r.order][r.item].received > r.qty THEN Answer(c, "invalid")
        ELSE Await(c, "commit")
     /\ UNCHANGED tables

(* Mutant: the row alone is checked, not that its order is still a draft. *)
EditGuardAnyStatus(o, i) == OrderActive(o) /\ LineActive(o, i)

EditGuard(o, i) == ActiveDraft(o) /\ LineActive(o, i)

CommitEditItem(c) ==
  LET r == req[c]
      o == r.order
      edited == [lines[o][r.item] EXCEPT !.ordered = r.qty]
  IN /\ InFlight(c, "editItem", "commit")
     /\ IF ~EditGuard(o, r.item) THEN Answer(c, "conflict") /\ UNCHANGED tables
        ELSE IF UpdateLineAborts(r.item, edited, OrderActive(o))
        THEN Answer(c, "error") /\ UNCHANGED tables
        ELSE /\ lines' = [lines EXCEPT ![o][r.item] = edited]
             /\ Await(c, "readBack")
             /\ UNCHANGED <<orders, stockTables, receipts>>

-----------------------------------------------------------------------------
(* receive: order, row, batch. *)

StageReceive(c, o, i, qty) ==
  /\ MaySend(c, "receive")
  /\ IF ~OrderActive(o) THEN Answer(c, "not_found")
     ELSE IF ~Receivable(o) THEN Answer(c, "invalid")
     ELSE Suspend(c, [Staged("receive", o, "readLine") EXCEPT !.item = i, !.qty = qty])
  /\ UNCHANGED tables

ReceiveReadLine(c) ==
  LET r == req[c]
      line == lines[r.order][r.item]
  IN /\ InFlight(c, "receive", "readLine")
     /\ IF line.life # "active" THEN Answer(c, "not_found")
        ELSE IF r.qty > line.ordered - line.received THEN Answer(c, "conflict")
        ELSE Await(c, "commit")
     /\ UNCHANGED tables

(* The conditional insert of the receipt in the ledger. *)
ReceiptGuard(o, i, qty) ==
  /\ LineActive(o, i)
  /\ Receivable(o)
  /\ ItemActive(i)
  /\ lines[o][i].received + qty <= lines[o][i].ordered

(* Mutant: one finished row finishes the order. *)
DerivedStatusAnyRow(rows) ==
  LET live == {i \in Items : rows[i].life = "active"}
  IN IF \E i \in live : rows[i].received >= rows[i].ordered THEN "fully_received"
     ELSE IF \E i \in live : rows[i].received > 0 THEN "partially_received"
     ELSE "ordered"

(* Mutant: a single unit received does not count. *)
DerivedStatusOffByOne(rows) ==
  LET live == {i \in Items : rows[i].life = "active"}
  IN IF live # {} /\ \A i \in live : rows[i].received >= rows[i].ordered
     THEN "fully_received"
     ELSE IF \E i \in live : rows[i].received > 1 THEN "partially_received"
     ELSE "ordered"

(* The status an order with these rows has once a receipt is booked. *)
DerivedStatus(rows) ==
  LET live == {i \in Items : rows[i].life = "active"}
  IN IF live # {} /\ \A i \in live : rows[i].received >= rows[i].ordered
     THEN "fully_received"
     ELSE IF \E i \in live : rows[i].received > 0 THEN "partially_received"
     ELSE "ordered"

(* The rows of o with the receipt booked, and what the triggers on them,   *)
(* on the item and on the order make of it.                                *)
ReceivedRows(o, i, qty) == [lines[o] EXCEPT ![i].received = @ + qty]

ReceiptAborts(o, i, qty) ==
  LET rows == ReceivedRows(o, i, qty)
  IN \/ UpdateLineAborts(i, rows[i], OrderActive(o))
     \/ WriteItemAborts(items[i].category, items[i].stock + qty)
     \/ UpdateStatusAborts(orders[o].status, DerivedStatus(rows))

CommitReceive(c) ==
  LET o == req[c].order
      i == req[c].item
      qty == req[c].qty
  IN /\ InFlight(c, "receive", "commit")
     /\ IF ~ReceiptGuard(o, i, qty) \/ ReceiptAborts(o, i, qty)
        THEN Answer(c, "conflict") /\ UNCHANGED tables
        ELSE /\ ledger' = [ledger EXCEPT ![i] = @ + qty]
             /\ receipts' = [receipts EXCEPT ![o][i] = @ + qty]
             /\ lines' = [lines EXCEPT ![o] = ReceivedRows(o, i, qty)]
             /\ items' = [items EXCEPT ![i].stock = @ + qty]
             /\ orders' = [orders EXCEPT ![o].status = DerivedStatus(ReceivedRows(o, i, qty))]
             /\ Await(c, "readBack")
             /\ UNCHANGED categories

-----------------------------------------------------------------------------
(* revise: the order, then the receipts when it cancels or the rows when   *)
(* it confirms, then one conditional update.  "metadata" is a change of    *)
(* title, note or reference alone.                                         *)

RequestableStatuses == {"draft", "ordered", "canceled"}

TransitionRefused(was, ask) ==
  /\ ask # was
  /\ \/ ask = "draft"
     \/ ask = "ordered" /\ was # "draft"
     \/ ask = "canceled" /\ was \notin {"draft", "ordered"}

StageRevise(c, o, ask) ==
  LET was == orders[o].status
      next == CASE ask = "ordered" -> "countLines"
                [] ask = "canceled" /\ was # "canceled" -> "sumReceipts"
                [] OTHER -> "commit"
  IN /\ MaySend(c, "revise")
     /\ IF ask \notin RequestableStatuses \cup {"metadata"} THEN Answer(c, "invalid")
        ELSE IF ~OrderActive(o) THEN Answer(c, "not_found")
        ELSE IF ask # "metadata" /\ TransitionRefused(was, ask) THEN Answer(c, "invalid")
        ELSE Suspend(c, [Staged("revise", o, next) EXCEPT !.ask = ask, !.was = was])
     /\ UNCHANGED tables

ReviseSumReceipts(c) ==
  /\ InFlight(c, "revise", "sumReceipts")
  /\ IF HasReceipts(req[c].order) THEN Answer(c, "invalid") ELSE Await(c, "commit")
  /\ UNCHANGED tables

ReviseCountLines(c) ==
  /\ InFlight(c, "revise", "countLines")
  /\ IF ~HasLines(req[c].order) THEN Answer(c, "invalid") ELSE Await(c, "commit")
  /\ UNCHANGED tables

(* Mutant: the update does not compare the status it read. *)
ReviseGuardNoCompare(r) ==
  /\ OrderActive(r.order)
  /\ r.ask = "ordered" => HasLines(r.order)
  /\ r.ask = "canceled" => ~HasReceipts(r.order)

(* The WHERE clause: the status the request read must still be there, and  *)
(* so must what it counted.                                                *)
ReviseGuard(r) ==
  /\ OrderActive(r.order)
  /\ r.ask # "metadata" => orders[r.order].status = r.was
  /\ r.ask = "ordered" => HasLines(r.order)
  /\ r.ask = "canceled" => ~HasReceipts(r.order)

CommitRevise(c) ==
  LET r == req[c]
      status == IF r.ask = "metadata" THEN orders[r.order].status ELSE r.ask
  IN /\ InFlight(c, "revise", "commit")
     /\ IF ~ReviseGuard(r) THEN Answer(c, "conflict") /\ UNCHANGED tables
        ELSE IF UpdateStatusAborts(orders[r.order].status, status)
        THEN Answer(c, "error") /\ UNCHANGED tables
        ELSE /\ orders' = [orders EXCEPT ![r.order].status = status]
             /\ Await(c, "readBack")
             /\ UNCHANGED <<lines, stockTables, receipts>>

-----------------------------------------------------------------------------
(* deleteDraft *)

StageDeleteDraft(c, o) ==
  /\ MaySend(c, "deleteDraft")
  /\ IF ~OrderActive(o) THEN Answer(c, "not_found")
     ELSE IF ~ActiveDraft(o) THEN Answer(c, "conflict")
     ELSE Suspend(c, Staged("deleteDraft", o, "commit"))
  /\ UNCHANGED tables

NothingReceived(o) == \A i \in Items : lines[o][i].received = 0

(* Mutant: the rows are deleted unconditionally. *)
DeleteRowsGuardNone(o) == TRUE

(* The batch's two updates, of the rows and of the order, repeat it. *)
DeleteRowsGuard(o) == ActiveDraft(o) /\ NothingReceived(o)
DeleteOrderGuard(o) == ActiveDraft(o) /\ NothingReceived(o)

DeletedRow(row) == IF row.life = "active" THEN [row EXCEPT !.life = "deleted"] ELSE row

CommitDeleteDraft(c) ==
  LET o == req[c].order
  IN /\ InFlight(c, "deleteDraft", "commit")
     /\ lines' = IF DeleteRowsGuard(o)
                 THEN [lines EXCEPT ![o] = [i \in Items |-> DeletedRow(@[i])]]
                 ELSE lines
     /\ IF DeleteOrderGuard(o)
        THEN orders' = [orders EXCEPT ![o].deleted = TRUE] /\ Answer(c, "ok")
        ELSE Answer(c, "conflict") /\ UNCHANGED orders
     /\ UNCHANGED <<stockTables, receipts>>

-----------------------------------------------------------------------------
(* getDetail: the order and its rows are two reads. *)

StageGetDetail(c, o) ==
  /\ MaySend(c, "getDetail")
  /\ IF ~OrderActive(o) THEN Answer(c, "not_found")
     ELSE Suspend(c, [Staged("getDetail", o, "readLines") EXCEPT !.was = orders[o].status])
  /\ UNCHANGED tables

DetailReadLines(c) ==
  /\ InFlight(c, "getDetail", "readLines")
  /\ Answer(c, "ok")
  /\ UNCHANGED tables

-----------------------------------------------------------------------------
(* What clients may send, and the steps of the handlers. *)

Wants == [Items -> Quantities \cup {0}]

SendOrderRequest(c) ==
  \/ \E o \in Orders, asked \in {"draft", "ordered"} : CreateDraft(c, o, asked)
  \/ \E want \in Wants : BeginCreateWithItems(c, want)
  \/ \E o \in Orders :
       \/ \E want \in Wants : StageAddItems(c, o, want)
       \/ \E i \in Items, qty \in Quantities :
            \/ StageEditItem(c, o, i, qty)
            \/ StageReceive(c, o, i, qty)
       \/ \E ask \in RequestableStatuses \cup {"metadata", "partially_received"} :
            StageRevise(c, o, ask)
       \/ StageDeleteDraft(c, o)
       \/ StageGetDetail(c, o)

OrderHandlerStep(c) ==
  \/ ReadBack(c)
  \/ \E i \in Items : CheckItem(c, i) \/ ScanLine(c, i)
  \/ \E o \in Orders : CommitCreateWithItems(c, o)
  \/ CommitAddItems(c)
  \/ EditReadLine(c) \/ CommitEditItem(c)
  \/ ReceiveReadLine(c) \/ CommitReceive(c)
  \/ ReviseSumReceipts(c) \/ ReviseCountLines(c) \/ CommitRevise(c)
  \/ CommitDeleteDraft(c)
  \/ DetailReadLines(c)
=============================================================================
