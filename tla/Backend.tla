------------------------------- MODULE Backend -------------------------------
(***************************************************************************)
(* The API Worker: purchase-order and inventory requests served            *)
(* concurrently over one D1 database, and what must hold of that database  *)
(* and of the replies whatever the interleaving.                           *)
(***************************************************************************)
EXTENDS PurchaseOrders, Inventory

(* A request dies between two awaits: the isolate is evicted, D1 fails or  *)
(* the client goes away.  The client sees no reply, committed or not.      *)
Abandon(c) ==
  /\ req[c].at # "idle"
  /\ Answer(c, "lost")
  /\ UNCHANGED tables

HandlerStep(c) == OrderHandlerStep(c) \/ InventoryHandlerStep(c)

Next ==
  \E c \in Clients :
    SendOrderRequest(c) \/ SendInventoryRequest(c) \/ HandlerStep(c) \/ Abandon(c)

(* The runtime keeps running a handler that can go on; nothing obliges a   *)
(* client to send anything, or a request to be lost.                       *)
Fairness == \A c \in Clients : WF_vars(HandlerStep(c))

Spec == TablesInit /\ [][Next]_vars /\ Fairness

-----------------------------------------------------------------------------
(***************************************************************************)
(* Invariants of the database.                                             *)
(***************************************************************************)

(* Every table and every request in flight has the values the schema and   *)
(* the handlers allow; in particular no batch drives a stock, an ordered   *)
(* or a received quantity below zero.                                      *)
TypeOK == TablesTypeOK

Placed == {"ordered", "partially_received", "fully_received"}

(* The stored status of a confirmed order is the one its rows imply, and a *)
(* confirmed order has rows: confirming, adding, receiving and deleting    *)
(* never leave the column and the rows saying different things.            *)
Complete(o) == \A i \in Items : LineActive(o, i) => lines[o][i].received = lines[o][i].ordered

StatusMatchesRows ==
  \A o \in Orders :
    orders[o].status \in Placed =>
      /\ HasLines(o)
      /\ orders[o].status = "fully_received" <=> Complete(o)
      /\ orders[o].status = "ordered" <=> ~HasReceipts(o)

(* Nothing is received beyond what was ordered, nor before confirmation,   *)
(* nor on a canceled order: a cancellation, a deletion and a receipt that  *)
(* overlap cannot both succeed.                                            *)
ReceiptsAreWithinOrders ==
  \A o \in Orders, i \in Items :
    /\ lines[o][i].received <= lines[o][i].ordered
    /\ lines[o][i].received > 0 =>
         ~orders[o].deleted /\ orders[o].status \in {"partially_received", "fully_received"}

(* Rows live and die with their order: no active row under a deleted or    *)
(* missing order, and a deletion leaves no row behind, even when rows are  *)
(* being added at the same time.                                           *)
RowsFollowTheirOrder ==
  \A o \in Orders, i \in Items :
    /\ LineActive(o, i) => OrderActive(o) /\ lines[o][i].ordered > 0
    /\ lines[o][i].life = "deleted" => orders[o].deleted
    /\ lines[o][i].life = "absent" => lines[o][i] = NoLine

(* An order that is still open refers only to items that are not deleted:  *)
(* item deletion and the writes that add an item to an order exclude each  *)
(* other, though each checks before it writes.                             *)
OpenRowsHaveActiveItems ==
  \A o \in Orders, i \in Items :
    LineActive(o, i) /\ orders[o].status \notin {"fully_received", "canceled"} =>
      ItemActive(i)

(* An active item is never in a deleted category, which the triggers would *)
(* punish by aborting every later write of that item's stock.              *)
ActiveItemsHaveActiveCategories ==
  \A i \in Items : ItemActive(i) /\ items[i].category # None => CategoryActive(items[i].category)

(* The stock of an item is the sum of its ledger, and what a row received  *)
(* is the sum of its IN movements: no receipt, adjustment or item creation *)
(* changes one without the other.                                          *)
LedgerExplainsStock ==
  /\ \A i \in Items : items[i].stock = ledger[i]
  /\ \A o \in Orders, i \in Items : lines[o][i].received = receipts[o][i]

(* No order is stuck: every row a confirmed order still waits for can be   *)
(* received now, and every draft can be deleted now.  What a catalogue     *)
(* change leaves behind never makes the batches of receive or deleteDraft  *)
(* refuse a request that its pre-reads let through.                        *)
NoOrderIsStuck ==
  \A o \in Orders :
    /\ ActiveDraft(o) => DeleteOrderGuard(o)
    /\ Receivable(o) =>
         \E i \in Items : /\ LineActive(o, i)
                          /\ ReceiptGuard(o, i, 1)
                          /\ ~ReceiptAborts(o, i, 1)

(* The two reads of getDetail fit together: the rows read after a header   *)
(* that said canceled or finished are those of a canceled or finished      *)
(* order, and a confirmed header is never followed by an empty list.       *)
AwaitsLines(r) == r.op = "getDetail" /\ r.at = "readLines"

LinesFitHeader(o, was) ==
  /\ was \in Placed => HasLines(o)
  /\ was = "fully_received" => Complete(o)
  /\ was = "partially_received" => HasReceipts(o)
  /\ was = "canceled" => ~HasReceipts(o)

DetailIsCoherent ==
  \A c \in Clients : AwaitsLines(req[c]) => LinesFitHeader(req[c].order, req[c].was)

(***************************************************************************)
(* What a request carries, beyond its type, once its handler has let it    *)
(* past the first read: the ids its operation acts on, a positive quantity *)
(* to order or receive, a transition that is not refused, and rows to      *)
(* extend that do exist.                                                   *)
(***************************************************************************)
WellFormed(r) ==
  /\ r.op \in {"addItems", "editItem", "receive", "revise", "deleteDraft", "getDetail"} =>
       r.order \in Orders
  /\ r.op \in {"editItem", "receive", "moveItem", "deleteItem", "adjustStock"} =>
       r.item \in Items
  /\ r.op = "deleteCategory" => r.category \in Categories
  /\ r.op \in {"editItem", "receive"} => r.qty > 0
  /\ r.op = "adjustStock" => r.ask \in {"IN", "OUT", "ADJUST"}
  /\ r.op = "revise" =>
       /\ r.ask \in RequestableStatuses \cup {"metadata"}
       /\ r.ask # "metadata" => ~TransitionRefused(r.was, r.ask)
  /\ r.at = "checkItem" => r.op \in {"createWithItems", "addItems"}
  /\ r.at = "scanLine" => r.op = "addItems"
  /\ r.op # "none" => r.at # "idle" /\ r.reply = "none"
  /\ r.existing # {} => r.op = "addItems"
  /\ \A i \in r.existing : lines[r.order][i].life # "absent"

RequestsWellFormed == \A c \in Clients : WellFormed(req[c])

(* A header that getDetail read is still true enough: statuses only move   *)
(* forward.                                                                *)
HeaderStillTrue(o, was) ==
  /\ was \in Placed => orders[o].status \in Placed \cup {"canceled"}
  /\ was = "partially_received" => orders[o].status \in {"partially_received", "fully_received"}
  /\ was \in {"fully_received", "canceled"} => orders[o].status = was

HeadersHold ==
  \A c \in Clients : AwaitsLines(req[c]) => HeaderStillTrue(req[c].order, req[c].was)

(* The inductive invariant. *)
TablesSound ==
  /\ StatusMatchesRows
  /\ ReceiptsAreWithinOrders
  /\ RowsFollowTheirOrder
  /\ OpenRowsHaveActiveItems
  /\ ActiveItemsHaveActiveCategories
  /\ LedgerExplainsStock

IndInv == TypeOK /\ RequestsWellFormed /\ TablesSound /\ HeadersHold /\ DetailIsCoherent

-----------------------------------------------------------------------------
(***************************************************************************)
(* Properties of steps and behaviours.                                     *)
(***************************************************************************)

OrderOperations ==
  {"createDraft", "createWithItems", "addItems", "editItem", "receive", "revise",
   "deleteDraft", "getDetail"}

(* No purchase-order request ends in a 500: revise and editItem do not     *)
(* catch a trigger's abort, so their guards must rule every abort out.     *)
OrderRequestsNeverFail ==
  [][\A c \in Clients : req[c].op \in OrderOperations => req'[c].reply # "error"]_vars

(* Nor does an adjustment of stock or the deletion of an item, which do    *)
(* not catch an abort either: what their batches repeat of the checks must *)
(* rule out a stock below zero, whatever was booked since the check.       *)
StockRequestsNeverFail ==
  [][\A c \in Clients :
       req[c].op \in {"adjustStock", "deleteItem"} => req'[c].reply # "error"]_vars

(* An acknowledged add raises every wanted row by exactly what was asked,  *)
(* counted from the row of that moment: a row that another request         *)
(* inserted after this one looked for it is neither overwritten nor        *)
(* doubled.                                                                *)
AcknowledgedAddsAccumulate ==
  [][\A c \in Clients :
       InFlight(c, "addItems", "commit") /\ req'[c].at = "readBack" =>
         \A i \in Wanted(req[c]) :
           lines'[req[c].order][i].ordered =
             lines[req[c].order][i].ordered + req[c].want[i]]_vars

(* A handler whose batch lost a race answers 409: none ends in a 500       *)
(* because a trigger noticed what its guard had not.                       *)
LostRacesAnswerConflict ==
  [][\A c \in Clients : req[c].at = "commit" => req'[c].reply # "error"]_vars

(* The audit entry of a revision holds the row as the handler read it      *)
(* (before) and as the batch left it (after): between the two lies this    *)
(* revision and nothing else.                                              *)
AuditedBeforeIsPrevious ==
  [][\A c \in Clients :
       InFlight(c, "revise", "commit") /\ req'[c].at = "readBack" =>
         req[c].was = orders[req[c].order].status]_vars

(* The handlers together implement the lifecycle: see OrderLifecycle.      *)
Phase(o) ==
  IF orders[o].deleted THEN "discarded"
  ELSE CASE orders[o].status = "absent" -> "none"
         [] orders[o].status \in {"draft", "canceled"} -> orders[o].status
         [] OTHER -> "placed"

Lifecycle == INSTANCE OrderLifecycle
               WITH phase <- [o \in Orders |-> Phase(o)],
                    ordered <- [o \in Orders |-> [i \in Items |-> lines[o][i].ordered]],
                    received <- [o \in Orders |-> [i \in Items |-> lines[o][i].received]]

(* Whatever requests overlap, each order goes through the lifecycle.       *)
ImplementsLifecycle == Lifecycle!Spec

(* Every request is answered or lost: no handler waits for ever, its       *)
(* read loops included.                                                    *)
EveryRequestEnds ==
  \A c \in Clients : (req[c].at # "idle") ~> (req[c].at = "idle")
=============================================================================
