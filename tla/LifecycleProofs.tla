--------------------------- MODULE LifecycleProofs ---------------------------
(***************************************************************************)
(* What follows from the invariant of BackendProofs: every open order can  *)
(* move on, no purchase-order request ends in a 500, the integrity audit   *)
(* finds no order to repair, and the handlers implement OrderLifecycle.    *)
(***************************************************************************)
EXTENDS BackendProofs, IntegrityAudit, FiniteSetTheorems

(* An order that can be received has a row that is still waited for, and   *)
(* the batch that receives one of it runs into no guard and no trigger.    *)
LEMMA ReceivableOrderMoves ==
  ASSUME IndInv, NEW o \in Orders, Receivable(o)
  PROVE  \E i \in Items : LineActive(o, i) /\ ReceiptGuard(o, i, 1) /\ ~ReceiptAborts(o, i, 1)
<1>1. /\ orders[o].status \in {"ordered", "partially_received"} /\ OrderActive(o)
      /\ StatusSound(o) /\ lines[o] \in [Items -> Line]
      /\ \A i \in Items : RowSound(o, i) /\ lines[o][i] \in Line
  BY EveryOrderIsSound DEF Receivable
<1>2. PICK i \in Items : LineActive(o, i) /\ lines[o][i].received # lines[o][i].ordered
  BY <1>1 DEF StatusSound, Placed, Complete
<1>3. /\ lines[o][i].ordered \in Nat /\ lines[o][i].received \in Nat
      /\ lines[o][i].received + 1 <= lines[o][i].ordered
      /\ ItemActive(i)
  BY <1>1, <1>2 DEF RowSound, Line
<1>4. ReceiptGuard(o, i, 1)
  BY <1>2, <1>3 DEF ReceiptGuard
<1> DEFINE rows == ReceivedRows(o, i, 1)
<1>5. /\ rows[i].life = "active" /\ rows[i].ordered = lines[o][i].ordered
      /\ rows[i].received = lines[o][i].received + 1
  BY <1>1, <1>2, <1>3 DEF ReceivedRows, LineActive, Line
<1> HIDE DEF rows
<1>6. ~UpdateLineAborts(i, rows[i], OrderActive(o))
  BY <1>1, <1>3, <1>5 DEF UpdateLineAborts
<1>7. ~WriteItemAborts(items[i].category, items[i].stock + 1)
  <2>1. items[i].stock \in Nat
    BY DEF IndInv, TypeOK, TablesTypeOK, Item
  <2> QED
    BY <1>3, <2>1 DEF WriteItemAborts, IndInv, TablesSound, ActiveItemsHaveActiveCategories
<1>8. DerivedStatus(rows) \in {"partially_received", "fully_received"}
  BY <1>3, <1>5 DEF DerivedStatus
<1>9. ~UpdateStatusAborts(orders[o].status, DerivedStatus(rows))
  BY <1>1, <1>8 DEF UpdateStatusAborts, LegalStatusEdges
<1> QED
  BY <1>2, <1>4, <1>6, <1>7, <1>9 DEF ReceiptAborts, rows

(* No order is ever stuck: a draft can be deleted, and a confirmed order   *)
(* received until it is finished.                                          *)
THEOREM NothingStuck == Spec => []NoOrderIsStuck
<1>1. ASSUME IndInv PROVE NoOrderIsStuck
  <2>1. ASSUME NEW o \in Orders, ActiveDraft(o) PROVE DeleteOrderGuard(o)
    <3>1. \A i \in Items : lines[o][i] \in Line /\ RowSound(o, i) /\ orders[o].status = "draft"
      BY <1>1, <2>1, EveryOrderIsSound DEF ActiveDraft
    <3> QED
      BY <2>1, <3>1 DEF DeleteOrderGuard, NothingReceived, RowSound, Line
  <2> QED
    BY <1>1, <2>1, ReceivableOrderMoves DEF NoOrderIsStuck
<1> QED
  BY <1>1, Invariance, PTL

-----------------------------------------------------------------------------
(* A step that is quiet for c does not answer it with an error.            *)
Quiet(c) == \E r : Suspend(c, r) /\ r.reply # "error"

(* Answering anything but an error is quiet.                               *)
LEMMA QuietAnswer ==
  ASSUME NEW c \in Clients, NEW reply \in Replies \ {"error"}, Answer(c, reply)
  PROVE  Quiet(c)
<1>1. [Idle EXCEPT !.reply = reply].reply = reply
  BY DEF Idle
<1> QED
  BY <1>1 DEF Answer, Quiet

(* Moving on is quiet.                                                     *)
LEMMA QuietAwait ==
  ASSUME IndInv, NEW c \in Clients, req[c].op # "none", NEW at, Await(c, at)
  PROVE  Quiet(c)
<1>1. req[c] \in Request /\ req[c].reply = "none"
  BY EveryRequestIsSound DEF RequestSound, WellFormed
<1>2. [req[c] EXCEPT !.at = at].reply = "none"
  BY <1>1 DEF Request
<1> QED
  BY <1>2 DEF Await, Quiet

(* The guard of the edit is stronger than the triggers its update runs     *)
(* into: the row is active, so its item is, and nothing was received yet.  *)
LEMMA EditNeverAborts ==
  ASSUME IndInv, NEW c \in Clients, CommitEditItem(c)
  PROVE  Quiet(c)
<1>1. PICK o \in Orders, i \in Items : o = req[c].order /\ i = req[c].item
  BY EveryRequestIsSound DEF CommitEditItem, InFlight, RequestSound, WellFormed
<1> DEFINE edited == [lines[o][i] EXCEPT !.ordered = req[c].qty]
<1>2. req[c].op = "editItem" /\ req[c].qty \in Nat /\ req[c].qty > 0
  BY EveryRequestIsSound DEF CommitEditItem, InFlight, Request, RequestSound, WellFormed
<1>3. CASE ~EditGuard(o, i)
  BY <1>1, <1>3, QuietAnswer DEF CommitEditItem, Replies
<1>4. CASE EditGuard(o, i)
  <2>1. /\ lines[o][i] \in Line /\ RowSound(o, i) /\ LineActive(o, i)
        /\ OrderActive(o) /\ orders[o].status = "draft"
    BY <1>4, EveryOrderIsSound DEF EditGuard, ActiveDraft
  <2>2. lines[o][i].received = 0 /\ ItemActive(i)
    BY <2>1 DEF RowSound, Line
  <2>3. edited.ordered = req[c].qty /\ edited.received = 0
    BY <2>1, <2>2 DEF Line
  <2> HIDE DEF edited
  <2>4. ~UpdateLineAborts(i, edited, OrderActive(o))
    BY <1>2, <2>1, <2>2, <2>3 DEF UpdateLineAborts
  <2>5. Await(c, "readBack")
    BY <1>1, <1>4, <2>4 DEF CommitEditItem, edited
  <2> QED
    BY <1>2, <2>5, QuietAwait
<1> QED
  BY <1>3, <1>4

(* The guard of the revision compares the status with the one it read, and *)
(* the transition from that one was not refused.                           *)
LEMMA ReviseNeverAborts ==
  ASSUME IndInv, NEW c \in Clients, CommitRevise(c)
  PROVE  Quiet(c)
<1> DEFINE r == req[c]
           o == r.order
           status == IF r.ask = "metadata" THEN orders[o].status ELSE r.ask
<1>1. /\ r.op = "revise"
      /\ r.ask \in RequestableStatuses \cup {"metadata"}
      /\ r.ask # "metadata" => ~TransitionRefused(r.was, r.ask)
  BY EveryRequestIsSound DEF CommitRevise, InFlight, RequestSound, WellFormed
<1>2. CASE ~ReviseGuard(r)
  BY <1>2, QuietAnswer DEF CommitRevise, Replies
<1>3. CASE ReviseGuard(r)
  <2>1. ~UpdateStatusAborts(orders[o].status, status)
    BY <1>1, <1>3 DEF ReviseGuard, TransitionRefused, UpdateStatusAborts, RequestableStatuses,
                      LegalStatusEdges
  <2>2. Await(c, "readBack")
    BY <1>3, <2>1 DEF CommitRevise
  <2> QED
    BY <1>1, <2>2, QuietAwait
<1> QED
  BY <1>2, <1>3

(* The two read loops are quiet.                                           *)
LEMMA CheckItemIsQuiet ==
  ASSUME IndInv, NEW c \in Clients, NEW i \in Items, CheckItem(c, i) \/ ScanLine(c, i)
  PROVE  Quiet(c)
<1>1. req[c] \in Request /\ req[c].reply = "none"
  BY EveryRequestIsSound DEF CheckItem, ScanLine, RequestSound, WellFormed
<1>2. \A at, todo, existing : /\ [req[c] EXCEPT !.at = at, !.todo = todo].reply = "none"
                              /\ [req[c] EXCEPT !.at = at, !.todo = todo, !.existing = existing].reply = "none"
  BY <1>1 DEF Request
<1>3. CASE CheckItem(c, i)
  BY <1>2, <1>3, QuietAnswer DEF CheckItem, Replies, Quiet
<1>4. CASE ScanLine(c, i)
  BY <1>2, <1>4 DEF ScanLine, Quiet
<1> QED
  BY <1>3, <1>4

(* Every step of an order handler is quiet.                                *)
LEMMA OrderHandlersAreQuiet ==
  ASSUME IndInv, NEW c \in Clients, req[c].op # "none", OrderHandlerStep(c)
  PROVE  Quiet(c)
<1>1. CASE CommitEditItem(c) \/ CommitRevise(c) \/ \E i \in Items : CheckItem(c, i) \/ ScanLine(c, i)
  BY <1>1, EditNeverAborts, ReviseNeverAborts, CheckItemIsQuiet
<1>2. CASE ReadBack(c) \/ EditReadLine(c) \/ ReceiveReadLine(c) \/ ReviseSumReceipts(c)
           \/ ReviseCountLines(c) \/ DetailReadLines(c)
  <2>1. Answer(c, "ok") \/ Answer(c, "not_found") \/ Answer(c, "invalid") \/ Answer(c, "conflict")
        \/ Await(c, "commit")
    BY <1>2 DEF ReadBack, EditReadLine, ReceiveReadLine, ReviseSumReceipts, ReviseCountLines,
                DetailReadLines
  <2> QED
    BY <2>1, QuietAnswer, QuietAwait DEF Replies
<1>3. CASE CommitAddItems(c) \/ CommitReceive(c) \/ CommitDeleteDraft(c)
           \/ \E o \in Orders : CommitCreateWithItems(c, o)
  <2>1. Answer(c, "ok") \/ Answer(c, "conflict") \/ Await(c, "readBack")
    BY <1>3 DEF CommitAddItems, CommitReceive, CommitDeleteDraft, CommitCreateWithItems
  <2> QED
    BY <2>1, QuietAnswer, QuietAwait DEF Replies
<1> QED
  BY <1>1, <1>2, <1>3 DEF OrderHandlerStep

(* A step of one request leaves the others alone.                          *)
LEMMA SuspendSets ==
  ASSUME IndInv, NEW c \in Clients, NEW r, Suspend(c, r)
  PROVE  req'[c] = r /\ \A d \in Clients \ {c} : req'[d] = req[d]
BY DEF IndInv, TypeOK, TablesTypeOK, Suspend

(* No action of one client touches the request of another.                 *)
LEMMA StepsOfOthers ==
  ASSUME IndInv, NEW d \in Clients,
         SendOrderRequest(d) \/ SendInventoryRequest(d) \/ HandlerStep(d) \/ Abandon(d)
  PROVE  \A c \in Clients \ {d} : req'[c] = req[c]
<1>1. \E r : Suspend(d, r)
  <2>1. CASE SendOrderRequest(d)
    BY <2>1 DEF SendOrderRequest, CreateDraft, BeginCreateWithItems, StageAddItems, StageEditItem,
                StageReceive, StageRevise, StageDeleteDraft, StageGetDetail, Answer
  <2>2. CASE SendInventoryRequest(d)
    BY <2>2 DEF SendInventoryRequest, CreateCategory, StageDeleteCategory, StageCreateItem,
                StageMoveItem, StageDeleteItem, StageAdjustStock, Answer
  <2>3. CASE OrderHandlerStep(d)
    BY <2>3 DEF OrderHandlerStep, ReadBack, CheckItem, ScanLine, CommitCreateWithItems,
                CommitAddItems, EditReadLine, CommitEditItem, ReceiveReadLine, CommitReceive,
                ReviseSumReceipts, ReviseCountLines, CommitRevise, CommitDeleteDraft,
                DetailReadLines, Answer, Await
  <2>4. CASE InventoryHandlerStep(d)
    BY <2>4 DEF InventoryHandlerStep, DeleteCategoryCount, CommitDeleteCategory, CommitCreateItem,
                MoveItemRead, CommitMoveItem, DeleteItemCount, CommitDeleteItem,
                CommitAdjustStock, Answer, Await
  <2>5. CASE Abandon(d)
    BY <2>5 DEF Abandon, Answer
  <2> QED
    BY <2>1, <2>2, <2>3, <2>4, <2>5 DEF HandlerStep
<1> QED
  BY <1>1, SuspendSets

(* A request whose handler is quiet is not answered with an error by any   *)
(* step at all.                                                            *)
LEMMA QuietRequests ==
  ASSUME IndInv, Next, NEW c \in Clients, req[c].op # "none", HandlerStep(c) => Quiet(c)
  PROVE  req'[c].reply # "error"
<1>1. PICK d \in Clients :
        SendOrderRequest(d) \/ SendInventoryRequest(d) \/ HandlerStep(d) \/ Abandon(d)
  BY DEF Next
<1>2. req[c].reply = "none" /\ req[c].at # "idle"
  BY EveryRequestIsSound DEF RequestSound, WellFormed
<1>3. CASE d # c
  BY <1>1, <1>2, <1>3, StepsOfOthers
<1>4. CASE d = c
  <2>1. ~SendOrderRequest(c) /\ ~SendInventoryRequest(c)
    BY <1>2
       DEF SendOrderRequest, CreateDraft, BeginCreateWithItems, StageAddItems, StageEditItem,
           StageReceive, StageRevise, StageDeleteDraft, StageGetDetail, SendInventoryRequest,
           CreateCategory, StageDeleteCategory, StageCreateItem, StageMoveItem, StageDeleteItem,
           StageAdjustStock, MaySend
  <2>2. Abandon(c) => Quiet(c)
    BY QuietAnswer DEF Abandon, Replies
  <2>3. Quiet(c)
    BY <1>1, <1>4, <2>1, <2>2
  <2> QED
    BY <2>3, SuspendSets DEF Quiet
<1> QED
  BY <1>3, <1>4

(* No step at all answers an order request with an error.                  *)
LEMMA OrderRequestsAreQuiet ==
  ASSUME IndInv, Next, NEW c \in Clients, req[c].op \in OrderOperations
  PROVE  req'[c].reply # "error"
<1>1. req[c].op # "none"
  BY DEF OrderOperations
<1>2. ~InventoryHandlerStep(c)
  BY DEF InventoryHandlerStep, DeleteCategoryCount, CommitDeleteCategory, CommitCreateItem,
         MoveItemRead, CommitMoveItem, DeleteItemCount, CommitDeleteItem, CommitAdjustStock,
         InFlight, OrderOperations
<1> QED
  BY <1>1, <1>2, OrderHandlersAreQuiet, QuietRequests DEF HandlerStep

(* The batch of an adjustment or a deletion finds its item active, so in a *)
(* category that is, and its stock was checked with the change.            *)
LEMMA StockRequestsAreQuiet ==
  ASSUME IndInv, Next, NEW c \in Clients, req[c].op \in {"adjustStock", "deleteItem"}
  PROVE  req'[c].reply # "error"
<1>1. PICK i \in Items : i = req[c].item
  BY EveryRequestIsSound DEF RequestSound, WellFormed
<1>2. items[i].stock \in Nat
  BY DEF IndInv, TypeOK, TablesTypeOK, Item
<1>3. ItemActive(i) => \A stock : WriteItemAborts(items[i].category, stock) => stock < 0
  BY DEF WriteItemAborts, IndInv, TablesSound, ActiveItemsHaveActiveCategories
<1>4. ASSUME CommitAdjustStock(c)
      PROVE  Quiet(c)
  <2> DEFINE delta == AdjustDelta(req[c])
  <2>1. delta \in Int
    <3>1. req[c].ask \in {"IN", "OUT", "ADJUST"} /\ req[c].qty \in Nat
      BY <1>4, EveryRequestIsSound DEF CommitAdjustStock, InFlight, RequestSound, WellFormed, Request
    <3> QED
      BY <1>1, <1>2, <3>1 DEF AdjustDelta, Delta
  <2> HIDE DEF delta
  <2>2. ~AdjustGuard(i, delta) \/ ~WriteItemAborts(items[i].category, items[i].stock + delta)
    BY <1>2, <1>3, <2>1 DEF AdjustGuard
  <2>3. Answer(c, "conflict") \/ Await(c, "readBack")
    BY <1>1, <1>4, <2>2 DEF CommitAdjustStock, delta
  <2> QED
    BY <2>3, QuietAnswer, QuietAwait DEF Replies
<1>5. CommitDeleteItem(c) => Quiet(c)
  <2>1. ~DeleteItemGuard(i) \/ ~WriteItemAborts(items[i].category, items[i].stock)
    BY <1>2, <1>3 DEF DeleteItemGuard
  <2>2. CommitDeleteItem(c) => Answer(c, "conflict") \/ Answer(c, "ok")
    BY <1>1, <2>1 DEF CommitDeleteItem
  <2> QED
    BY <2>2, QuietAnswer DEF Replies
<1>6. DeleteItemCount(c) => Quiet(c)
  BY QuietAnswer, QuietAwait DEF DeleteItemCount, Replies
<1>7. InventoryHandlerStep(c) => CommitAdjustStock(c) \/ CommitDeleteItem(c) \/ DeleteItemCount(c)
  BY DEF InventoryHandlerStep, DeleteCategoryCount, CommitDeleteCategory, CommitCreateItem,
         MoveItemRead, CommitMoveItem, InFlight
<1> QED
  BY <1>4, <1>5, <1>6, <1>7, OrderHandlersAreQuiet, QuietRequests DEF HandlerStep

(* No purchase-order request ends in a 500 because a trigger stopped a     *)
(* batch that does not catch its abort.                                    *)
THEOREM NeverFails == Spec => OrderRequestsNeverFail
<1>1. IndInv /\ [Next]_vars =>
        [\A c \in Clients : req[c].op \in OrderOperations => req'[c].reply # "error"]_vars
  BY OrderRequestsAreQuiet
<1> QED
  BY <1>1, Invariance, PTL DEF Spec, OrderRequestsNeverFail

(* Nor does an adjustment of stock or the deletion of an item.             *)
THEOREM StockNeverFails == Spec => StockRequestsNeverFail
<1>1. IndInv /\ [Next]_vars =>
        [\A c \in Clients :
           req[c].op \in {"adjustStock", "deleteItem"} => req'[c].reply # "error"]_vars
  BY StockRequestsAreQuiet
<1> QED
  BY <1>1, Invariance, PTL DEF Spec, StockRequestsNeverFail

-----------------------------------------------------------------------------
(* The batch of an add, when it goes through, sees a draft: a row it did   *)
(* not find is not there, or the unique index stops it.                    *)
LEMMA CommittedAddAccumulates ==
  ASSUME IndInv, NEW c \in Clients, CommitAddItems(c), req'[c].at = "readBack",
         NEW i \in Wanted(req[c])
  PROVE  lines'[req[c].order][i].ordered = lines[req[c].order][i].ordered + req[c].want[i]
<1>1. PICK o \in Orders : o = req[c].order
  BY EveryRequestIsSound DEF CommitAddItems, InFlight, RequestSound, WellFormed
<1>2. ~Answer(c, "conflict")
  BY SuspendSets DEF Answer, Idle
<1>3. /\ ActiveDraft(o) /\ ~AddLineAborts(req[c], i)
      /\ lines' = [lines EXCEPT ![o] =
            [j \in Items |-> IF j \in Wanted(req[c]) THEN AddedLine(req[c], j) ELSE lines[o][j]]]
  BY <1>1, <1>2 DEF CommitAddItems, AddItemsGuard
<1>4. i \in Items /\ req[c].want[i] \in Nat
  BY EveryRequestIsSound DEF Wanted, Request
<1>5. lines'[o][i] = AddedLine(req[c], i)
  BY <1>3, <1>4 DEF IndInv, TypeOK, TablesTypeOK
<1>6. lines[o][i] \in Line /\ RowSound(o, i)
  BY <1>4, EveryOrderIsSound
<1>7. CASE i \in req[c].existing
  BY <1>1, <1>5, <1>6, <1>7 DEF AddedLine, Line
<1>8. CASE i \notin req[c].existing
  <2>1. ~LineActive(o, i)
    BY <1>1, <1>3, <1>8 DEF AddLineAborts, InsertLineAborts
  <2>2. lines[o][i].ordered = 0
    BY <1>3, <1>6, <2>1 DEF RowSound, ActiveDraft, OrderActive, LineActive, NoLine, Line, Life
  <2>3. AddedLine(req[c], i).ordered = req[c].want[i]
    BY <1>8 DEF AddedLine, NewLine
  <2> QED
    BY <1>1, <1>4, <1>5, <2>2, <2>3
<1> QED
  BY <1>7, <1>8

(* The step that acknowledges an add has raised every wanted row.          *)
LEMMA AddsAccumulateStep ==
  ASSUME IndInv, Next, NEW c \in Clients, InFlight(c, "addItems", "commit"),
         req'[c].at = "readBack", NEW i \in Wanted(req[c])
  PROVE  lines'[req[c].order][i].ordered = lines[req[c].order][i].ordered + req[c].want[i]
<1>1. PICK d \in Clients :
        SendOrderRequest(d) \/ SendInventoryRequest(d) \/ HandlerStep(d) \/ Abandon(d)
  BY DEF Next
<1>2. d = c
  BY <1>1, StepsOfOthers DEF InFlight
<1>3. ~SendOrderRequest(c) /\ ~SendInventoryRequest(c)
  BY DEF SendOrderRequest, CreateDraft, BeginCreateWithItems, StageAddItems, StageEditItem,
         StageReceive, StageRevise, StageDeleteDraft, StageGetDetail, SendInventoryRequest,
         CreateCategory, StageDeleteCategory, StageCreateItem, StageMoveItem, StageDeleteItem,
         StageAdjustStock, MaySend, InFlight
<1>4. ~InventoryHandlerStep(c)
  BY DEF InventoryHandlerStep, DeleteCategoryCount, CommitDeleteCategory, CommitCreateItem,
         MoveItemRead, CommitMoveItem, DeleteItemCount, CommitDeleteItem, CommitAdjustStock,
         InFlight
<1>5. ~Abandon(c)
  BY SuspendSets DEF Abandon, Answer, Idle
<1>6. OrderHandlerStep(c) => CommitAddItems(c)
  BY DEF OrderHandlerStep, ReadBack, CheckItem, ScanLine, CommitCreateWithItems, EditReadLine,
         CommitEditItem, ReceiveReadLine, CommitReceive, ReviseSumReceipts, ReviseCountLines,
         CommitRevise, CommitDeleteDraft, DetailReadLines, InFlight
<1> QED
  BY <1>1, <1>2, <1>3, <1>4, <1>5, <1>6, CommittedAddAccumulates DEF HandlerStep

(* An acknowledged add raises every wanted row by exactly what was asked.  *)
THEOREM AddsAccumulate == Spec => AcknowledgedAddsAccumulate
<1>1. IndInv /\ [Next]_vars =>
        [\A c \in Clients :
           InFlight(c, "addItems", "commit") /\ req'[c].at = "readBack" =>
             \A i \in Wanted(req[c]) :
               lines'[req[c].order][i].ordered =
                 lines[req[c].order][i].ordered + req[c].want[i]]_vars
  BY AddsAccumulateStep
<1> QED
  BY <1>1, Invariance, PTL DEF Spec, AcknowledgedAddsAccumulate

-----------------------------------------------------------------------------
(* The audit: a row contributes finitely many units to its order, so the   *)
(* units of an order are finitely many.                                    *)
LEMMA UnitsAreFinite ==
  ASSUME NEW o \in Orders, NEW many \in [Items -> Nat]
  PROVE  IsFiniteSet(UNION {{i} \X (1 .. many[i]) : i \in RowsOf(o)})
<1> DEFINE units == [i \in RowsOf(o) |-> {i} \X (1 .. many[i])]
           all == {{i} \X (1 .. many[i]) : i \in RowsOf(o)}
<1>1. IsFiniteSet(RowsOf(o))
  <2>1. RowsOf(o) \in SUBSET Items
    BY DEF RowsOf
  <2> QED
    BY <2>1, ItemsAssumption, FS_Subset
<1>2. units \in Surjection(RowsOf(o), all)
  BY DEF Surjection
<1>3. IsFiniteSet(all)
  <2> HIDE DEF units, all
  <2> QED
    BY <1>1, <1>2, FS_Surjection
<1>4. ASSUME NEW T \in all
      PROVE  IsFiniteSet(T)
  <2>1. PICK i \in RowsOf(o) : T = {i} \X (1 .. many[i])
    BY <1>4
  <2>2. many[i] \in Nat
    BY DEF RowsOf
  <2>3. IsFiniteSet(1 .. many[i])
    <3>1. 1 \in Int /\ many[i] \in Int
      BY <2>2
    <3> QED
      BY <3>1, FS_Interval
  <2>4. IsFiniteSet({i})
    BY FS_Singleton
  <2> QED
    BY <2>1, <2>3, <2>4, FS_Product
<1> QED
  <2> HIDE DEF all
  <2>1. IsFiniteSet(UNION all)
    BY <1>3, <1>4, FS_UNION
  <2> QED
    BY <2>1 DEF all

(* No totals hide a row that is still waited for: what each row received   *)
(* is among what it ordered, so equal totals mean equal rows.              *)
LEMMA NoOrderIsMasked ==
  ASSUME IndInv
  PROVE  MaskedOrders = {}
<1> SUFFICES ASSUME NEW o \in Orders, TotalReceived(o) >= TotalOrdered(o),
                    NEW i \in RowsOf(o), lines[o][i].received < lines[o][i].ordered
             PROVE  FALSE
  BY DEF MaskedOrders
<1>1. /\ \A j \in Items : /\ lines[o][j].received \in Nat /\ lines[o][j].ordered \in Nat
                         /\ lines[o][j].received <= lines[o][j].ordered
      /\ i \in Items
  BY EveryOrderIsSound DEF RowSound, Line, RowsOf
<1>2. IsFiniteSet(OrderedUnits(o))
  <2> DEFINE many == [j \in Items |-> lines[o][j].ordered]
  <2>1. many \in [Items -> Nat]
    BY <1>1
  <2>2. OrderedUnits(o) = UNION {{j} \X (1 .. many[j]) : j \in RowsOf(o)}
    BY DEF OrderedUnits, RowsOf
  <2> HIDE DEF many
  <2> QED
    BY <2>1, <2>2, UnitsAreFinite
<1>3. ReceivedUnits(o) \in SUBSET OrderedUnits(o)
  BY <1>1 DEF ReceivedUnits, OrderedUnits, RowsOf
<1>4. <<i, lines[o][i].ordered>> \in OrderedUnits(o) \ ReceivedUnits(o)
  BY <1>1 DEF ReceivedUnits, OrderedUnits
<1>5. /\ IsFiniteSet(ReceivedUnits(o))
      /\ TotalReceived(o) <= TotalOrdered(o)
      /\ TotalReceived(o) # TotalOrdered(o)
  BY <1>2, <1>3, <1>4, FS_Subset DEF TotalReceived, TotalOrdered
<1>6. TotalReceived(o) \in Nat /\ TotalOrdered(o) \in Nat
  BY <1>2, <1>5, FS_CardinalityType DEF TotalReceived, TotalOrdered
<1> QED
  BY <1>5, <1>6

(* The status that the audit derives from the rows is the stored one.      *)
LEMMA AuditedStatusIsStored ==
  ASSUME IndInv, NEW o \in Orders, orders[o].status \in Placed
  PROVE  AuditedStatus(o) = orders[o].status
<1>1. StatusSound(o) /\ \A i \in Items : RowSound(o, i) /\ lines[o][i] \in Line
  BY EveryOrderIsSound
<1>2. Complete(o) <=> \A i \in RowsOf(o) : lines[o][i].received >= lines[o][i].ordered
  BY <1>1 DEF Complete, RowsOf, RowSound, Line
<1> QED
  BY <1>1, <1>2 DEF AuditedStatus, StatusSound, Placed

(* Whatever requests overlap, an audit at any moment finds no status,      *)
(* quantity, ledger or parent order to repair.                             *)
THEOREM AuditSafety == Spec => []AuditFindsSoundOrders
<1>1. IndInv => AuditFindsSoundOrders
  <2> SUFFICES ASSUME IndInv, NEW f \in RepairFields
               PROVE  f = "active_deleted_item_parent_rows"
    BY DEF AuditFindsSoundOrders
  <2>1. \A r \in ActiveRows :
          /\ RowSound(r[1], r[2]) /\ LineActive(r[1], r[2])
          /\ lines[r[1]][r[2]] \in Line
    BY EveryOrderIsSound DEF ActiveRows
  <2>2. /\ Counted["active_overreceived_rows"] = {}
        /\ Counted["active_nonpositive_ordered_rows"] = {}
        /\ Counted["active_receipt_ledger_mismatch_rows"] = {}
        /\ Counted["active_deleted_order_parent_rows"] = {}
    BY <2>1 DEF Counted, RowSound, Line, OrderActive
  <2>3. Counted["masked_orders"] = {}
    BY NoOrderIsMasked DEF Counted
  <2>4. Counted["active_status_mismatch_orders"] = {}
    BY AuditedStatusIsStored DEF Counted
  <2> QED
    BY <2>2, <2>3, <2>4 DEF RepairFields, Counted
<1> QED
  BY <1>1, Invariance, PTL

(* The one thing the audit may ask to repair, a row whose item was         *)
(* deleted, is a row of an order that is finished or canceled.             *)
THEOREM OnlyClosedOrdersNeedRepair ==
  Spec => [](\A r \in Counted["active_deleted_item_parent_rows"] :
               orders[r[1]].status \in {"fully_received", "canceled"})
<1>1. IndInv => \A r \in Counted["active_deleted_item_parent_rows"] :
                  orders[r[1]].status \in {"fully_received", "canceled"}
  <2> SUFFICES ASSUME IndInv, NEW r \in Counted["active_deleted_item_parent_rows"]
               PROVE  orders[r[1]].status \in {"fully_received", "canceled"}
    OBVIOUS
  <2>1. r \in ActiveRows /\ items[r[2]].life = "deleted"
    BY DEF Counted
  <2>2. RowSound(r[1], r[2]) /\ LineActive(r[1], r[2])
    BY <2>1, EveryOrderIsSound DEF ActiveRows
  <2> QED
    BY <2>1, <2>2 DEF RowSound, ItemActive
<1> QED
  BY <1>1, Invariance, PTL

-----------------------------------------------------------------------------
(* The refinement: what the lifecycle sees of the tables.                  *)

phase == [o \in Orders |-> Phase(o)]
OrderedOf(o) == [i \in Items |-> lines[o][i].ordered]
ordered == [o \in Orders |-> OrderedOf(o)]
ReceivedOf(o) == [i \in Items |-> lines[o][i].received]
received == [o \in Orders |-> ReceivedOf(o)]

(* The seeded database maps to the initial state of the lifecycle.         *)
LEMMA InitMaps == TablesInit => Lifecycle!Init
<1> SUFFICES ASSUME TablesInit PROVE Lifecycle!Init
  OBVIOUS
<1>1. \A o \in Orders : Phase(o) = "none" /\ \A i \in Items : lines[o][i] = NoLine
  BY DEF TablesInit, Phase, NoOrderYet
<1> QED
  BY <1>1 DEF Lifecycle!Init, Lifecycle!Empty, NoLine

(* A step that leaves the orders and their rows alone is a stutter.        *)
LEMMA UntouchedOrdersStutter ==
  ASSUME UNCHANGED <<orders, lines>>
  PROVE  UNCHANGED Lifecycle!lifecycleVars
BY DEF Lifecycle!lifecycleVars, Phase

(* How a write to one order looks through the mapping.                     *)
LEMMA OneOrderSeen ==
  ASSUME IndInv, NEW o \in Orders, NEW order, NEW rows,
         orders' = [orders EXCEPT ![o] = order], lines' = [lines EXCEPT ![o] = rows]
  PROVE  /\ orders'[o] = order /\ lines'[o] = rows
         /\ phase' = [phase EXCEPT ![o] = Phase(o)']
         /\ ordered' = [ordered EXCEPT ![o] = [i \in Items |-> rows[i].ordered]]
         /\ received' = [received EXCEPT ![o] = [i \in Items |-> rows[i].received]]
<1>1. /\ orders'[o] = order /\ lines'[o] = rows
      /\ \A d \in Orders \ {o} : orders'[d] = orders[d] /\ lines'[d] = lines[d]
  BY DEF IndInv, TypeOK, TablesTypeOK
<1>2. \A d \in Orders \ {o} : Phase(d)' = Phase(d)
  BY <1>1 DEF Phase
<1>3. phase' = [phase EXCEPT ![o] = Phase(o)']
  BY <1>2 DEF phase
<1>4. /\ \A d \in Orders \ {o} : OrderedOf(d)' = OrderedOf(d) /\ ReceivedOf(d)' = ReceivedOf(d)
      /\ OrderedOf(o)' = [i \in Items |-> rows[i].ordered]
      /\ ReceivedOf(o)' = [i \in Items |-> rows[i].received]
  BY <1>1 DEF OrderedOf, ReceivedOf
<1>5. /\ ordered' = [ordered EXCEPT ![o] = OrderedOf(o)']
      /\ received' = [received EXCEPT ![o] = ReceivedOf(o)']
  BY <1>4 DEF ordered, received
<1> QED
  BY <1>1, <1>3, <1>4, <1>5

(* createDraft implements Draft, or changes no order.                      *)
LEMMA CreateDraftMaps ==
  ASSUME IndInv, NEW c \in Clients, NEW o \in Orders, NEW asked \in {"draft", "ordered"},
         CreateDraft(c, o, asked)
  PROVE  [Lifecycle!Next]_(Lifecycle!lifecycleVars)
<1> DEFINE order == [orders[o] EXCEPT !.status = "draft"]
<1>1. CASE asked # "draft"
  BY <1>1, UntouchedOrdersStutter DEF CreateDraft, tables
<1>2. CASE asked = "draft"
  <2>1. /\ orders[o] = NoOrderYet
        /\ orders' = [orders EXCEPT ![o] = order] /\ UNCHANGED lines
    BY <1>2 DEF CreateDraft
  <2>2. orders'[o] = order /\ order.status = "draft" /\ ~order.deleted
    BY <2>1, DraftedOrder
  <2>3. Phase(o) = "none" /\ Phase(o)' = "draft"
    BY <2>1, <2>2 DEF Phase, NoOrderYet
  <2>4. lines[o] \in [Items -> Line] /\ lines' = [lines EXCEPT ![o] = lines[o]]
    BY <2>1, UnchangedEntry, EveryOrderIsSound
  <2> HIDE DEF order
  <2>5. /\ phase' = [phase EXCEPT ![o] = "draft"]
        /\ ordered' = [ordered EXCEPT ![o] = [i \in Items |-> lines[o][i].ordered]]
        /\ received' = received
    BY <2>1, <2>3, <2>4, OneOrderSeen DEF received, ReceivedOf
  <2>6. [i \in Items |-> lines[o][i].ordered] \in [Items -> Nat]
    BY <2>4 DEF Line
  <2>7. Lifecycle!Draft(o)
    BY <2>3, <2>5, <2>6 DEF Lifecycle!Draft, Lifecycle!Rewrite, phase, ordered, received, OrderedOf,
              ReceivedOf
  <2> QED
    BY <2>7 DEF Lifecycle!Next
<1> QED
  BY <1>1, <1>2

(* The batch of createDraftWithItems implements Draft, or changes no order. *)
LEMMA CommitCreateWithItemsMaps ==
  ASSUME IndInv, NEW c \in Clients, NEW o \in Orders, CommitCreateWithItems(c, o)
  PROVE  [Lifecycle!Next]_(Lifecycle!lifecycleVars)
<1> DEFINE want == req[c].want
           aborts == \E i \in Wanted(req[c]) :
                       InsertLineAborts(i, NewLine(want[i]), TRUE, LineActive(o, i))
           order == [orders[o] EXCEPT !.status = "draft"]
           rows == [i \in Items |-> IF i \in Wanted(req[c]) THEN NewLine(want[i]) ELSE lines[o][i]]
<1>1. CASE aborts
  BY <1>1, UntouchedOrdersStutter DEF CommitCreateWithItems, tables
<1>2. CASE ~aborts
  <2>1. /\ orders[o] = NoOrderYet
        /\ orders' = [orders EXCEPT ![o] = order] /\ lines' = [lines EXCEPT ![o] = rows]
    BY <1>2 DEF CommitCreateWithItems
  <2>2. orders'[o] = order /\ order.status = "draft" /\ ~order.deleted
    BY <2>1, DraftedOrder
  <2>3. Phase(o) = "none" /\ Phase(o)' = "draft"
    BY <2>1, <2>2 DEF Phase, NoOrderYet
  <2>4. \A i \in Items : rows[i].received = 0 /\ rows[i].ordered \in Nat /\ lines[o][i].received = 0
    BY <2>1, NoOrderYetNoRows, EveryRequestIsSound DEF NewLine, NoLine, Request
  <2> HIDE DEF order, rows
  <2>5. /\ phase' = [phase EXCEPT ![o] = "draft"]
        /\ ordered' = [ordered EXCEPT ![o] = [i \in Items |-> rows[i].ordered]]
        /\ received' = [received EXCEPT ![o] = [i \in Items |-> rows[i].received]]
    BY <2>1, <2>3, OneOrderSeen
  <2>6. ReceivedOf(o) = [i \in Items |-> rows[i].received]
    BY <2>4 DEF ReceivedOf
  <2>7. received' = received
    BY <2>5, <2>6 DEF received
  <2>8. [i \in Items |-> rows[i].ordered] \in [Items -> Nat]
    BY <2>4
  <2>9. Lifecycle!Draft(o)
    BY <2>3, <2>5, <2>7, <2>8
       DEF Lifecycle!Draft, Lifecycle!Rewrite, phase, ordered, received, OrderedOf, ReceivedOf
  <2> QED
    BY <2>9 DEF Lifecycle!Next
<1> QED
  BY <1>1, <1>2

KeepsRows(o, rows) ==
  \A i \in Items : /\ rows[i].received = 0 /\ rows[i].ordered \in Nat
                   /\ lines[o][i].ordered > 0 => rows[i].ordered > 0

(* A write to the rows of a draft that keeps them, and receives nothing,   *)
(* amends it.                                                              *)
LEMMA RowsOfDraftAmend ==
  ASSUME IndInv, NEW o \in Orders, NEW order, NEW rows, ActiveDraft(o),
         order.status = "draft", ~order.deleted, orders' = [orders EXCEPT ![o] = order],
         lines' = [lines EXCEPT ![o] = rows], KeepsRows(o, rows)
  PROVE  [Lifecycle!Next]_(Lifecycle!lifecycleVars)
<1>1. /\ orders'[o] = order
      /\ phase' = [phase EXCEPT ![o] = Phase(o)']
      /\ ordered' = [ordered EXCEPT ![o] = [i \in Items |-> rows[i].ordered]]
      /\ received' = [received EXCEPT ![o] = [i \in Items |-> rows[i].received]]
  BY OneOrderSeen
<1>2. Phase(o) = "draft" /\ Phase(o)' = "draft"
  BY <1>1 DEF ActiveDraft, OrderActive, Phase
<1>3. phase' = phase
  BY <1>1, <1>2 DEF phase
<1>4. \A i \in Items : lines[o][i].received = 0
  BY EveryOrderIsSound DEF ActiveDraft, RowSound, Line
<1>5. ReceivedOf(o) = [i \in Items |-> rows[i].received]
  BY <1>4 DEF ReceivedOf, KeepsRows
<1>6. received' = received
  BY <1>1, <1>5 DEF received
<1>7. [i \in Items |-> rows[i].ordered] \in [Items -> Nat]
  BY DEF KeepsRows
<1>8. ordered'[o] = [i \in Items |-> rows[i].ordered] /\ ordered[o] = OrderedOf(o)
  BY <1>1 DEF ordered
<1>9. \A i \in Items : ordered[o][i] > 0 => ordered'[o][i] > 0
  BY <1>8 DEF OrderedOf, KeepsRows
<1>10. Lifecycle!Amend(o)
  BY <1>1, <1>2, <1>3, <1>6, <1>7, <1>8, <1>9
     DEF Lifecycle!Amend, Lifecycle!Rewrite, phase, ordered, received, OrderedOf, ReceivedOf
<1> QED
  BY <1>10 DEF Lifecycle!Next

(* The batch of addItemsToDraft implements Amend, or changes no order.     *)
LEMMA CommitAddItemsMaps ==
  ASSUME IndInv, NEW c \in Clients, CommitAddItems(c)
  PROVE  [Lifecycle!Next]_(Lifecycle!lifecycleVars)
<1>1. PICK o \in Orders : o = req[c].order
  BY EveryRequestIsSound DEF CommitAddItems, InFlight, RequestSound, WellFormed
<1> DEFINE rows == [i \in Items |-> IF i \in Wanted(req[c]) THEN AddedLine(req[c], i)
                               ELSE lines[o][i]]
<1>2. CASE ~AddItemsGuard(o) \/ (\E i \in Wanted(req[c]) : AddLineAborts(req[c], i))
  BY <1>1, <1>2, UntouchedOrdersStutter DEF CommitAddItems, tables
<1>3. CASE AddItemsGuard(o) /\ ~(\E i \in Wanted(req[c]) : AddLineAborts(req[c], i))
  <2>1. ActiveDraft(o) /\ UNCHANGED orders /\ lines' = [lines EXCEPT ![o] = rows]
    BY <1>1, <1>3 DEF CommitAddItems, AddItemsGuard
  <2>2. \A i \in Items : lines[o][i] \in Line /\ lines[o][i].received = 0 /\ req[c].want[i] \in Nat
    BY <2>1, EveryOrderIsSound, EveryRequestIsSound DEF ActiveDraft, RowSound, Line, Request
  <2>3. ASSUME NEW i \in Wanted(req[c])
        PROVE  AddedLine(req[c], i).received = 0 /\ AddedLine(req[c], i).ordered \in Nat \ {0}
    <3>1. i \in Items /\ req[c].want[i] \in Nat \ {0}
      BY <2>2 DEF Wanted
    <3>2. lines[o][i] \in Line /\ lines[o][i].received = 0
      BY <2>2, <3>1
    <3> QED
      BY <1>1, <3>1, <3>2 DEF AddedLine, NewLine, Line
  <2>4. KeepsRows(o, rows)
    BY <2>2, <2>3 DEF Line, KeepsRows
  <2> HIDE DEF rows
  <2> QED
    BY <2>1, <2>4, RowsOfDraftAmend, UnchangedEntry DEF ActiveDraft, OrderActive
<1> QED
  BY <1>2, <1>3

(* The batch of editDraftItem implements Amend, or changes no order.       *)
LEMMA CommitEditItemMaps ==
  ASSUME IndInv, NEW c \in Clients, CommitEditItem(c)
  PROVE  [Lifecycle!Next]_(Lifecycle!lifecycleVars)
<1>1. PICK o \in Orders, i \in Items : o = req[c].order /\ i = req[c].item
  BY EveryRequestIsSound DEF CommitEditItem, InFlight, RequestSound, WellFormed
<1> DEFINE edited == [lines[o][i] EXCEPT !.ordered = req[c].qty]
           rows == [lines[o] EXCEPT ![i] = edited]
<1>2. CASE ~EditGuard(o, i) \/ UpdateLineAborts(i, edited, OrderActive(o))
  BY <1>1, <1>2, UntouchedOrdersStutter DEF CommitEditItem, tables
<1>3. CASE EditGuard(o, i) /\ ~UpdateLineAborts(i, edited, OrderActive(o))
  <2>1. ActiveDraft(o) /\ UNCHANGED orders /\ lines' = [lines EXCEPT ![o] = rows]
    BY <1>1, <1>3 DEF CommitEditItem, EditGuard
  <2>2. req[c].qty \in Nat /\ req[c].qty > 0
    BY EveryRequestIsSound DEF CommitEditItem, InFlight, Request, RequestSound, WellFormed
  <2>3. /\ lines[o] \in [Items -> Line]
        /\ \A j \in Items : lines[o][j] \in Line /\ lines[o][j].received = 0
    BY <2>1, EveryOrderIsSound DEF ActiveDraft, RowSound, Line
  <2>4. edited.ordered = req[c].qty /\ edited.received = 0
    BY <2>3 DEF Line
  <2> HIDE DEF edited
  <2>5. rows[i] = edited /\ \A j \in Items \ {i} : rows[j] = lines[o][j]
    BY <2>3
  <2> HIDE DEF rows
  <2>6. KeepsRows(o, rows)
    BY <2>2, <2>3, <2>4, <2>5 DEF Line, KeepsRows
  <2> QED
    BY <2>1, <2>6, RowsOfDraftAmend, UnchangedEntry DEF ActiveDraft, OrderActive
<1> QED
  BY <1>2, <1>3

(* The batch of revise implements Place or Cancel, or changes no phase.    *)
LEMMA CommitReviseMaps ==
  ASSUME IndInv, NEW c \in Clients, CommitRevise(c)
  PROVE  [Lifecycle!Next]_(Lifecycle!lifecycleVars)
<1>1. PICK o \in Orders : o = req[c].order
  BY EveryRequestIsSound DEF CommitRevise, InFlight, RequestSound, WellFormed
<1> DEFINE ask == req[c].ask
           status == IF ask = "metadata" THEN orders[o].status ELSE ask
           order == [orders[o] EXCEPT !.status = status]
<1>2. CASE ~ReviseGuard(req[c]) \/ UpdateStatusAborts(orders[o].status, status)
  BY <1>1, <1>2, UntouchedOrdersStutter DEF CommitRevise, tables
<1>3. CASE ReviseGuard(req[c]) /\ ~UpdateStatusAborts(orders[o].status, status)
  <2>1. orders' = [orders EXCEPT ![o] = order] /\ UNCHANGED lines
    BY <1>1, <1>3 DEF CommitRevise
  <2>2. /\ orders[o].status # "absent" /\ ~orders[o].deleted
        /\ ask \in RequestableStatuses \cup {"metadata"}
        /\ ask = "ordered" => HasLines(o)
        /\ \/ status = orders[o].status
           \/ <<orders[o].status, status>> \in LegalStatusEdges
    BY <1>1, <1>3, EveryRequestIsSound
       DEF CommitRevise, InFlight, RequestSound, WellFormed, ReviseGuard, OrderActive,
           UpdateStatusAborts
  <2>3. /\ orders[o] \in Order /\ lines[o] \in [Items -> Line]
        /\ \A i \in Items : RowSound(o, i) /\ lines[o][i] \in Line
    BY EveryOrderIsSound
  <2>4. order.status = status /\ order.deleted = orders[o].deleted
    BY <2>3 DEF Order
  <2> HIDE DEF order
  <2>5. CASE status = orders[o].status
    <3>1. orders'[o].status = orders[o].status /\ orders'[o].deleted = orders[o].deleted
          /\ \A d \in Orders \ {o} : orders'[d] = orders[d]
      BY <2>1, <2>4, <2>5 DEF IndInv, TypeOK, TablesTypeOK
    <3>2. \A d \in Orders : Phase(d)' = Phase(d)
      BY <3>1 DEF Phase
    <3> QED
      BY <2>1, <3>2 DEF Lifecycle!lifecycleVars
  <2>6. CASE status # orders[o].status
    <3>1. \/ orders[o].status = "draft" /\ status = "ordered" /\ HasLines(o)
          \/ orders[o].status \in {"draft", "ordered"} /\ status = "canceled"
      BY <2>2, <2>6 DEF status, LegalStatusEdges, RequestableStatuses
    <3> HIDE DEF status
    <3>2. /\ orders'[o] = order
          /\ phase' = [phase EXCEPT ![o] = Phase(o)']
          /\ ordered' = ordered /\ received' = received
      <4>1. lines' = [lines EXCEPT ![o] = lines[o]]
        BY <2>1, UnchangedEntry
      <4>2. ordered' = ordered /\ received' = received
        BY <2>1 DEF ordered, received, OrderedOf, ReceivedOf
      <4> QED
        BY <2>1, <4>1, <4>2, OneOrderSeen
    <3>3. Phase(o)' = IF status = "ordered" THEN "placed" ELSE "canceled"
      BY <2>2, <2>4, <3>1, <3>2 DEF Phase
    <3>4. Phase(o) = IF orders[o].status = "draft" THEN "draft" ELSE "placed"
      BY <2>2, <3>1 DEF Phase
    <3>5. CASE status = "ordered"
      <4>1. orders[o].status = "draft" /\ HasLines(o)
        BY <3>1, <3>5
      <4>2. PICK i \in Items : LineActive(o, i)
        BY <4>1 DEF HasLines
      <4>3. ordered[o][i] > 0
        BY <2>3, <4>2 DEF RowSound, ordered, OrderedOf
      <4>4. Lifecycle!Place(o)
        BY <3>2, <3>3, <3>4, <3>5, <4>1, <4>3
           DEF Lifecycle!Place, Lifecycle!HasRows, phase, ordered, received, OrderedOf, ReceivedOf
      <4> QED
        BY <4>4 DEF Lifecycle!Next
    <3>6. CASE status = "canceled"
      <4>1. \A i \in Items : lines[o][i].received = 0
        BY <2>3, <3>1, <3>6 DEF RowSound, Line
      <4>2. ReceivedOf(o) = [i \in Items |-> 0]
        BY <4>1 DEF ReceivedOf
      <4>3. Lifecycle!Cancel(o)
        BY <3>2, <3>3, <3>4, <3>6, <4>2
           DEF Lifecycle!Cancel, Lifecycle!Untouched, Lifecycle!Empty, phase, ordered, received,
               OrderedOf, ReceivedOf
      <4> QED
        BY <4>3 DEF Lifecycle!Next
    <3> QED
      BY <3>1, <3>5, <3>6
  <2> QED
    BY <2>5, <2>6
<1> QED
  BY <1>2, <1>3

(* The batch of deleteDraft implements Discard, or changes no order.       *)
LEMMA CommitDeleteDraftMaps ==
  ASSUME IndInv, NEW c \in Clients, CommitDeleteDraft(c)
  PROVE  [Lifecycle!Next]_(Lifecycle!lifecycleVars)
<1>1. PICK o \in Orders : o = req[c].order
  BY EveryRequestIsSound DEF CommitDeleteDraft, InFlight, RequestSound, WellFormed
<1> DEFINE order == [orders[o] EXCEPT !.deleted = TRUE]
           rows == [i \in Items |-> DeletedRow(lines[o][i])]
<1>2. CASE ~DeleteOrderGuard(o)
  BY <1>1, <1>2, UntouchedOrdersStutter DEF CommitDeleteDraft, DeleteOrderGuard, DeleteRowsGuard
<1>3. CASE DeleteOrderGuard(o)
  <2>1. orders' = [orders EXCEPT ![o] = order] /\ lines' = [lines EXCEPT ![o] = rows]
    BY <1>1, <1>3 DEF CommitDeleteDraft, DeleteOrderGuard, DeleteRowsGuard
  <2>2. /\ orders[o].status = "draft" /\ ~orders[o].deleted /\ orders[o] \in Order
        /\ lines[o] \in [Items -> Line]
    BY <1>3, EveryOrderIsSound DEF DeleteOrderGuard, ActiveDraft, OrderActive
  <2>3. order.deleted
    BY <2>2 DEF Order
  <2>4. \A i \in Items : /\ rows[i].ordered = lines[o][i].ordered
                         /\ rows[i].received = lines[o][i].received
    BY <2>2 DEF DeletedRow, Line
  <2> HIDE DEF order, rows
  <2>5. /\ orders'[o] = order
        /\ phase' = [phase EXCEPT ![o] = Phase(o)']
        /\ ordered' = [ordered EXCEPT ![o] = [i \in Items |-> rows[i].ordered]]
        /\ received' = [received EXCEPT ![o] = [i \in Items |-> rows[i].received]]
    BY <2>1, OneOrderSeen
  <2>6. /\ OrderedOf(o) = [i \in Items |-> rows[i].ordered]
        /\ ReceivedOf(o) = [i \in Items |-> rows[i].received]
    BY <2>4 DEF OrderedOf, ReceivedOf
  <2>7. ordered' = ordered /\ received' = received
    BY <2>5, <2>6 DEF ordered, received
  <2>8. Phase(o) = "draft" /\ Phase(o)' = "discarded"
    BY <2>2, <2>3, <2>5 DEF Phase
  <2>9. Lifecycle!Discard(o)
    BY <2>5, <2>7, <2>8 DEF Lifecycle!Discard, phase, ordered, received, OrderedOf, ReceivedOf
  <2> QED
    BY <2>9 DEF Lifecycle!Next
<1> QED
  BY <1>2, <1>3

(* The batch of receive implements Receive, or changes no order.           *)
LEMMA CommitReceiveMaps ==
  ASSUME IndInv, NEW c \in Clients, CommitReceive(c)
  PROVE  [Lifecycle!Next]_(Lifecycle!lifecycleVars)
<1>1. PICK o \in Orders, i \in Items : o = req[c].order /\ i = req[c].item
  BY EveryRequestIsSound DEF CommitReceive, InFlight, RequestSound, WellFormed
<1> DEFINE qty == req[c].qty
           rows == ReceivedRows(o, i, qty)
           order == [orders[o] EXCEPT !.status = DerivedStatus(rows)]
<1>2. CASE ~ReceiptGuard(o, i, qty) \/ ReceiptAborts(o, i, qty)
  BY <1>1, <1>2, UntouchedOrdersStutter DEF CommitReceive, tables
<1>3. CASE ReceiptGuard(o, i, qty) /\ ~ReceiptAborts(o, i, qty)
  <2>1. orders' = [orders EXCEPT ![o] = order] /\ lines' = [lines EXCEPT ![o] = rows]
    BY <1>1, <1>3 DEF CommitReceive
  <2>2. qty \in Nat /\ qty > 0
    BY EveryRequestIsSound DEF CommitReceive, InFlight, Request, RequestSound, WellFormed
  <2>3. /\ orders[o].status \in {"ordered", "partially_received"} /\ ~orders[o].deleted
        /\ lines[o][i].received + qty <= lines[o][i].ordered
        /\ orders[o] \in Order /\ lines[o] \in [Items -> Line]
        /\ lines[o][i].received \in Nat /\ lines[o][i].ordered \in Nat
    BY <1>3, EveryOrderIsSound DEF ReceiptGuard, Receivable, OrderActive, Line
  <2>4. DerivedStatus(rows) \in {"ordered", "partially_received", "fully_received"}
    BY DEF DerivedStatus
  <2>5. order.status = DerivedStatus(rows) /\ ~order.deleted
    BY <2>3 DEF Order
  <2>6. /\ \A j \in Items : rows[j].ordered = lines[o][j].ordered
        /\ rows[i].received = lines[o][i].received + qty
        /\ \A j \in Items \ {i} : rows[j].received = lines[o][j].received
    BY <2>3 DEF ReceivedRows, Line
  <2> HIDE DEF rows, order, qty
  <2>7. /\ orders'[o] = order
        /\ phase' = [phase EXCEPT ![o] = Phase(o)']
        /\ ordered' = [ordered EXCEPT ![o] = [j \in Items |-> rows[j].ordered]]
        /\ received' = [received EXCEPT ![o] = [j \in Items |-> rows[j].received]]
    BY <2>1, OneOrderSeen
  <2>8. OrderedOf(o) = [j \in Items |-> rows[j].ordered]
    BY <2>6 DEF OrderedOf
  <2>9. Phase(o) = "placed" /\ Phase(o)' = "placed"
    BY <2>3, <2>4, <2>5, <2>7 DEF Phase
  <2>10. phase' = phase /\ ordered' = ordered
    BY <2>7, <2>8, <2>9 DEF phase, ordered
  <2>11. [j \in Items |-> rows[j].received] = [ReceivedOf(o) EXCEPT ![i] = @ + qty]
    BY <2>6 DEF ReceivedOf
  <2>12. received' = [received EXCEPT ![o][i] = @ + qty]
    BY <2>7, <2>11 DEF received
  <2>13. qty \in 1 .. ordered[o][i] - received[o][i]
    BY <2>2, <2>3 DEF ordered, received, OrderedOf, ReceivedOf
  <2>14. Lifecycle!Receive(o)
    <3>1. \E j \in Items :
            \E n \in 1 .. ordered[o][j] - received[o][j] :
              received' = [received EXCEPT ![o][j] = @ + n]
      BY <2>12, <2>13
    <3>2. phase[o] = "placed"
      BY <2>9 DEF phase
    <3> QED
      BY <2>10, <3>1, <3>2, Zenon
         DEF Lifecycle!Receive, phase, ordered, received, OrderedOf, ReceivedOf
  <2> QED
    BY <2>14 DEF Lifecycle!Next
<1> QED
  BY <1>2, <1>3

-----------------------------------------------------------------------------
(* Every other step leaves the orders and their rows alone.                *)
LEMMA NextMaps == IndInv /\ [Next]_vars => [Lifecycle!Next]_(Lifecycle!lifecycleVars)
<1> SUFFICES ASSUME IndInv, [Next]_vars PROVE [Lifecycle!Next]_(Lifecycle!lifecycleVars)
  OBVIOUS
<1> USE DEF tables, orderTables
<1>1. CASE UNCHANGED vars
  BY <1>1, UntouchedOrdersStutter DEF vars
<1>2. ASSUME NEW c \in Clients, SendOrderRequest(c)
      PROVE  [Lifecycle!Next]_(Lifecycle!lifecycleVars)
  <2>1. CASE \E o \in Orders, asked \in {"draft", "ordered"} : CreateDraft(c, o, asked)
    BY <2>1, CreateDraftMaps
  <2>2. CASE ~\E o \in Orders, asked \in {"draft", "ordered"} : CreateDraft(c, o, asked)
    BY <1>2, <2>2, UntouchedOrdersStutter
       DEF SendOrderRequest, BeginCreateWithItems, StageAddItems, StageEditItem,
           StageReceive, StageRevise, StageDeleteDraft, StageGetDetail
  <2> QED
    BY <2>1, <2>2
<1>3. ASSUME NEW c \in Clients, SendInventoryRequest(c)
      PROVE  [Lifecycle!Next]_(Lifecycle!lifecycleVars)
  BY <1>3, UntouchedOrdersStutter
     DEF SendInventoryRequest, CreateCategory, StageDeleteCategory, StageCreateItem,
         StageMoveItem, StageDeleteItem, StageAdjustStock
<1>4. ASSUME NEW c \in Clients, OrderHandlerStep(c)
      PROVE  [Lifecycle!Next]_(Lifecycle!lifecycleVars)
  <2>1. CASE \/ CommitAddItems(c) \/ CommitEditItem(c) \/ CommitReceive(c)
             \/ CommitRevise(c) \/ CommitDeleteDraft(c)
             \/ \E o \in Orders : CommitCreateWithItems(c, o)
    BY <2>1, CommitAddItemsMaps, CommitEditItemMaps, CommitReceiveMaps, CommitReviseMaps,
       CommitDeleteDraftMaps, CommitCreateWithItemsMaps
  <2>2. CASE \/ ReadBack(c) \/ EditReadLine(c) \/ ReceiveReadLine(c) \/ ReviseSumReceipts(c)
             \/ ReviseCountLines(c) \/ DetailReadLines(c)
             \/ \E i \in Items : CheckItem(c, i) \/ ScanLine(c, i)
    BY <2>2, UntouchedOrdersStutter
       DEF ReadBack, EditReadLine, ReceiveReadLine, ReviseSumReceipts, ReviseCountLines,
           DetailReadLines, CheckItem, ScanLine
  <2> QED
    BY <1>4, <2>1, <2>2 DEF OrderHandlerStep
<1>5. ASSUME NEW c \in Clients, InventoryHandlerStep(c) \/ Abandon(c)
      PROVE  [Lifecycle!Next]_(Lifecycle!lifecycleVars)
  BY <1>5, UntouchedOrdersStutter
     DEF InventoryHandlerStep, DeleteCategoryCount, CommitDeleteCategory, CommitCreateItem,
         MoveItemRead, CommitMoveItem, DeleteItemCount, CommitDeleteItem, CommitAdjustStock,
         Abandon
<1> QED
  BY <1>1, <1>2, <1>3, <1>4, <1>5 DEF Next, HandlerStep

(* Whatever requests overlap, the handlers implement the lifecycle: each   *)
(* order is drafted, amended, placed, received, canceled and discarded     *)
(* only as OrderLifecycle allows.                                          *)
THEOREM Refinement == Spec => ImplementsLifecycle
<1> QED
  BY InitMaps, NextMaps, Invariance, PTL DEF Spec, ImplementsLifecycle, Lifecycle!Spec
=============================================================================
