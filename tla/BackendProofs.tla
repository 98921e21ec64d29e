---------------------------- MODULE BackendProofs ----------------------------
(***************************************************************************)
(* Proofs about Backend, for any number of clients, orders, items and      *)
(* categories.  Every step of the system either only moves a request on    *)
(* (RequestStep) or commits one batch (the lemmas named after the Commit   *)
(* actions).                                                               *)
(***************************************************************************)
EXTENDS Backend, TLAPS

(* What must be true of one request for the invariant to hold of it.       *)
RequestSound(r) ==
  /\ WellFormed(r)
  /\ AwaitsLines(r) => LinesFitHeader(r.order, r.was)
  /\ AwaitsLines(r) => HeaderStillTrue(r.order, r.was)

(* The idle request and the request a handler starts with are requests.    *)
LEMMA IdleIsRequest == Idle \in Request
  BY DEF Idle, Request, Operations, Awaits, Statuses, Replies

(* Moving one request on, with the database untouched, keeps the invariant *)
(* if the request it becomes is sound.                                     *)
LEMMA RequestStep ==
  ASSUME IndInv, NEW c \in Clients, NEW r \in Request, RequestSound(r),
         Suspend(c, r), UNCHANGED tables
  PROVE  IndInv'
<1>1. req' \in [Clients -> Request] /\ \A d \in Clients : req'[d] = IF d = c THEN r ELSE req[d]
  BY DEF IndInv, TypeOK, TablesTypeOK, Suspend
<1>2. TypeOK'
  BY <1>1 DEF IndInv, TypeOK, TablesTypeOK, tables
<1>3. RequestsWellFormed'
  BY <1>1 DEF IndInv, RequestsWellFormed, RequestSound, WellFormed, tables
<1>4. TablesSound'
  BY DEF IndInv, TablesSound, StatusMatchesRows, ReceiptsAreWithinOrders, RowsFollowTheirOrder,
         OpenRowsHaveActiveItems, ActiveItemsHaveActiveCategories, LedgerExplainsStock, tables,
         HasLines, HasReceipts, Complete, LineActive, OrderActive, ItemActive, CategoryActive
<1>5. HeadersHold'
  BY <1>1 DEF IndInv, HeadersHold, RequestSound, HeaderStillTrue, AwaitsLines, tables
<1>6. DetailIsCoherent'
  BY <1>1 DEF IndInv, DetailIsCoherent, RequestSound, LinesFitHeader, AwaitsLines, tables,
              HasLines, HasReceipts, Complete, LineActive
<1> QED
  BY <1>2, <1>3, <1>4, <1>5, <1>6 DEF IndInv

(* Under the invariant every request is sound, and its fields have types.  *)
LEMMA EveryRequestIsSound ==
  ASSUME IndInv, NEW c \in Clients
  PROVE  /\ req[c] \in Request
         /\ RequestSound(req[c])
BY DEF IndInv, TypeOK, TablesTypeOK, RequestsWellFormed, HeadersHold, DetailIsCoherent,
       RequestSound

(* A reply ends a request, and awaiting anything but a loop or the rows of *)
(* a detail is sound whatever the request.                                 *)
LEMMA AnswerIsSound ==
  ASSUME NEW reply \in Replies
  PROVE  /\ [Idle EXCEPT !.reply = reply] \in Request
         /\ RequestSound([Idle EXCEPT !.reply = reply])
BY IdleIsRequest DEF Idle, Request, RequestSound, WellFormed, AwaitsLines

(* A request that moves on to an await of no loop and no detail stays sound. *)
LEMMA AwaitIsSound ==
  ASSUME NEW r \in Request, RequestSound(r),
         NEW at \in Awaits \ {"checkItem", "scanLine", "readLines"}
  PROVE  /\ [r EXCEPT !.at = at] \in Request
         /\ RequestSound([r EXCEPT !.at = at])
<1> DEFINE s == [r EXCEPT !.at = at]
<1>1. at \in Awaits /\ at \notin {"idle", "checkItem", "scanLine", "readLines"}
  BY DEF Awaits
<1>2. /\ s \in Request /\ s.at = at
      /\ s.op = r.op /\ s.order = r.order /\ s.item = r.item /\ s.category = r.category
      /\ s.qty = r.qty /\ s.ask = r.ask /\ s.was = r.was /\ s.existing = r.existing
      /\ s.reply = r.reply
  BY <1>1 DEF Request
<1> HIDE DEF s
<1>3. RequestSound(s)
  BY <1>1, <1>2 DEF RequestSound, WellFormed, AwaitsLines
<1> QED
  BY <1>2, <1>3 DEF s

(* Answering a request without writing keeps the invariant.                *)
LEMMA AnswerStep ==
  ASSUME IndInv, NEW c \in Clients, NEW reply \in Replies, Answer(c, reply), UNCHANGED tables
  PROVE  IndInv'
BY RequestStep, AnswerIsSound DEF Answer

(* Moving a request on without writing keeps the invariant.                *)
LEMMA AwaitStep ==
  ASSUME IndInv, NEW c \in Clients, NEW at \in Awaits \ {"checkItem", "scanLine", "readLines"},
         Await(c, at), UNCHANGED tables
  PROVE  IndInv'
BY RequestStep, AwaitIsSound, EveryRequestIsSound DEF Await

-----------------------------------------------------------------------------
(* The steps that read, in the order of PurchaseOrders and Inventory.      *)

(* Reading the row back for the reply keeps the invariant.                 *)
LEMMA ReadBackStep ==
  ASSUME IndInv, NEW c \in Clients, ReadBack(c)
  PROVE  IndInv'
BY AnswerStep DEF ReadBack, Replies

(* Losing a request between two awaits keeps the invariant.                *)
LEMMA AbandonStep ==
  ASSUME IndInv, NEW c \in Clients, Abandon(c)
  PROVE  IndInv'
BY AnswerStep DEF Abandon, Replies

(* A handler's request before it fills in its arguments. *)
LEMMA StagedFields ==
  ASSUME NEW op \in Operations, NEW o \in Orders \cup {None}, NEW at \in Awaits
  PROVE  LET s == Staged(op, o, at)
         IN s \in Request /\ s.op = op /\ s.order = o /\ s.at = at
            /\ s.existing = {} /\ s.reply = "none"
BY IdleIsRequest DEF Staged, Idle, Request

(* createDraftWithItems takes a request in: the invariant holds on.        *)
LEMMA BeginCreateWithItemsStep ==
  ASSUME IndInv, NEW c \in Clients, NEW want \in Wants, BeginCreateWithItems(c, want)
  PROVE  IndInv'
<1> DEFINE q == Staged("createWithItems", None, "checkItem")
           r == [q EXCEPT !.want = want]
           todo == Wanted(r)
           s == [r EXCEPT !.todo = todo]
<1>1. want \in [Items -> Nat] /\ todo \in SUBSET Items
  BY QuantitiesAssumption DEF Wants, Wanted
<1>2. q \in Request /\ q.op = "createWithItems" /\ q.at = "checkItem"
      /\ q.existing = {} /\ q.reply = "none"
  BY StagedFields DEF Operations, Awaits
<1>3. (Answer(c, "invalid") \/ Suspend(c, s)) /\ UNCHANGED tables
  BY DEF BeginCreateWithItems
<1> HIDE DEF q, todo
<1>4. r \in Request /\ r.op = q.op /\ r.at = q.at /\ r.existing = q.existing /\ r.reply = q.reply
  BY <1>1, <1>2 DEF Request
<1> HIDE DEF r
<1>5. s \in Request /\ s.op = q.op /\ s.at = q.at /\ s.existing = q.existing /\ s.reply = q.reply
  BY <1>1, <1>4 DEF Request
<1> HIDE DEF s
<1>6. RequestSound(s)
  BY <1>2, <1>5 DEF RequestSound, WellFormed, AwaitsLines
<1> QED
  BY <1>3, <1>5, <1>6, AnswerStep, RequestStep DEF Replies

(* addItemsToDraft takes a request in: the invariant holds on.             *)
LEMMA StageAddItemsStep ==
  ASSUME IndInv, NEW c \in Clients, NEW o \in Orders, NEW want \in Wants,
         StageAddItems(c, o, want)
  PROVE  IndInv'
<1> DEFINE q == Staged("addItems", o, "checkItem")
           r == [q EXCEPT !.want = want]
           todo == Wanted(r)
           s == [r EXCEPT !.todo = todo]
<1>1. want \in [Items -> Nat] /\ todo \in SUBSET Items
  BY QuantitiesAssumption DEF Wants, Wanted
<1>2. q \in Request /\ q.op = "addItems" /\ q.order = o /\ q.at = "checkItem"
      /\ q.existing = {} /\ q.reply = "none"
  BY StagedFields DEF Operations, Awaits
<1>3. (Answer(c, "not_found") \/ Answer(c, "invalid") \/ Suspend(c, s)) /\ UNCHANGED tables
  BY DEF StageAddItems
<1> HIDE DEF q, todo
<1>4. r \in Request /\ r.op = q.op /\ r.order = q.order /\ r.at = q.at
      /\ r.existing = q.existing /\ r.reply = q.reply
  BY <1>1, <1>2 DEF Request
<1> HIDE DEF r
<1>5. s \in Request /\ s.op = q.op /\ s.order = q.order /\ s.at = q.at
      /\ s.existing = q.existing /\ s.reply = q.reply
  BY <1>1, <1>4 DEF Request
<1> HIDE DEF s
<1>6. RequestSound(s)
  BY <1>2, <1>5 DEF RequestSound, WellFormed, AwaitsLines
<1> QED
  BY <1>3, <1>5, <1>6, AnswerStep, RequestStep DEF Replies

(* Looking one wanted item up keeps the invariant.                         *)
LEMMA CheckItemStep ==
  ASSUME IndInv, NEW c \in Clients, NEW i \in Items, CheckItem(c, i)
  PROVE  IndInv'
<1> DEFINE r == req[c]
           left == LeftTodo(r, i)
           next == IF left # {} THEN "checkItem"
                   ELSE IF r.op = "createWithItems" THEN "commit" ELSE "scanLine"
           todo == IF next = "scanLine" THEN Wanted(r) ELSE left
           s == [r EXCEPT !.at = next, !.todo = todo]
<1>1. r \in Request /\ RequestSound(r) /\ r.at = "checkItem"
  BY EveryRequestIsSound DEF CheckItem
<1>2. todo \in SUBSET Items
  BY <1>1 DEF LeftTodo, Wanted, Request
<1>3. /\ next \in {"checkItem", "commit", "scanLine"}
      /\ next = "scanLine" => r.op # "createWithItems"
  OBVIOUS
<1>4. (Answer(c, "invalid") \/ Suspend(c, s)) /\ UNCHANGED tables
  BY DEF CheckItem
<1> HIDE DEF r, next, todo
<1>5. /\ s \in Request /\ s.at = next
      /\ s.op = r.op /\ s.order = r.order /\ s.item = r.item /\ s.category = r.category
      /\ s.qty = r.qty /\ s.ask = r.ask /\ s.was = r.was
      /\ s.existing = r.existing /\ s.reply = r.reply
  BY <1>1, <1>2, <1>3 DEF Request, Awaits
<1> HIDE DEF s
<1>6. RequestSound(s)
  BY <1>1, <1>3, <1>5 DEF RequestSound, WellFormed, AwaitsLines
<1> QED
  BY <1>4, <1>5, <1>6, AnswerStep, RequestStep DEF Replies

(* Looking one existing row up keeps the invariant, and remembers real rows only. *)
LEMMA ScanLineStep ==
  ASSUME IndInv, NEW c \in Clients, NEW i \in Items, ScanLine(c, i)
  PROVE  IndInv'
<1> DEFINE r == req[c]
           left == LeftTodo(r, i)
           found == IF LineActive(r.order, i) THEN {i} ELSE {}
           next == IF left = {} THEN "commit" ELSE "scanLine"
           s == [r EXCEPT !.at = next, !.todo = left, !.existing = @ \cup found]
<1>1. r \in Request /\ RequestSound(r) /\ r.at = "scanLine"
  BY EveryRequestIsSound DEF ScanLine
<1>2. left \in SUBSET Items /\ found \in SUBSET Items /\ next \in {"commit", "scanLine"}
  BY <1>1 DEF LeftTodo, Request
<1>3. \A j \in found : lines[r.order][j].life # "absent"
  BY DEF LineActive
<1>4. Suspend(c, s) /\ UNCHANGED tables
  BY DEF ScanLine
<1> HIDE DEF r, left, found, next
<1>5. /\ s \in Request /\ s.at = next /\ s.existing = r.existing \cup found
      /\ s.op = r.op /\ s.order = r.order /\ s.item = r.item /\ s.category = r.category
      /\ s.qty = r.qty /\ s.ask = r.ask /\ s.was = r.was /\ s.reply = r.reply
  BY <1>1, <1>2 DEF Request, Awaits
<1> HIDE DEF s
<1>6. RequestSound(s)
  BY <1>1, <1>2, <1>3, <1>5 DEF RequestSound, WellFormed, AwaitsLines
<1> QED
  BY <1>4, <1>5, <1>6, RequestStep

(* editDraftItem takes a request in: the invariant holds on.               *)
LEMMA StageEditItemStep ==
  ASSUME IndInv, NEW c \in Clients, NEW o \in Orders, NEW i \in Items, NEW qty \in Quantities,
         StageEditItem(c, o, i, qty)
  PROVE  IndInv'
<1> DEFINE q == Staged("editItem", o, "readLine")
           s == [q EXCEPT !.item = i, !.qty = qty]
<1>1. q \in Request /\ q.op = "editItem" /\ q.order = o /\ q.at = "readLine"
      /\ q.existing = {} /\ q.reply = "none"
  BY StagedFields DEF Operations, Awaits
<1>2. (Answer(c, "not_found") \/ Answer(c, "invalid") \/ Suspend(c, s)) /\ UNCHANGED tables
  BY DEF StageEditItem
<1> HIDE DEF q
<1>3. /\ s \in Request /\ s.item = i /\ s.qty = qty
      /\ s.op = q.op /\ s.order = q.order /\ s.at = q.at
      /\ s.existing = q.existing /\ s.reply = q.reply
  BY <1>1, QuantitiesAssumption DEF Request
<1> HIDE DEF s
<1>4. RequestSound(s)
  BY <1>1, <1>3, QuantitiesAssumption DEF RequestSound, WellFormed, AwaitsLines
<1> QED
  BY <1>2, <1>3, <1>4, AnswerStep, RequestStep DEF Replies

(* receive takes a request in: the invariant holds on.                     *)
LEMMA StageReceiveStep ==
  ASSUME IndInv, NEW c \in Clients, NEW o \in Orders, NEW i \in Items, NEW qty \in Quantities,
         StageReceive(c, o, i, qty)
  PROVE  IndInv'
<1> DEFINE q == Staged("receive", o, "readLine")
           s == [q EXCEPT !.item = i, !.qty = qty]
<1>1. q \in Request /\ q.op = "receive" /\ q.order = o /\ q.at = "readLine"
      /\ q.existing = {} /\ q.reply = "none"
  BY StagedFields DEF Operations, Awaits
<1>2. (Answer(c, "not_found") \/ Answer(c, "invalid") \/ Suspend(c, s)) /\ UNCHANGED tables
  BY DEF StageReceive
<1> HIDE DEF q
<1>3. /\ s \in Request /\ s.item = i /\ s.qty = qty
      /\ s.op = q.op /\ s.order = q.order /\ s.at = q.at
      /\ s.existing = q.existing /\ s.reply = q.reply
  BY <1>1, QuantitiesAssumption DEF Request
<1> HIDE DEF s
<1>4. RequestSound(s)
  BY <1>1, <1>3, QuantitiesAssumption DEF RequestSound, WellFormed, AwaitsLines
<1> QED
  BY <1>2, <1>3, <1>4, AnswerStep, RequestStep DEF Replies

(* revise takes a request in, with a transition it does not refuse.        *)
LEMMA StageReviseStep ==
  ASSUME IndInv, NEW c \in Clients, NEW o \in Orders,
         NEW ask \in RequestableStatuses \cup {"metadata", "partially_received"},
         StageRevise(c, o, ask)
  PROVE  IndInv'
<1> DEFINE was == orders[o].status
           next == CASE ask = "ordered" -> "countLines"
                     [] ask = "canceled" /\ was # "canceled" -> "sumReceipts"
                     [] OTHER -> "commit"
           q == Staged("revise", o, next)
           s == [q EXCEPT !.ask = ask, !.was = was]
<1>1. next \in {"countLines", "sumReceipts", "commit"}
  OBVIOUS
<1> HIDE DEF next
<1>2. q \in Request /\ q.op = "revise" /\ q.order = o /\ q.at = next
      /\ q.existing = {} /\ q.reply = "none"
  BY <1>1, StagedFields DEF Operations, Awaits
<1>3. /\ UNCHANGED tables
      /\ \/ Answer(c, "not_found") \/ Answer(c, "invalid")
         \/ /\ Suspend(c, s)
            /\ OrderActive(o)
            /\ ask \in RequestableStatuses \cup {"metadata"}
            /\ ask # "metadata" => ~TransitionRefused(was, ask)
  BY DEF StageRevise, next
<1> HIDE DEF q
<1>4. SUFFICES ASSUME Suspend(c, s), OrderActive(o),
                      ask \in RequestableStatuses \cup {"metadata"},
                      ask # "metadata" => ~TransitionRefused(was, ask)
               PROVE  IndInv'
  BY <1>3, AnswerStep DEF Replies
<1>5. was \in Statuses /\ ask \in Statuses \cup {"metadata"}
  BY <1>4 DEF IndInv, TypeOK, TablesTypeOK, Order, OrderActive, RequestableStatuses, Statuses
<1> HIDE DEF was
<1>6. /\ s \in Request /\ s.ask = ask /\ s.was = was
      /\ s.op = q.op /\ s.order = q.order /\ s.at = q.at
      /\ s.existing = q.existing /\ s.reply = q.reply
  BY <1>2, <1>5 DEF Request
<1> HIDE DEF s
<1>7. RequestSound(s)
  BY <1>1, <1>2, <1>4, <1>6 DEF RequestSound, WellFormed, AwaitsLines
<1> QED
  BY <1>3, <1>4, <1>6, <1>7, RequestStep

(* deleteDraft takes a request in: the invariant holds on.                 *)
LEMMA StageDeleteDraftStep ==
  ASSUME IndInv, NEW c \in Clients, NEW o \in Orders, StageDeleteDraft(c, o)
  PROVE  IndInv'
<1> DEFINE q == Staged("deleteDraft", o, "commit")
<1>1. q \in Request /\ q.op = "deleteDraft" /\ q.order = o /\ q.at = "commit"
      /\ q.existing = {} /\ q.reply = "none"
  BY StagedFields DEF Operations, Awaits
<1>2. (Answer(c, "not_found") \/ Answer(c, "conflict") \/ Suspend(c, q)) /\ UNCHANGED tables
  BY DEF StageDeleteDraft
<1> HIDE DEF q
<1>3. RequestSound(q)
  BY <1>1 DEF RequestSound, WellFormed, AwaitsLines
<1> QED
  BY <1>1, <1>2, <1>3, AnswerStep, RequestStep DEF Replies

(* The header that getDetail reads is current, and so are the rows of that *)
(* moment.                                                                 *)
LEMMA StageGetDetailStep ==
  ASSUME IndInv, NEW c \in Clients, NEW o \in Orders, StageGetDetail(c, o)
  PROVE  IndInv'
<1> DEFINE was == orders[o].status
           q == Staged("getDetail", o, "readLines")
           s == [q EXCEPT !.was = was]
<1>1. q \in Request /\ q.op = "getDetail" /\ q.order = o /\ q.at = "readLines"
      /\ q.existing = {} /\ q.reply = "none"
  BY StagedFields DEF Operations, Awaits
<1>2. (Answer(c, "not_found") \/ (OrderActive(o) /\ Suspend(c, s))) /\ UNCHANGED tables
  BY DEF StageGetDetail
<1> HIDE DEF q
<1>3. SUFFICES ASSUME OrderActive(o), Suspend(c, s) PROVE IndInv'
  BY <1>2, AnswerStep DEF Replies
<1>4. was \in Statuses
  BY <1>3 DEF IndInv, TypeOK, TablesTypeOK, Order, OrderActive
<1>5. HeaderStillTrue(o, was)
  BY DEF HeaderStillTrue, Placed
<1>6. LinesFitHeader(o, was)
  BY DEF LinesFitHeader, IndInv, TablesSound, StatusMatchesRows, ReceiptsAreWithinOrders,
         Placed, HasReceipts
<1> HIDE DEF was
<1>7. /\ s \in Request /\ s.was = was
      /\ s.op = q.op /\ s.order = q.order /\ s.at = q.at
      /\ s.existing = q.existing /\ s.reply = q.reply
  BY <1>1, <1>4 DEF Request, Statuses
<1> HIDE DEF s
<1>8. RequestSound(s)
  BY <1>1, <1>5, <1>6, <1>7 DEF RequestSound, WellFormed
<1> QED
  BY <1>2, <1>3, <1>7, <1>8, RequestStep

(* The later reads of the order handlers keep the invariant.               *)
LEMMA OrderReadsStep ==
  ASSUME IndInv, NEW c \in Clients,
         EditReadLine(c) \/ ReceiveReadLine(c) \/ ReviseSumReceipts(c) \/ ReviseCountLines(c)
           \/ DetailReadLines(c)
  PROVE  IndInv'
<1>1. UNCHANGED tables /\ \/ Answer(c, "not_found") \/ Answer(c, "invalid") \/ Answer(c, "conflict")
                          \/ Answer(c, "ok") \/ Await(c, "commit")
  BY DEF EditReadLine, ReceiveReadLine, ReviseSumReceipts, ReviseCountLines, DetailReadLines
<1> QED
  BY <1>1, AnswerStep, AwaitStep DEF Replies, Awaits

(* The fields of a request on an item before it fills in its arguments.    *)
LEMMA OnItemFields ==
  ASSUME NEW op \in Operations, NEW i \in Items, NEW at \in Awaits
  PROVE  LET s == OnItem(op, i, at)
         IN s \in Request /\ s.op = op /\ s.item = i /\ s.at = at
            /\ s.existing = {} /\ s.reply = "none"
BY IdleIsRequest DEF OnItem, Idle, Request

(* The fields of a request on a category before it fills in its arguments. *)
LEMMA OnCategoryFields ==
  ASSUME NEW op \in Operations, NEW k \in Categories \cup {None}, NEW at \in Awaits
  PROVE  LET s == OnCategory(op, k, at)
         IN s \in Request /\ s.op = op /\ s.category = k /\ s.at = at
            /\ s.existing = {} /\ s.reply = "none"
BY IdleIsRequest DEF OnCategory, Idle, Request

(* A category deletion takes a request in: the invariant holds on.         *)
LEMMA StageDeleteCategoryStep ==
  ASSUME IndInv, NEW c \in Clients, NEW k \in Categories, StageDeleteCategory(c, k)
  PROVE  IndInv'
<1> DEFINE q == OnCategory("deleteCategory", k, "countUses")
<1>1. /\ q \in Request /\ q.op = "deleteCategory" /\ q.category = k /\ q.at = "countUses"
      /\ q.existing = {} /\ q.reply = "none"
  BY OnCategoryFields DEF Operations, Awaits
<1>2. (Answer(c, "not_found") \/ Suspend(c, q)) /\ UNCHANGED tables
  BY DEF StageDeleteCategory
<1> HIDE DEF q
<1>3. RequestSound(q)
  BY <1>1 DEF RequestSound, WellFormed, AwaitsLines
<1> QED
  BY <1>1, <1>2, <1>3, AnswerStep, RequestStep DEF Replies

(* An item creation takes a request in: the invariant holds on.            *)
LEMMA StageCreateItemStep ==
  ASSUME IndInv, NEW c \in Clients, NEW k \in Categories \cup {None},
         NEW stock \in Quantities \cup {0}, StageCreateItem(c, k, stock)
  PROVE  IndInv'
<1> DEFINE q == OnCategory("createItem", k, "commit")
           s == [q EXCEPT !.qty = stock]
<1>1. q \in Request /\ q.op = "createItem" /\ q.at = "commit" /\ q.existing = {} /\ q.reply = "none"
  BY OnCategoryFields DEF Operations, Awaits
<1>2. (Answer(c, "invalid") \/ Suspend(c, s)) /\ UNCHANGED tables
  BY DEF StageCreateItem
<1> HIDE DEF q
<1>3. s \in Request /\ s.op = q.op /\ s.at = q.at /\ s.existing = q.existing /\ s.reply = q.reply
  BY <1>1, QuantitiesAssumption DEF Request
<1> HIDE DEF s
<1>4. RequestSound(s)
  BY <1>1, <1>3 DEF RequestSound, WellFormed, AwaitsLines
<1> QED
  BY <1>2, <1>3, <1>4, AnswerStep, RequestStep DEF Replies

(* An item move takes a request in: the invariant holds on.                *)
LEMMA StageMoveItemStep ==
  ASSUME IndInv, NEW c \in Clients, NEW i \in Items, NEW k \in Categories \cup {None},
         StageMoveItem(c, i, k)
  PROVE  IndInv'
<1> DEFINE q == OnItem("moveItem", i, "readItem")
           s == [q EXCEPT !.category = k]
<1>1. q \in Request /\ q.op = "moveItem" /\ q.item = i /\ q.at = "readItem"
      /\ q.existing = {} /\ q.reply = "none"
  BY OnItemFields DEF Operations, Awaits
<1>2. (Answer(c, "invalid") \/ Suspend(c, s)) /\ UNCHANGED tables
  BY DEF StageMoveItem
<1> HIDE DEF q
<1>3. s \in Request /\ s.op = q.op /\ s.item = q.item /\ s.at = q.at
      /\ s.existing = q.existing /\ s.reply = q.reply
  BY <1>1 DEF Request
<1> HIDE DEF s
<1>4. RequestSound(s)
  BY <1>1, <1>3 DEF RequestSound, WellFormed, AwaitsLines
<1> QED
  BY <1>2, <1>3, <1>4, AnswerStep, RequestStep DEF Replies

(* An item deletion takes a request in: the invariant holds on.            *)
LEMMA StageDeleteItemStep ==
  ASSUME IndInv, NEW c \in Clients, NEW i \in Items, StageDeleteItem(c, i)
  PROVE  IndInv'
<1> DEFINE q == OnItem("deleteItem", i, "countUses")
<1>1. q \in Request /\ q.op = "deleteItem" /\ q.item = i /\ q.at = "countUses"
      /\ q.existing = {} /\ q.reply = "none"
  BY OnItemFields DEF Operations, Awaits
<1>2. (Answer(c, "not_found") \/ Suspend(c, q)) /\ UNCHANGED tables
  BY DEF StageDeleteItem
<1> HIDE DEF q
<1>3. RequestSound(q)
  BY <1>1 DEF RequestSound, WellFormed, AwaitsLines
<1> QED
  BY <1>1, <1>2, <1>3, AnswerStep, RequestStep DEF Replies

(* A stock adjustment takes a request in: the invariant holds on.          *)
LEMMA StageAdjustStockStep ==
  ASSUME IndInv, NEW c \in Clients, NEW i \in Items, NEW kind \in {"IN", "OUT", "ADJUST"},
         NEW qty \in Quantities \cup {0}, StageAdjustStock(c, i, kind, qty)
  PROVE  IndInv'
<1> DEFINE q == OnItem("adjustStock", i, "commit")
           s == [q EXCEPT !.ask = kind, !.qty = qty]
<1>1. q \in Request /\ q.op = "adjustStock" /\ q.item = i /\ q.at = "commit"
      /\ q.existing = {} /\ q.reply = "none"
  BY OnItemFields DEF Operations, Awaits
<1>2. (Answer(c, "not_found") \/ Answer(c, "invalid") \/ Suspend(c, s)) /\ UNCHANGED tables
  BY DEF StageAdjustStock
<1>3. /\ qty \in Nat
      /\ kind \in Statuses \cup {"metadata", "IN", "OUT", "ADJUST", "none"}
  BY QuantitiesAssumption
<1> HIDE DEF q
<1>4. /\ s \in Request /\ s.ask = kind
      /\ s.op = q.op /\ s.item = q.item /\ s.at = q.at
      /\ s.existing = q.existing /\ s.reply = q.reply
  BY <1>1, <1>3 DEF Request
<1> HIDE DEF s
<1>5. RequestSound(s)
  BY <1>1, <1>4 DEF RequestSound, WellFormed, AwaitsLines
<1> QED
  BY <1>2, <1>4, <1>5, AnswerStep, RequestStep DEF Replies

(* The later reads of the catalogue handlers keep the invariant.           *)
LEMMA InventoryReadsStep ==
  ASSUME IndInv, NEW c \in Clients,
         DeleteCategoryCount(c) \/ MoveItemRead(c) \/ DeleteItemCount(c)
  PROVE  IndInv'
<1>1. UNCHANGED tables /\ (Answer(c, "not_found") \/ Answer(c, "conflict") \/ Await(c, "commit"))
  BY DEF DeleteCategoryCount, MoveItemRead, DeleteItemCount
<1> QED
  BY <1>1, AnswerStep, AwaitStep DEF Replies, Awaits

-----------------------------------------------------------------------------
(* The steps that write.  A batch lets statuses move along their edges     *)
(* only, touches the rows of a confirmed order only to receive, and never  *)
(* makes a row vanish: so whatever other requests have read stays sound.   *)

DatabaseTypeOK ==
  /\ orders \in [Orders -> Order]
  /\ lines \in [Orders -> [Items -> Line]]
  /\ items \in [Items -> Item]
  /\ categories \in [Categories -> Life]
  /\ ledger \in [Items -> Int]
  /\ receipts \in [Orders -> [Items -> Nat]]

OnlyReceives(o) ==
  /\ orders[o].status \in {"ordered", "partially_received"}
  /\ \A i \in Items : /\ lines'[o][i].life = lines[o][i].life
                      /\ lines'[o][i].received >= lines[o][i].received

Forward(o) ==
  /\ \/ orders'[o].status = orders[o].status
     \/ orders[o].status = "absent"
     \/ <<orders[o].status, orders'[o].status>> \in LegalStatusEdges
  /\ \/ lines'[o] = lines[o]
     \/ orders[o].status \in {"absent", "draft"}
     \/ OnlyReceives(o)
  /\ \A i \in Items : lines[o][i].life # "absent" => lines'[o][i].life # "absent"

(* A header that was read stays true when orders only move forward.        *)
LEMMA HeaderStaysTrue ==
  ASSUME IndInv, NEW o \in Orders, Forward(o), NEW was, HeaderStillTrue(o, was)
  PROVE  HeaderStillTrue(o, was)'
BY DEF Forward, HeaderStillTrue, LegalStatusEdges, Placed

(* Rows that fit a header that was read keep fitting it.                   *)
LEMMA LinesKeepFitting ==
  ASSUME IndInv, NEW o \in Orders, Forward(o), NEW was,
         HeaderStillTrue(o, was), LinesFitHeader(o, was), DatabaseTypeOK'
  PROVE  LinesFitHeader(o, was)'
<1>1. CASE lines'[o] = lines[o]
  BY <1>1 DEF LinesFitHeader, HasLines, HasReceipts, Complete, LineActive
<1>2. CASE orders[o].status \in {"absent", "draft"}
  BY <1>2 DEF LinesFitHeader, HeaderStillTrue, Placed
<1>3. CASE OnlyReceives(o)
  <2>1. was \notin {"fully_received", "canceled"}
    BY <1>3 DEF OnlyReceives, HeaderStillTrue
  <2>2. HasLines(o) => HasLines(o)'
    BY <1>3 DEF OnlyReceives, HasLines, LineActive
  <2>3. \A i \in Items : lines[o][i].received \in Nat /\ lines'[o][i].received \in Nat
    BY DEF IndInv, TypeOK, TablesTypeOK, DatabaseTypeOK, Line
  <2>4. HasReceipts(o) => HasReceipts(o)'
    BY <1>3, <2>3 DEF OnlyReceives, HasReceipts, LineActive
  <2> QED
    BY <2>1, <2>2, <2>4 DEF LinesFitHeader
<1> QED
  BY <1>1, <1>2, <1>3 DEF Forward

(* A batch that leaves the database typed and sound and moves its orders   *)
(* forward keeps the invariant, if its own request stays sound.            *)
LEMMA WriteStep ==
  ASSUME IndInv, NEW c \in Clients, NEW r \in Request, RequestSound(r), Suspend(c, r),
         DatabaseTypeOK', TablesSound', \A o \in Orders : Forward(o)
  PROVE  IndInv'
<1>1. req' \in [Clients -> Request] /\ \A d \in Clients : req'[d] = IF d = c THEN r ELSE req[d]
  BY DEF IndInv, TypeOK, TablesTypeOK, Suspend
<1>2. \A d \in Clients : req'[d] \in Request /\ RequestSound(req'[d])
  BY <1>1, EveryRequestIsSound
<1>3. TypeOK'
  BY <1>1 DEF DatabaseTypeOK, TypeOK, TablesTypeOK
<1>4. ASSUME NEW d \in Clients, NEW i \in req'[d].existing
      PROVE  lines'[req'[d].order][i].life # "absent"
  <2>1. i \in Items /\ req'[d].order \in Orders
    BY <1>2 DEF RequestSound, WellFormed, Request
  <2>2. lines[req'[d].order][i].life # "absent"
    BY <1>2 DEF RequestSound, WellFormed
  <2> QED
    BY <2>1, <2>2 DEF Forward
<1>5. RequestsWellFormed'
  BY <1>2, <1>4 DEF RequestsWellFormed, RequestSound, WellFormed
<1>6. \A d \in Clients : AwaitsLines(req'[d]) => req'[d].order \in Orders
  BY <1>2 DEF RequestSound, WellFormed, AwaitsLines
<1>7. HeadersHold'
  BY <1>2, <1>6, HeaderStaysTrue DEF HeadersHold, RequestSound, AwaitsLines
<1>8. DetailIsCoherent'
  BY <1>2, <1>6, LinesKeepFitting DEF DetailIsCoherent, RequestSound, AwaitsLines
<1> QED
  BY <1>3, <1>5, <1>7, <1>8 DEF IndInv

-----------------------------------------------------------------------------
(* Writes to the catalogue and the stock: the orders do not change, so     *)
(* three conjuncts are at stake.                                           *)

(* A write that leaves the orders alone keeps the invariant if it keeps    *)
(* the three conjuncts on items, categories and stock.                     *)
LEMMA CatalogueWriteStep ==
  ASSUME IndInv, NEW c \in Clients, NEW r \in Request, RequestSound(r), Suspend(c, r),
         UNCHANGED <<orders, lines, receipts>>,
         items' \in [Items -> Item], categories' \in [Categories -> Life],
         ledger' \in [Items -> Int],
         OpenRowsHaveActiveItems', ActiveItemsHaveActiveCategories',
         \A i \in Items : items'[i].stock = ledger'[i]
  PROVE  IndInv'
<1>1. DatabaseTypeOK'
  BY DEF IndInv, TypeOK, TablesTypeOK, DatabaseTypeOK
<1>2. StatusMatchesRows' /\ ReceiptsAreWithinOrders' /\ RowsFollowTheirOrder'
  BY DEF IndInv, TablesSound, StatusMatchesRows, ReceiptsAreWithinOrders, RowsFollowTheirOrder,
         HasLines, HasReceipts, Complete, LineActive, OrderActive
<1>3. LedgerExplainsStock'
  BY DEF IndInv, TablesSound, LedgerExplainsStock
<1>4. \A o \in Orders : Forward(o)
  BY DEF Forward
<1> QED
  BY <1>1, <1>2, <1>3, <1>4, WriteStep DEF TablesSound

(* Every handler that wrote and reads back stays sound. *)
LEMMA ReadBackIsSound ==
  ASSUME IndInv, NEW c \in Clients
  PROVE  LET r == [req[c] EXCEPT !.at = "readBack"]
         IN r \in Request /\ RequestSound(r) /\ (Await(c, "readBack") => Suspend(c, r))
BY EveryRequestIsSound, AwaitIsSound DEF Await, Awaits

(* Creating a category keeps the invariant.                                *)
LEMMA CreateCategoryStep ==
  ASSUME IndInv, NEW c \in Clients, NEW k \in Categories, CreateCategory(c, k)
  PROVE  IndInv'
<1> DEFINE q == OnCategory("createCategory", k, "readBack")
<1>1. q \in Request /\ q.op = "createCategory" /\ q.at = "readBack"
      /\ q.existing = {} /\ q.reply = "none"
  BY OnCategoryFields DEF Operations, Awaits
<1>2. /\ Suspend(c, q) /\ UNCHANGED <<orders, lines, receipts, items, ledger>>
      /\ categories[k] = "absent" /\ categories' = [categories EXCEPT ![k] = "active"]
  BY DEF CreateCategory, orderTables
<1> HIDE DEF q
<1>3. RequestSound(q)
  BY <1>1 DEF RequestSound, WellFormed, AwaitsLines
<1>4. /\ categories' \in [Categories -> Life]
      /\ \A n \in Categories : CategoryActive(n) => CategoryActive(n)'
  BY <1>2 DEF IndInv, TypeOK, TablesTypeOK, CategoryActive, Life
<1>5. OpenRowsHaveActiveItems'
  BY <1>2 DEF IndInv, TablesSound, OpenRowsHaveActiveItems, LineActive, ItemActive
<1>6. ActiveItemsHaveActiveCategories'
  BY <1>2, <1>4 DEF IndInv, TypeOK, TablesTypeOK, Item, TablesSound,
                    ActiveItemsHaveActiveCategories, ItemActive
<1>7. items' \in [Items -> Item] /\ ledger' \in [Items -> Int]
      /\ \A i \in Items : items'[i].stock = ledger'[i]
  BY <1>2 DEF IndInv, TypeOK, TablesTypeOK, TablesSound, LedgerExplainsStock
<1> QED
  BY <1>1, <1>2, <1>3, <1>4, <1>5, <1>6, <1>7, CatalogueWriteStep

(* The count in the update's own WHERE clause is what keeps the category   *)
(* of every active item alive.                                             *)
LEMMA CommitDeleteCategoryStep ==
  ASSUME IndInv, NEW c \in Clients, CommitDeleteCategory(c)
  PROVE  IndInv'
<1> DEFINE k == req[c].category
           done == [Idle EXCEPT !.reply = "ok"]
<1>1. CASE ~DeleteCategoryGuard(k)
  BY <1>1, AnswerStep DEF CommitDeleteCategory, Replies
<1>2. CASE DeleteCategoryGuard(k)
  <2>1. /\ Suspend(c, done) /\ UNCHANGED <<orders, lines, receipts, items, ledger>>
        /\ categories' = [categories EXCEPT ![k] = "deleted"]
        /\ \A i \in Items : ItemActive(i) => items[i].category # k
    BY <1>2 DEF CommitDeleteCategory, orderTables, Answer, DeleteCategoryGuard, CategoryInUse
  <2>2. categories' \in [Categories -> Life]
        /\ \A n \in Categories : n # k => categories'[n] = categories[n]
    BY <2>1 DEF IndInv, TypeOK, TablesTypeOK, Life
  <2>3. OpenRowsHaveActiveItems'
    BY <2>1 DEF IndInv, TablesSound, OpenRowsHaveActiveItems, LineActive, ItemActive
  <2>4. ActiveItemsHaveActiveCategories'
    BY <2>1, <2>2 DEF IndInv, TypeOK, TablesTypeOK, Item, TablesSound,
                      ActiveItemsHaveActiveCategories, ItemActive, CategoryActive
  <2>5. items' \in [Items -> Item] /\ ledger' \in [Items -> Int]
        /\ \A i \in Items : items'[i].stock = ledger'[i]
    BY <2>1 DEF IndInv, TypeOK, TablesTypeOK, TablesSound, LedgerExplainsStock
  <2>6. done \in Request /\ RequestSound(done)
    BY AnswerIsSound DEF Replies
  <2> HIDE DEF k, done
  <2> QED
    BY <2>1, <2>2, <2>3, <2>4, <2>5, <2>6, CatalogueWriteStep
<1> QED
  BY <1>1, <1>2

(* Creating an item with its first ledger row keeps the invariant.         *)
LEMMA CommitCreateItemStep ==
  ASSUME IndInv, NEW c \in Clients, NEW i \in Items, CommitCreateItem(c, i)
  PROVE  IndInv'
<1> DEFINE k == req[c].category
           made == [life |-> "active", category |-> k, stock |-> req[c].qty]
           r == [req[c] EXCEPT !.at = "readBack"]
<1>1. CASE WriteItemAborts(k, req[c].qty)
  BY <1>1, AnswerStep DEF CommitCreateItem, Replies
<1>2. CASE ~WriteItemAborts(k, req[c].qty)
  <2>1. /\ Await(c, "readBack") /\ UNCHANGED <<orders, lines, receipts, categories>>
        /\ items[i] = NoItemYet
        /\ items' = [items EXCEPT ![i] = made]
        /\ ledger' = [ledger EXCEPT ![i] = req[c].qty]
    BY <1>2 DEF CommitCreateItem, orderTables
  <2>2. k \in Categories \cup {None} /\ req[c].qty \in Nat
    BY EveryRequestIsSound DEF Request
  <2>3. made \in Item /\ made.life = "active" /\ made.category = k /\ made.stock = req[c].qty
    BY <2>2 DEF Item, Life
  <2> HIDE DEF made
  <2>4. /\ items' \in [Items -> Item] /\ ledger' \in [Items -> Int]
        /\ items'[i] = made /\ ledger'[i] = req[c].qty
        /\ \A j \in Items \ {i} : items'[j] = items[j] /\ ledger'[j] = ledger[j]
    BY <2>1, <2>2, <2>3 DEF IndInv, TypeOK, TablesTypeOK
  <2>5. OpenRowsHaveActiveItems'
    BY <2>1, <2>3, <2>4 DEF IndInv, TablesSound, OpenRowsHaveActiveItems, LineActive, ItemActive
  <2>6. ActiveItemsHaveActiveCategories'
    BY <1>2, <2>1, <2>3, <2>4
       DEF IndInv, TablesSound, ActiveItemsHaveActiveCategories, ItemActive, CategoryActive,
           WriteItemAborts
  <2>7. \A j \in Items : items'[j].stock = ledger'[j]
    BY <2>3, <2>4 DEF IndInv, TablesSound, LedgerExplainsStock
  <2>8. categories' \in [Categories -> Life]
    BY <2>1 DEF IndInv, TypeOK, TablesTypeOK
  <2>9. r \in Request /\ RequestSound(r) /\ Suspend(c, r)
    BY <2>1, ReadBackIsSound
  <2> QED
    BY <2>1, <2>4, <2>5, <2>6, <2>7, <2>8, <2>9, CatalogueWriteStep
<1> QED
  BY <1>1, <1>2

(* Moving an item keeps the invariant: the trigger sees its category.      *)
LEMMA CommitMoveItemStep ==
  ASSUME IndInv, NEW c \in Clients, CommitMoveItem(c)
  PROVE  IndInv'
<1> DEFINE i == req[c].item
           k == req[c].category
           r == [req[c] EXCEPT !.at = "readBack"]
<1>1. CASE ~ItemActive(i) \/ WriteItemAborts(k, items[i].stock)
  BY <1>1, AnswerStep DEF CommitMoveItem, Replies
<1>2. CASE ItemActive(i) /\ ~WriteItemAborts(k, items[i].stock)
  <2>1. /\ Await(c, "readBack") /\ UNCHANGED <<orders, lines, receipts, categories, ledger>>
        /\ req[c].op = "moveItem"
        /\ items' = [items EXCEPT ![i].category = k]
    BY <1>2 DEF CommitMoveItem, orderTables, InFlight
  <2>2. i \in Items /\ k \in Categories \cup {None}
    BY <2>1, EveryRequestIsSound DEF Request, RequestSound, WellFormed
  <2>3. /\ items' \in [Items -> Item]
        /\ items'[i].category = k
        /\ \A j \in Items : items'[j].life = items[j].life /\ items'[j].stock = items[j].stock
        /\ \A j \in Items \ {i} : items'[j].category = items[j].category
    BY <2>1, <2>2 DEF IndInv, TypeOK, TablesTypeOK, Item
  <2>4. OpenRowsHaveActiveItems'
    BY <2>1, <2>3 DEF IndInv, TablesSound, OpenRowsHaveActiveItems, LineActive, ItemActive
  <2>5. ActiveItemsHaveActiveCategories'
    BY <1>2, <2>1, <2>3
       DEF IndInv, TablesSound, ActiveItemsHaveActiveCategories, ItemActive, CategoryActive,
           WriteItemAborts
  <2>6. ledger' \in [Items -> Int] /\ \A j \in Items : items'[j].stock = ledger'[j]
    BY <2>1, <2>3 DEF IndInv, TypeOK, TablesTypeOK, TablesSound, LedgerExplainsStock
  <2>7. categories' \in [Categories -> Life]
    BY <2>1 DEF IndInv, TypeOK, TablesTypeOK
  <2>8. r \in Request /\ RequestSound(r) /\ Suspend(c, r)
    BY <2>1, ReadBackIsSound
  <2> QED
    BY <2>1, <2>3, <2>4, <2>5, <2>6, <2>7, <2>8, CatalogueWriteStep
<1> QED
  BY <1>1, <1>2

(* The update counts the open orders again: none has a row of the item.    *)
LEMMA CommitDeleteItemStep ==
  ASSUME IndInv, NEW c \in Clients, CommitDeleteItem(c)
  PROVE  IndInv'
<1> DEFINE i == req[c].item
           done == [Idle EXCEPT !.reply = "ok"]
<1>1. CASE ~DeleteItemGuard(i) \/ WriteItemAborts(items[i].category, items[i].stock)
  BY <1>1, AnswerStep DEF CommitDeleteItem, Replies
<1>2. CASE DeleteItemGuard(i) /\ ~WriteItemAborts(items[i].category, items[i].stock)
  <2>1. /\ Suspend(c, done) /\ UNCHANGED <<orders, lines, receipts, categories, ledger>>
        /\ req[c].op = "deleteItem"
        /\ items' = [items EXCEPT ![i].life = "deleted"]
        /\ ~ItemOutstanding(i)
    BY <1>2 DEF CommitDeleteItem, orderTables, InFlight, Answer, DeleteItemGuard
  <2>2. i \in Items
    BY <2>1, EveryRequestIsSound DEF RequestSound, WellFormed
  <2>3. /\ items' \in [Items -> Item]
        /\ items'[i].life = "deleted"
        /\ \A j \in Items : items'[j].stock = items[j].stock
        /\ \A j \in Items \ {i} : items'[j] = items[j]
    BY <2>1, <2>2 DEF IndInv, TypeOK, TablesTypeOK, Item, Life
  <2>4. OpenRowsHaveActiveItems'
    BY <2>1, <2>3
       DEF IndInv, TablesSound, OpenRowsHaveActiveItems, RowsFollowTheirOrder, LineActive,
           ItemActive, ItemOutstanding, OrderActive
  <2>5. ActiveItemsHaveActiveCategories'
    BY <2>1, <2>3
       DEF IndInv, TablesSound, ActiveItemsHaveActiveCategories, ItemActive, CategoryActive
  <2>6. ledger' \in [Items -> Int] /\ \A j \in Items : items'[j].stock = ledger'[j]
    BY <2>1, <2>3 DEF IndInv, TypeOK, TablesTypeOK, TablesSound, LedgerExplainsStock
  <2>7. categories' \in [Categories -> Life]
    BY <2>1 DEF IndInv, TypeOK, TablesTypeOK
  <2>8. done \in Request /\ RequestSound(done)
    BY AnswerIsSound DEF Replies
  <2> HIDE DEF done
  <2> QED
    BY <2>1, <2>3, <2>4, <2>5, <2>6, <2>7, <2>8, CatalogueWriteStep
<1> QED
  BY <1>1, <1>2

(* The stock is checked again, with the change computed from it, in the    *)
(* batch that books the change in the ledger.                              *)
LEMMA CommitAdjustStockStep ==
  ASSUME IndInv, NEW c \in Clients, CommitAdjustStock(c)
  PROVE  IndInv'
<1> DEFINE i == req[c].item
           delta == AdjustDelta(req[c])
           r == [req[c] EXCEPT !.at = "readBack"]
<1>1. CASE ~AdjustGuard(i, delta) \/ WriteItemAborts(items[i].category, items[i].stock + delta)
  BY <1>1, AnswerStep DEF CommitAdjustStock, Replies
<1>2. CASE AdjustGuard(i, delta) /\ ~WriteItemAborts(items[i].category, items[i].stock + delta)
  <2>1. /\ Await(c, "readBack") /\ UNCHANGED <<orders, lines, receipts, categories>>
        /\ req[c].op = "adjustStock"
        /\ items' = [items EXCEPT ![i].stock = @ + delta]
        /\ ledger' = [ledger EXCEPT ![i] = @ + delta]
        /\ items[i].stock + delta >= 0
    BY <1>2 DEF CommitAdjustStock, orderTables, InFlight, AdjustGuard
  <2>2. i \in Items /\ req[c].ask \in {"IN", "OUT", "ADJUST"} /\ req[c].qty \in Nat
    BY <2>1, EveryRequestIsSound DEF Request, RequestSound, WellFormed
  <2>3. items[i] \in Item /\ items[i].stock \in Nat
    BY <2>2 DEF IndInv, TypeOK, TablesTypeOK, Item
  <2>4. delta \in Int
    BY <2>2, <2>3 DEF AdjustDelta, Delta
  <2> HIDE DEF delta
  <2>5. /\ items' \in [Items -> Item]
        /\ items'[i].stock = items[i].stock + delta
        /\ \A j \in Items : items'[j].life = items[j].life /\ items'[j].category = items[j].category
        /\ \A j \in Items \ {i} : items'[j] = items[j]
    <3> DEFINE new == [items[i] EXCEPT !.stock = items[i].stock + delta]
    <3>1. items[i].stock + delta \in Nat
      BY <2>1, <2>3, <2>4
    <3>2. /\ new \in Item /\ new.stock = items[i].stock + delta
          /\ new.life = items[i].life /\ new.category = items[i].category
      BY <2>3, <3>1 DEF Item
    <3>3. items' = [items EXCEPT ![i] = new]
      BY <2>1
    <3> HIDE DEF new
    <3> QED
      BY <2>2, <3>2, <3>3 DEF IndInv, TypeOK, TablesTypeOK
  <2>6. OpenRowsHaveActiveItems'
    BY <2>1, <2>5 DEF IndInv, TablesSound, OpenRowsHaveActiveItems, LineActive, ItemActive
  <2>7. ActiveItemsHaveActiveCategories'
    BY <2>1, <2>5
       DEF IndInv, TablesSound, ActiveItemsHaveActiveCategories, ItemActive, CategoryActive
  <2>8. ledger' \in [Items -> Int] /\ \A j \in Items : items'[j].stock = ledger'[j]
    BY <2>1, <2>2, <2>4, <2>5 DEF IndInv, TypeOK, TablesTypeOK, TablesSound, LedgerExplainsStock
  <2>9. categories' \in [Categories -> Life]
    BY <2>1 DEF IndInv, TypeOK, TablesTypeOK
  <2>10. r \in Request /\ RequestSound(r) /\ Suspend(c, r)
    BY <2>1, ReadBackIsSound
  <2> QED
    BY <2>1, <2>5, <2>6, <2>7, <2>8, <2>9, <2>10, CatalogueWriteStep
<1> QED
  BY <1>1, <1>2

-----------------------------------------------------------------------------
(* Writes to one order and its rows.                                       *)

RowSound(o, i) ==
  /\ lines[o][i].received <= lines[o][i].ordered
  /\ lines[o][i].received > 0 =>
       ~orders[o].deleted /\ orders[o].status \in {"partially_received", "fully_received"}
  /\ LineActive(o, i) => OrderActive(o) /\ lines[o][i].ordered > 0
  /\ lines[o][i].life = "deleted" => orders[o].deleted
  /\ lines[o][i].life = "absent" => lines[o][i] = NoLine
  /\ LineActive(o, i) /\ orders[o].status \notin {"fully_received", "canceled"} => ItemActive(i)
  /\ lines[o][i].received = receipts[o][i]

StatusSound(o) ==
  orders[o].status \in Placed =>
    /\ HasLines(o)
    /\ orders[o].status = "fully_received" <=> Complete(o)
    /\ orders[o].status = "ordered" <=> ~HasReceipts(o)

(* Under the invariant every order and each of its rows is sound.          *)
LEMMA EveryOrderIsSound ==
  ASSUME IndInv, NEW o \in Orders
  PROVE  /\ StatusSound(o)
         /\ \A i \in Items : RowSound(o, i)
         /\ orders[o] \in Order
         /\ lines[o] \in [Items -> Line]
         /\ receipts[o] \in [Items -> Nat]
BY DEF IndInv, TypeOK, TablesTypeOK, TablesSound, StatusMatchesRows, ReceiptsAreWithinOrders,
       RowsFollowTheirOrder, OpenRowsHaveActiveItems, LedgerExplainsStock, StatusSound, RowSound

(* The write leaves the other orders, the life of the items and their      *)
(* categories alone, and its own order sound.                              *)
LEMMA OneOrderStep ==
  ASSUME IndInv, NEW c \in Clients, NEW r \in Request, RequestSound(r), Suspend(c, r),
         NEW o \in Orders, NEW order \in Order, NEW rows \in [Items -> Line],
         NEW booked \in [Items -> Nat],
         orders' = [orders EXCEPT ![o] = order],
         lines' = [lines EXCEPT ![o] = rows],
         receipts' = [receipts EXCEPT ![o] = booked],
         items' \in [Items -> Item], ledger' \in [Items -> Int],
         \A i \in Items : /\ items'[i].life = items[i].life
                          /\ items'[i].category = items[i].category
                          /\ items'[i].stock = ledger'[i],
         UNCHANGED categories,
         StatusSound(o)', \A i \in Items : RowSound(o, i)', Forward(o)
  PROVE  IndInv'
<1>1. /\ orders'[o] = order /\ lines'[o] = rows /\ receipts'[o] = booked
      /\ \A d \in Orders \ {o} :
           orders'[d] = orders[d] /\ lines'[d] = lines[d] /\ receipts'[d] = receipts[d]
  BY DEF IndInv, TypeOK, TablesTypeOK
<1>2. DatabaseTypeOK'
  BY DEF IndInv, TypeOK, TablesTypeOK, DatabaseTypeOK
<1>3. ASSUME NEW d \in Orders
      PROVE  StatusSound(d)' /\ \A i \in Items : RowSound(d, i)'
  <2>1. CASE d = o
    BY <2>1
  <2>2. CASE d # o
    <3>1. StatusSound(d)'
      BY <1>1, <2>2, EveryOrderIsSound
         DEF StatusSound, HasLines, HasReceipts, Complete, LineActive
    <3>2. \A i \in Items : RowSound(d, i)'
      BY <1>1, <2>2, EveryOrderIsSound DEF RowSound, LineActive, OrderActive, ItemActive
    <3> QED
      BY <3>1, <3>2
  <2> QED
    BY <2>1, <2>2
<1>4. TablesSound'
  <2>1. StatusMatchesRows'
    BY <1>3 DEF StatusMatchesRows, StatusSound
  <2>2. ReceiptsAreWithinOrders' /\ RowsFollowTheirOrder' /\ OpenRowsHaveActiveItems'
    BY <1>3 DEF ReceiptsAreWithinOrders, RowsFollowTheirOrder, OpenRowsHaveActiveItems, RowSound
  <2>3. LedgerExplainsStock'
    BY <1>3 DEF LedgerExplainsStock, RowSound
  <2>4. ActiveItemsHaveActiveCategories'
    BY DEF IndInv, TablesSound, ActiveItemsHaveActiveCategories, ItemActive, CategoryActive
  <2> QED
    BY <2>1, <2>2, <2>3, <2>4 DEF TablesSound
<1>5. \A d \in Orders : Forward(d)
  BY <1>1 DEF Forward
<1> QED
  BY <1>2, <1>4, <1>5, WriteStep

(* The same for the writes that leave the stock and the receipts alone.    *)
LEMMA OneOrderWriteStep ==
  ASSUME IndInv, NEW c \in Clients, NEW r \in Request, RequestSound(r), Suspend(c, r),
         NEW o \in Orders, NEW order \in Order, NEW rows \in [Items -> Line],
         orders' = [orders EXCEPT ![o] = order],
         lines' = [lines EXCEPT ![o] = rows],
         UNCHANGED <<items, categories, ledger, receipts>>,
         StatusSound(o)', \A i \in Items : RowSound(o, i)', Forward(o)
  PROVE  IndInv'
<1>1. receipts[o] \in [Items -> Nat] /\ receipts' = [receipts EXCEPT ![o] = receipts[o]]
  BY DEF IndInv, TypeOK, TablesTypeOK
<1>2. items' \in [Items -> Item] /\ ledger' \in [Items -> Int]
      /\ \A i \in Items : items'[i].stock = ledger'[i]
  BY DEF IndInv, TypeOK, TablesTypeOK, TablesSound, LedgerExplainsStock
<1> QED
  BY <1>1, <1>2, OneOrderStep

(* An order written back as it was leaves the tables as they were.         *)
LEMMA UnchangedEntry ==
  ASSUME IndInv, NEW o \in Orders
  PROVE  /\ orders = [orders EXCEPT ![o] = orders[o]]
         /\ lines = [lines EXCEPT ![o] = lines[o]]
BY DEF IndInv, TypeOK, TablesTypeOK

(* An id that no order has been given yet has no rows.                     *)
LEMMA NoOrderYetNoRows ==
  ASSUME IndInv, NEW o \in Orders, orders[o] = NoOrderYet
  PROVE  \A i \in Items : lines[o][i] = NoLine /\ receipts[o][i] = 0
BY EveryOrderIsSound
   DEF RowSound, NoOrderYet, NoLine, LineActive, OrderActive, Line, Life

(* A newly drafted order is an active draft.                               *)
LEMMA DraftedOrder ==
  ASSUME IndInv, NEW o \in Orders, orders[o] = NoOrderYet,
         orders' = [orders EXCEPT ![o] = [orders[o] EXCEPT !.status = "draft"]]
  PROVE  LET order == [orders[o] EXCEPT !.status = "draft"]
         IN order \in Order /\ order.status = "draft" /\ ~order.deleted /\ orders'[o] = order
<1> DEFINE order == [orders[o] EXCEPT !.status = "draft"]
<1>1. orders[o] \in Order /\ orders[o].deleted = FALSE
  BY EveryOrderIsSound DEF NoOrderYet
<1>2. order \in Order /\ order.status = "draft" /\ ~order.deleted
  BY <1>1 DEF Order, Statuses
<1> HIDE DEF order
<1>3. orders'[o] = order
  BY DEF order, IndInv, TypeOK, TablesTypeOK
<1> QED
  BY <1>2, <1>3 DEF order

(* createDraft keeps the invariant.                                        *)
LEMMA CreateDraftStep ==
  ASSUME IndInv, NEW c \in Clients, NEW o \in Orders, NEW asked \in {"draft", "ordered"},
         CreateDraft(c, o, asked)
  PROVE  IndInv'
<1> DEFINE q == Staged("createDraft", o, "readBack")
           order == [orders[o] EXCEPT !.status = "draft"]
<1>1. CASE asked # "draft"
  BY <1>1, AnswerStep DEF CreateDraft, Replies
<1>2. CASE asked = "draft"
  <2>1. /\ orders[o] = NoOrderYet /\ Suspend(c, q)
        /\ orders' = [orders EXCEPT ![o] = order]
        /\ UNCHANGED <<lines, items, categories, ledger, receipts>>
    BY <1>2 DEF CreateDraft, stockTables
  <2>2. q \in Request /\ q.op = "createDraft" /\ q.at = "readBack"
        /\ q.existing = {} /\ q.reply = "none"
    BY StagedFields DEF Operations, Awaits
  <2>3. order \in Order /\ order.status = "draft" /\ ~order.deleted /\ orders'[o] = order
    BY <2>1, DraftedOrder
  <2>4. \A i \in Items : lines'[o][i] = NoLine /\ receipts'[o][i] = 0
    BY <2>1, NoOrderYetNoRows
  <2> HIDE DEF q, order
  <2>5. StatusSound(o)'
    BY <2>3 DEF StatusSound, Placed
  <2>6. \A i \in Items : RowSound(o, i)'
    BY <2>3, <2>4 DEF RowSound, NoLine, LineActive
  <2>7. Forward(o)
    BY <2>1 DEF Forward, NoOrderYet
  <2>8. RequestSound(q)
    BY <2>2 DEF RequestSound, WellFormed, AwaitsLines
  <2> QED
    BY <2>1, <2>2, <2>3, <2>5, <2>6, <2>7, <2>8, UnchangedEntry, EveryOrderIsSound,
       OneOrderWriteStep
<1> QED
  BY <1>1, <1>2

(* The batch of createDraftWithItems keeps the invariant.                  *)
LEMMA CommitCreateWithItemsStep ==
  ASSUME IndInv, NEW c \in Clients, NEW o \in Orders, CommitCreateWithItems(c, o)
  PROVE  IndInv'
<1> DEFINE want == req[c].want
           aborts == \E i \in Wanted(req[c]) :
                       InsertLineAborts(i, NewLine(want[i]), TRUE, LineActive(o, i))
           order == [orders[o] EXCEPT !.status = "draft"]
           rows == [i \in Items |-> IF i \in Wanted(req[c]) THEN NewLine(want[i]) ELSE lines[o][i]]
           r == [req[c] EXCEPT !.at = "readBack"]
<1>1. CASE aborts
  BY <1>1, AnswerStep DEF CommitCreateWithItems, Replies
<1>2. CASE ~aborts
  <2>1. /\ orders[o] = NoOrderYet /\ Await(c, "readBack")
        /\ orders' = [orders EXCEPT ![o] = order]
        /\ lines' = [lines EXCEPT ![o] = rows]
        /\ UNCHANGED <<items, categories, ledger, receipts>>
    BY <1>2 DEF CommitCreateWithItems, stockTables
  <2>2. \A i \in Items : want[i] \in Nat
    BY EveryRequestIsSound DEF Request
  <2>3. \A i \in Wanted(req[c]) : i \in Items /\ want[i] > 0 /\ ItemActive(i)
    BY <1>2 DEF Wanted, InsertLineAborts
  <2>4. order \in Order /\ order.status = "draft" /\ ~order.deleted /\ orders'[o] = order
    BY <2>1, DraftedOrder
  <2>5. \A i \in Items : lines[o][i] = NoLine /\ receipts'[o][i] = 0
    BY <2>1, NoOrderYetNoRows
  <2>6. rows \in [Items -> Line]
    BY <2>2, EveryOrderIsSound DEF NewLine, Line, Life
  <2>7. lines'[o] = rows
    BY <2>1 DEF IndInv, TypeOK, TablesTypeOK
  <2>8. StatusSound(o)'
    BY <2>4 DEF StatusSound, Placed
  <2>9. ASSUME NEW i \in Items PROVE RowSound(o, i)'
    <3>1. CASE i \in Wanted(req[c])
      <4>1. lines'[o][i] = NewLine(want[i]) /\ receipts'[o][i] = 0 /\ ItemActive(i)'
        BY <2>1, <2>3, <2>5, <2>7, <3>1 DEF ItemActive
      <4> QED
        BY <2>2, <2>3, <2>4, <3>1, <4>1 DEF RowSound, NewLine, LineActive, OrderActive
    <3>2. CASE i \notin Wanted(req[c])
      <4>1. lines'[o][i] = NoLine /\ receipts'[o][i] = 0
        BY <2>5, <2>7, <3>2
      <4> QED
        BY <2>4, <4>1 DEF RowSound, NoLine, LineActive
    <3> QED
      BY <3>1, <3>2
  <2>10. Forward(o)
    BY <2>1, <2>5 DEF Forward, NoOrderYet, NoLine
  <2>11. r \in Request /\ RequestSound(r) /\ Suspend(c, r)
    BY <2>1, ReadBackIsSound
  <2> HIDE DEF order, rows, r
  <2> QED
    BY <2>1, <2>4, <2>6, <2>8, <2>9, <2>10, <2>11, OneOrderWriteStep
<1> QED
  BY <1>1, <1>2

(* The batch still sees a draft, so no row of it is deleted and none has   *)
(* been received; the unique index keeps it from adding a row twice.       *)
LEMMA CommitAddItemsStep ==
  ASSUME IndInv, NEW c \in Clients, CommitAddItems(c)
  PROVE  IndInv'
<1>1. PICK o \in Orders : o = req[c].order
  BY EveryRequestIsSound DEF CommitAddItems, InFlight, RequestSound, WellFormed
<1> DEFINE rows == [i \in Items |-> IF i \in Wanted(req[c]) THEN AddedLine(req[c], i)
                               ELSE lines[o][i]]
           r == [req[c] EXCEPT !.at = "readBack"]
<1>2. CASE ~AddItemsGuard(o) \/ (\E i \in Wanted(req[c]) : AddLineAborts(req[c], i))
  BY <1>1, <1>2, AnswerStep DEF CommitAddItems, Replies
<1>3. CASE AddItemsGuard(o) /\ ~(\E i \in Wanted(req[c]) : AddLineAborts(req[c], i))
  <2>1. /\ Await(c, "readBack") /\ req[c].op = "addItems"
        /\ lines' = [lines EXCEPT ![o] = rows]
        /\ UNCHANGED <<orders, items, categories, ledger, receipts>>
    BY <1>1, <1>3 DEF CommitAddItems, InFlight, stockTables
  <2>2. /\ \A i \in Items : req[c].want[i] \in Nat
        /\ \A i \in req[c].existing : lines[o][i].life # "absent"
    BY <1>1, <2>1, EveryRequestIsSound DEF Request, RequestSound, WellFormed
  <2>3. orders[o].status = "draft" /\ ~orders[o].deleted
    BY <1>3 DEF AddItemsGuard, ActiveDraft, OrderActive
  <2>4. \A i \in Items : /\ lines[o][i] \in Line /\ RowSound(o, i)
                         /\ lines[o][i].received = 0 /\ lines[o][i].life # "deleted"
    BY <2>2, <2>3, EveryOrderIsSound DEF RowSound, Line
  <2>5. ASSUME NEW i \in Wanted(req[c])
        PROVE  /\ AddedLine(req[c], i) \in Line
               /\ AddedLine(req[c], i).life = "active"
               /\ AddedLine(req[c], i).received = 0
               /\ AddedLine(req[c], i).ordered > 0
               /\ ItemActive(i)
    <3>1. i \in Items /\ req[c].want[i] \in Nat /\ req[c].want[i] > 0
      BY <2>2 DEF Wanted
    <3>2. CASE i \in req[c].existing
      <4>1. AddedLine(req[c], i) =
              [lines[o][i] EXCEPT !.ordered = lines[o][i].ordered + req[c].want[i]]
        BY <1>1, <3>2 DEF AddedLine
      <4>2. lines[o][i] \in Line /\ lines[o][i].life = "active"
        BY <2>2, <2>4, <3>1, <3>2 DEF Line, Life
      <4>3. /\ AddedLine(req[c], i) \in Line
            /\ AddedLine(req[c], i).life = "active"
            /\ AddedLine(req[c], i).received = lines[o][i].received
            /\ AddedLine(req[c], i).ordered = lines[o][i].ordered + req[c].want[i]
        BY <3>1, <4>1, <4>2 DEF Line
      <4>4. ItemActive(i)
        BY <2>3, <2>4, <3>1, <4>2 DEF RowSound, LineActive
      <4> QED
        BY <2>4, <3>1, <4>2, <4>3, <4>4 DEF Line
    <3>3. CASE i \notin req[c].existing
      <4>1. AddedLine(req[c], i) = [life |-> "active", ordered |-> req[c].want[i], received |-> 0]
        BY <3>3 DEF AddedLine, NewLine
      <4>2. ItemActive(i)
        BY <1>3, <3>3 DEF AddLineAborts, InsertLineAborts
      <4> QED
        BY <3>1, <4>1, <4>2 DEF Line, Life
    <3> QED
      BY <3>2, <3>3
  <2>6. rows \in [Items -> Line]
    BY <2>4, <2>5
  <2>7. lines'[o] = rows
    BY <2>1 DEF IndInv, TypeOK, TablesTypeOK
  <2>8. StatusSound(o)'
    BY <2>1, <2>3 DEF StatusSound, Placed
  <2>9. ASSUME NEW i \in Items
        PROVE  RowSound(o, i)' /\ (lines[o][i].life # "absent" => lines'[o][i].life # "absent")
    <3>1. CASE i \in Wanted(req[c])
      <4>1. /\ lines'[o][i].life = "active" /\ lines'[o][i].received = 0
            /\ lines'[o][i].ordered > 0 /\ ItemActive(i)'
        BY <2>1, <2>5, <2>7, <3>1 DEF ItemActive
      <4>2. receipts'[o][i] = 0
        BY <2>1, <2>4 DEF RowSound
      <4> QED
        BY <2>1, <2>3, <3>1, <4>1, <4>2, <2>6, <2>7 DEF RowSound, LineActive, OrderActive, Line
    <3>2. CASE i \notin Wanted(req[c])
      <4>1. lines'[o][i] = lines[o][i]
        BY <2>7, <3>2
      <4> QED
        BY <2>1, <2>4, <3>2, <4>1 DEF RowSound, LineActive, OrderActive, ItemActive
    <3> QED
      BY <3>1, <3>2
  <2>10. Forward(o)
    BY <2>1, <2>3, <2>9 DEF Forward
  <2>11. r \in Request /\ RequestSound(r) /\ Suspend(c, r)
    BY <2>1, ReadBackIsSound
  <2> HIDE DEF rows, r
  <2> QED
    BY <2>1, <2>2, <2>6, <2>8, <2>9, <2>10, <2>11, UnchangedEntry, EveryOrderIsSound,
       OneOrderWriteStep
<1> QED
  BY <1>2, <1>3

(* The batch of editDraftItem keeps the invariant.                         *)
LEMMA CommitEditItemStep ==
  ASSUME IndInv, NEW c \in Clients, CommitEditItem(c)
  PROVE  IndInv'
<1>1. PICK o \in Orders, i \in Items : o = req[c].order /\ i = req[c].item
  BY EveryRequestIsSound DEF CommitEditItem, InFlight, RequestSound, WellFormed
<1> DEFINE edited == [lines[o][i] EXCEPT !.ordered = req[c].qty]
           rows == [lines[o] EXCEPT ![i] = edited]
           r == [req[c] EXCEPT !.at = "readBack"]
<1>2. CASE ~EditGuard(o, i) \/ UpdateLineAborts(i, edited, OrderActive(o))
  BY <1>1, <1>2, AnswerStep DEF CommitEditItem, Replies
<1>3. CASE EditGuard(o, i) /\ ~UpdateLineAborts(i, edited, OrderActive(o))
  <2>1. /\ Await(c, "readBack") /\ req[c].op = "editItem"
        /\ lines' = [lines EXCEPT ![o] = rows]
        /\ UNCHANGED <<orders, items, categories, ledger, receipts>>
    BY <1>1, <1>3 DEF CommitEditItem, InFlight, stockTables
  <2>2. req[c].qty \in Nat /\ req[c].qty > 0
    BY <2>1, EveryRequestIsSound DEF Request, RequestSound, WellFormed
  <2>3. orders[o].status = "draft" /\ ~orders[o].deleted /\ LineActive(o, i)
    BY <1>3 DEF EditGuard, ActiveDraft, OrderActive
  <2>4. lines[o] \in [Items -> Line] /\ \A j \in Items : RowSound(o, j) /\ lines[o][j].received = 0
    BY <2>2, <2>3, EveryOrderIsSound DEF RowSound, Line
  <2>5. /\ edited \in Line /\ edited.life = "active" /\ edited.received = 0
        /\ edited.ordered = req[c].qty
    BY <2>2, <2>3, <2>4 DEF Line, LineActive
  <2> HIDE DEF edited
  <2>6. /\ rows \in [Items -> Line] /\ rows[i] = edited
        /\ \A j \in Items \ {i} : rows[j] = lines[o][j]
    BY <2>2, <2>4, <2>5
  <2>7. lines'[o] = rows
    BY <2>1 DEF IndInv, TypeOK, TablesTypeOK
  <2> HIDE DEF rows
  <2>8. StatusSound(o)'
    BY <2>1, <2>3 DEF StatusSound, Placed
  <2>9. ASSUME NEW j \in Items PROVE RowSound(o, j)' /\ lines'[o][j].life = lines[o][j].life
    <3>1. CASE j = i
      <4>1. ItemActive(i)
        BY <2>2, <2>3, <2>4 DEF RowSound
      <4> QED
        BY <2>1, <2>2, <2>3, <2>4, <2>5, <2>6, <2>7, <3>1, <4>1
           DEF RowSound, LineActive, OrderActive, ItemActive
    <3>2. CASE j # i
      BY <2>1, <2>4, <2>6, <2>7, <3>2 DEF RowSound, LineActive, OrderActive, ItemActive
    <3> QED
      BY <3>1, <3>2
  <2>10. Forward(o)
    BY <2>1, <2>3, <2>9 DEF Forward
  <2>11. r \in Request /\ RequestSound(r) /\ Suspend(c, r)
    BY <2>1, ReadBackIsSound
  <2> HIDE DEF r
  <2> QED
    BY <2>1, <2>2, <2>6, <2>8, <2>9, <2>10, <2>11, UnchangedEntry, EveryOrderIsSound,
       OneOrderWriteStep
<1> QED
  BY <1>2, <1>3

(* A confirmation finds rows and no receipt; a cancellation finds a status *)
(* under which nothing can have been received.                             *)
LEMMA CommitReviseStep ==
  ASSUME IndInv, NEW c \in Clients, CommitRevise(c)
  PROVE  IndInv'
<1>1. PICK o \in Orders : o = req[c].order
  BY EveryRequestIsSound DEF CommitRevise, InFlight, RequestSound, WellFormed
<1> DEFINE ask == req[c].ask
           status == IF ask = "metadata" THEN orders[o].status ELSE ask
           order == [orders[o] EXCEPT !.status = status]
           r == [req[c] EXCEPT !.at = "readBack"]
<1>2. CASE ~ReviseGuard(req[c]) \/ UpdateStatusAborts(orders[o].status, status)
  BY <1>1, <1>2, AnswerStep DEF CommitRevise, Replies
<1>3. CASE ReviseGuard(req[c]) /\ ~UpdateStatusAborts(orders[o].status, status)
  <2>1. /\ Await(c, "readBack") /\ req[c].op = "revise"
        /\ orders' = [orders EXCEPT ![o] = order]
        /\ UNCHANGED <<lines, items, categories, ledger, receipts>>
    BY <1>1, <1>3 DEF CommitRevise, InFlight, stockTables
  <2>2. ask \in RequestableStatuses \cup {"metadata"}
    BY <2>1, EveryRequestIsSound DEF RequestSound, WellFormed
  <2>3. /\ orders[o].status # "absent" /\ ~orders[o].deleted
        /\ ask = "ordered" => HasLines(o)
        /\ \/ status = orders[o].status
           \/ <<orders[o].status, status>> \in LegalStatusEdges
    BY <1>1, <1>3 DEF ReviseGuard, OrderActive, UpdateStatusAborts
  <2>4. /\ orders[o] \in Order /\ lines[o] \in [Items -> Line]
        /\ StatusSound(o) /\ \A i \in Items : RowSound(o, i)
    BY EveryOrderIsSound
  <2>5. status \in Statuses
    BY <2>2, <2>3, <2>4 DEF RequestableStatuses, Statuses, Order
  <2> HIDE DEF status
  <2>6. /\ order \in Order /\ order.status = status /\ order.deleted = orders[o].deleted
    BY <2>4, <2>5 DEF Order
  <2> HIDE DEF order
  <2>7. orders'[o] = order
    BY <2>1 DEF IndInv, TypeOK, TablesTypeOK
  <2>8. CASE status = orders[o].status
    <3>1. orders'[o].status = orders[o].status /\ orders'[o].deleted = orders[o].deleted
      BY <2>6, <2>7, <2>8
    <3>2. StatusSound(o)'
      BY <2>1, <2>4, <3>1 DEF StatusSound, HasLines, HasReceipts, Complete, LineActive
    <3>3. \A i \in Items : RowSound(o, i)'
      BY <2>1, <2>4, <3>1 DEF RowSound, LineActive, OrderActive, ItemActive
    <3>4. Forward(o)
      BY <2>1, <3>1 DEF Forward
    <3>5. r \in Request /\ RequestSound(r) /\ Suspend(c, r)
      BY <2>1, ReadBackIsSound
    <3> HIDE DEF r
    <3> QED
      BY <2>1, <2>4, <2>6, <3>2, <3>3, <3>4, <3>5, UnchangedEntry, OneOrderWriteStep
  <2>9. CASE status # orders[o].status
    <3>1. /\ ask = status
          /\ \/ orders[o].status = "draft" /\ status = "ordered"
             \/ orders[o].status \in {"draft", "ordered"} /\ status = "canceled"
      BY <2>2, <2>3, <2>9 DEF status, LegalStatusEdges, RequestableStatuses
    <3>2. \A i \in Items : lines[o][i].received = 0 /\ lines[o][i] \in Line
      BY <2>4, <3>1 DEF RowSound, Line
    <3>3. StatusSound(o)'
      <4>1. CASE status = "canceled"
        BY <2>6, <2>7, <4>1 DEF StatusSound, Placed
      <4>2. CASE status = "ordered"
        <5>1. PICK i \in Items : LineActive(o, i)
          BY <2>3, <3>1, <4>2 DEF HasLines
        <5>2. LineActive(o, i)' /\ lines'[o][i].received # lines'[o][i].ordered
          BY <2>1, <2>4, <3>2, <5>1 DEF RowSound, LineActive
        <5>3. HasLines(o)' /\ ~Complete(o)' /\ ~HasReceipts(o)'
          BY <2>1, <3>2, <5>2 DEF HasLines, Complete, HasReceipts, LineActive
        <5> QED
          BY <2>6, <2>7, <4>2, <5>3 DEF StatusSound, Placed
      <4> QED
        BY <3>1, <4>1, <4>2
    <3>4. \A i \in Items : RowSound(o, i)'
      BY <2>1, <2>3, <2>4, <2>6, <2>7, <3>1, <3>2 DEF RowSound, LineActive, OrderActive, ItemActive
    <3>5. Forward(o)
      BY <2>1, <2>3, <2>6, <2>7 DEF Forward
    <3>6. r \in Request /\ RequestSound(r) /\ Suspend(c, r)
      BY <2>1, ReadBackIsSound
    <3> HIDE DEF r
    <3> QED
      BY <2>1, <2>4, <2>6, <3>3, <3>4, <3>5, <3>6, UnchangedEntry, OneOrderWriteStep
  <2> QED
    BY <2>8, <2>9
<1> QED
  BY <1>2, <1>3

(* Both updates of the batch find the same: the rows go with their order.  *)
LEMMA CommitDeleteDraftStep ==
  ASSUME IndInv, NEW c \in Clients, CommitDeleteDraft(c)
  PROVE  IndInv'
<1>1. PICK o \in Orders : o = req[c].order
  BY EveryRequestIsSound DEF CommitDeleteDraft, InFlight, RequestSound, WellFormed
<1> DEFINE order == [orders[o] EXCEPT !.deleted = TRUE]
           rows == [i \in Items |-> DeletedRow(lines[o][i])]
           done == [Idle EXCEPT !.reply = "ok"]
<1>2. CASE ~DeleteOrderGuard(o)
  <2>1. Answer(c, "conflict") /\ UNCHANGED tables
    BY <1>1, <1>2 DEF CommitDeleteDraft, DeleteOrderGuard, DeleteRowsGuard, stockTables, tables
  <2> QED
    BY <2>1, AnswerStep DEF Replies
<1>3. CASE DeleteOrderGuard(o)
  <2>1. /\ Suspend(c, done)
        /\ orders' = [orders EXCEPT ![o] = order]
        /\ lines' = [lines EXCEPT ![o] = rows]
        /\ UNCHANGED <<items, categories, ledger, receipts>>
    BY <1>1, <1>3
       DEF CommitDeleteDraft, DeleteOrderGuard, DeleteRowsGuard, Answer, stockTables
  <2>2. orders[o].status = "draft" /\ \A i \in Items : lines[o][i].received = 0
    BY <1>3 DEF DeleteOrderGuard, ActiveDraft, NothingReceived
  <2>3. /\ orders[o] \in Order /\ lines[o] \in [Items -> Line]
        /\ \A i \in Items : RowSound(o, i)
    BY EveryOrderIsSound
  <2>4. order \in Order /\ order.status = "draft" /\ order.deleted
    BY <2>2, <2>3 DEF Order
  <2> HIDE DEF order
  <2>5. ASSUME NEW i \in Items
        PROVE  /\ rows[i] \in Line /\ rows[i].received = 0 /\ rows[i].life # "active"
               /\ rows[i].ordered = lines[o][i].ordered
               /\ lines[o][i].life = "absent" => rows[i] = lines[o][i]
               /\ lines[o][i].life # "absent" => rows[i].life # "absent"
    <3>1. lines[o][i] \in Line /\ lines[o][i].received = 0
      BY <2>2, <2>3
    <3>2. CASE lines[o][i].life = "active"
      <4>1. rows[i] = [lines[o][i] EXCEPT !.life = "deleted"]
        BY <3>2 DEF DeletedRow
      <4> QED
        BY <3>1, <3>2, <4>1 DEF Line, Life
    <3>3. CASE lines[o][i].life # "active"
      BY <3>1, <3>3 DEF DeletedRow
    <3> QED
      BY <3>2, <3>3
  <2>6. rows \in [Items -> Line]
    BY <2>5
  <2> HIDE DEF rows
  <2>7. orders'[o] = order /\ lines'[o] = rows
    BY <2>1 DEF IndInv, TypeOK, TablesTypeOK
  <2>8. StatusSound(o)'
    BY <2>4, <2>7 DEF StatusSound, Placed
  <2>9. ASSUME NEW i \in Items PROVE RowSound(o, i)'
    <3>1. lines'[o][i] = rows[i] /\ receipts'[o][i] = receipts[o][i] /\ orders'[o].deleted
      BY <2>1, <2>4, <2>7
    <3>2. rows[i].received = 0 /\ rows[i].ordered \in Nat /\ receipts[o][i] = 0
      BY <2>2, <2>3, <2>5 DEF RowSound, Line
    <3>3. rows[i].life = "absent" => rows[i] = NoLine
      BY <2>3, <2>5 DEF RowSound
    <3> QED
      BY <2>5, <3>1, <3>2, <3>3 DEF RowSound, LineActive
  <2>10. Forward(o)
    BY <2>2, <2>4, <2>5, <2>7 DEF Forward
  <2>11. done \in Request /\ RequestSound(done)
    BY AnswerIsSound DEF Replies
  <2> HIDE DEF done
  <2> QED
    BY <2>1, <2>4, <2>6, <2>8, <2>9, <2>10, <2>11, OneOrderWriteStep
<1> QED
  BY <1>2, <1>3

(* The status a receipt gives the order is the one its new rows imply.     *)
LEMMA CommitReceiveStep ==
  ASSUME IndInv, NEW c \in Clients, CommitReceive(c)
  PROVE  IndInv'
<1>1. PICK o \in Orders, i \in Items : o = req[c].order /\ i = req[c].item
  BY EveryRequestIsSound DEF CommitReceive, InFlight, RequestSound, WellFormed
<1> DEFINE qty == req[c].qty
           rows == ReceivedRows(o, i, qty)
           order == [orders[o] EXCEPT !.status = DerivedStatus(rows)]
           booked == [receipts[o] EXCEPT ![i] = @ + qty]
           r == [req[c] EXCEPT !.at = "readBack"]
<1>2. CASE ~ReceiptGuard(o, i, qty) \/ ReceiptAborts(o, i, qty)
  BY <1>1, <1>2, AnswerStep DEF CommitReceive, Replies
<1>3. CASE ReceiptGuard(o, i, qty) /\ ~ReceiptAborts(o, i, qty)
  <2>1. /\ Await(c, "readBack") /\ req[c].op = "receive"
        /\ orders' = [orders EXCEPT ![o] = order]
        /\ lines' = [lines EXCEPT ![o] = rows]
        /\ receipts' = [receipts EXCEPT ![o] = booked]
        /\ items' = [items EXCEPT ![i] = [items[i] EXCEPT !.stock = items[i].stock + qty]]
        /\ ledger' = [ledger EXCEPT ![i] = ledger[i] + qty]
        /\ UNCHANGED categories
    BY <1>1, <1>3 DEF CommitReceive, InFlight
  <2>2. qty \in Nat /\ qty > 0
    BY <2>1, EveryRequestIsSound DEF Request, RequestSound, WellFormed
  <2>3. /\ LineActive(o, i) /\ ItemActive(i)
        /\ orders[o].status \in {"ordered", "partially_received"} /\ ~orders[o].deleted
        /\ lines[o][i].received + qty <= lines[o][i].ordered
    BY <1>3 DEF ReceiptGuard, Receivable, OrderActive
  <2>4. /\ orders[o] \in Order /\ lines[o] \in [Items -> Line] /\ receipts[o] \in [Items -> Nat]
        /\ \A j \in Items : RowSound(o, j) /\ lines[o][j] \in Line
    BY EveryOrderIsSound
  <2>5. /\ rows \in [Items -> Line]
        /\ rows[i].life = "active" /\ rows[i].ordered = lines[o][i].ordered
        /\ rows[i].received = lines[o][i].received + qty
        /\ \A j \in Items \ {i} : rows[j] = lines[o][j]
    <3> DEFINE new == [lines[o][i] EXCEPT !.received = lines[o][i].received + qty]
    <3>1. /\ new \in Line /\ new.life = "active" /\ new.ordered = lines[o][i].ordered
          /\ new.received = lines[o][i].received + qty
      BY <2>2, <2>3, <2>4 DEF Line, LineActive
    <3>2. rows = [lines[o] EXCEPT ![i] = new]
      BY DEF ReceivedRows
    <3> HIDE DEF new, rows
    <3> QED
      BY <2>4, <3>1, <3>2
  <2>6. booked \in [Items -> Nat] /\ booked[i] = receipts[o][i] + qty
        /\ \A j \in Items \ {i} : booked[j] = receipts[o][j]
    BY <2>2, <2>4
  <2>7. /\ DerivedStatus(rows) \in {"partially_received", "fully_received"}
        /\ DerivedStatus(rows) = "fully_received" <=>
             \A j \in Items : rows[j].life = "active" => rows[j].received >= rows[j].ordered
    BY <2>2, <2>4, <2>5 DEF DerivedStatus, Line
  <2>8. \/ orders[o].status = DerivedStatus(rows)
        \/ <<orders[o].status, DerivedStatus(rows)>> \in LegalStatusEdges
    BY <1>3 DEF ReceiptAborts, UpdateStatusAborts
  <2>9. /\ order \in Order /\ order.status = DerivedStatus(rows)
        /\ order.deleted = orders[o].deleted
    BY <2>4, <2>7 DEF Order, Statuses
  <2> HIDE DEF rows, order, booked
  <2>10. orders'[o] = order /\ lines'[o] = rows /\ receipts'[o] = booked
    BY <2>1 DEF IndInv, TypeOK, TablesTypeOK
  <2>11. ASSUME NEW j \in Items PROVE RowSound(o, j)' /\ ItemActive(j)' = ItemActive(j)
    <3>1. ItemActive(j)' = ItemActive(j)
      BY <2>1 DEF IndInv, TypeOK, TablesTypeOK, Item, ItemActive
    <3>2. CASE j = i
      BY <2>2, <2>3, <2>4, <2>5, <2>6, <2>7, <2>9, <2>10, <3>1, <3>2
         DEF RowSound, LineActive, OrderActive, Line
    <3>3. CASE j # i
      BY <2>3, <2>4, <2>5, <2>6, <2>7, <2>9, <2>10, <3>1, <3>3
         DEF RowSound, LineActive, OrderActive
    <3> QED
      BY <3>1, <3>2, <3>3
  <2>12. StatusSound(o)'
    <3>1. HasLines(o)' /\ HasReceipts(o)'
      BY <2>2, <2>4, <2>5, <2>10 DEF HasLines, HasReceipts, LineActive, Line
    <3>2. \A j \in Items : rows[j].received <= rows[j].ordered /\ rows[j] \in Line
      BY <2>5, <2>10, <2>11 DEF RowSound
    <3>3. Complete(o)' <=> DerivedStatus(rows) = "fully_received"
      BY <2>7, <2>10, <3>2 DEF Complete, LineActive, Line
    <3> QED
      BY <2>7, <2>9, <2>10, <3>1, <3>3 DEF StatusSound
  <2>13. Forward(o)
    <3>1. OnlyReceives(o)
      BY <2>2, <2>3, <2>4, <2>5, <2>10 DEF OnlyReceives, LineActive, Line
    <3> QED
      BY <2>8, <2>9, <2>10, <3>1 DEF Forward, OnlyReceives
  <2>14. items' \in [Items -> Item] /\ ledger' \in [Items -> Int]
         /\ \A j \in Items : /\ items'[j].life = items[j].life
                             /\ items'[j].category = items[j].category
                             /\ items'[j].stock = ledger'[j]
    <3> DEFINE new == [items[i] EXCEPT !.stock = items[i].stock + qty]
    <3>1. items[i] \in Item /\ items[i].stock = ledger[i]
      BY DEF IndInv, TypeOK, TablesTypeOK, TablesSound, LedgerExplainsStock
    <3>2. /\ new \in Item /\ new.stock = ledger[i] + qty
          /\ new.life = items[i].life /\ new.category = items[i].category
      BY <2>2, <3>1 DEF Item
    <3>3. items' = [items EXCEPT ![i] = new] /\ ledger' = [ledger EXCEPT ![i] = ledger[i] + qty]
      BY <2>1
    <3> HIDE DEF new
    <3> QED
      BY <2>2, <3>2, <3>3 DEF IndInv, TypeOK, TablesTypeOK, TablesSound, LedgerExplainsStock
  <2>15. r \in Request /\ RequestSound(r) /\ Suspend(c, r)
    BY <2>1, ReadBackIsSound
  <2> HIDE DEF r
  <2> QED
    BY <2>1, <2>5, <2>6, <2>9, <2>11, <2>12, <2>13, <2>14, <2>15, OneOrderStep
<1> QED
  BY <1>2, <1>3

-----------------------------------------------------------------------------
(* The invariant holds of the seeded database and is kept by every step.   *)

(* The seeded database satisfies the invariant.                            *)
LEMMA InitSound == TablesInit => IndInv
<1> SUFFICES ASSUME TablesInit PROVE IndInv
  OBVIOUS
<1>1. /\ \A o \in Orders : orders[o] = NoOrderYet
      /\ \A o \in Orders, i \in Items : lines[o][i] = NoLine /\ receipts[o][i] = 0
      /\ \A i \in Items : ledger[i] = 0 /\ items[i].stock = 0
      /\ \A c \in Clients : req[c] = Idle
  BY DEF TablesInit, NoItemYet
<1>2. TypeOK
  <2>1. NoOrderYet \in Order /\ NoLine \in Line /\ NoItemYet \in Item
    BY DEF NoOrderYet, Order, NoLine, Line, Life, NoItemYet, Item
  <2>2. items \in [Items -> Item]
    BY <2>1, SeedAssumption DEF TablesInit, Item, Life
  <2> QED
    BY <2>1, <2>2, IdleIsRequest DEF TablesInit, TypeOK, TablesTypeOK, Life
<1>3. RequestsWellFormed /\ HeadersHold /\ DetailIsCoherent
  BY <1>1 DEF RequestsWellFormed, WellFormed, HeadersHold, DetailIsCoherent, AwaitsLines, Idle
<1>4. ActiveItemsHaveActiveCategories
  <2>1. ASSUME NEW i \in Items, ItemActive(i), items[i].category # None
        PROVE  CategoryActive(items[i].category)
    <3>1. PICK shelf \in [SeedItems -> SeedCategories \cup {None}] :
            items = [j \in Items |-> IF j \in SeedItems
                                     THEN [life |-> "active", category |-> shelf[j], stock |-> 0]
                                     ELSE NoItemYet]
      BY DEF TablesInit
    <3>2. i \in SeedItems /\ items[i].category = shelf[i]
      BY <2>1, <3>1 DEF ItemActive, NoItemYet
    <3> QED
      BY <2>1, <3>2, SeedAssumption DEF TablesInit, CategoryActive
  <2> QED
    BY <2>1 DEF ActiveItemsHaveActiveCategories
<1>5. TablesSound
  BY <1>1, <1>4
     DEF TablesSound, StatusMatchesRows, ReceiptsAreWithinOrders, RowsFollowTheirOrder,
         OpenRowsHaveActiveItems, LedgerExplainsStock, Placed, NoOrderYet, NoLine, LineActive
<1> QED
  BY <1>2, <1>3, <1>5 DEF IndInv

(* Every purchase-order request a client sends keeps the invariant.        *)
LEMMA SendOrderRequestStep ==
  ASSUME IndInv, NEW c \in Clients, SendOrderRequest(c)
  PROVE  IndInv'
BY CreateDraftStep, BeginCreateWithItemsStep, StageAddItemsStep, StageEditItemStep,
   StageReceiveStep, StageReviseStep, StageDeleteDraftStep, StageGetDetailStep
   DEF SendOrderRequest

(* Every catalogue or stock request a client sends keeps the invariant.    *)
LEMMA SendInventoryRequestStep ==
  ASSUME IndInv, NEW c \in Clients, SendInventoryRequest(c)
  PROVE  IndInv'
BY CreateCategoryStep, StageDeleteCategoryStep, StageCreateItemStep, StageMoveItemStep,
   StageDeleteItemStep, StageAdjustStockStep
   DEF SendInventoryRequest

(* Every step of a handler keeps the invariant.                            *)
LEMMA HandlerStepSound ==
  ASSUME IndInv, NEW c \in Clients, HandlerStep(c)
  PROVE  IndInv'
<1>1. CASE OrderHandlerStep(c)
  BY <1>1, ReadBackStep, CheckItemStep, ScanLineStep, CommitCreateWithItemsStep,
     CommitAddItemsStep, CommitEditItemStep, CommitReceiveStep, CommitReviseStep,
     CommitDeleteDraftStep, OrderReadsStep
     DEF OrderHandlerStep
<1>2. CASE InventoryHandlerStep(c)
  BY <1>2, InventoryReadsStep, CommitDeleteCategoryStep, CommitCreateItemStep,
     CommitMoveItemStep, CommitDeleteItemStep, CommitAdjustStockStep
     DEF InventoryHandlerStep
<1> QED
  BY <1>1, <1>2 DEF HandlerStep

(* Every step of the system keeps the invariant.                           *)
LEMMA NextSound == IndInv /\ [Next]_vars => IndInv'
<1> SUFFICES ASSUME IndInv, [Next]_vars PROVE IndInv'
  OBVIOUS
<1>1. CASE Next
  BY <1>1, SendOrderRequestStep, SendInventoryRequestStep, HandlerStepSound, AbandonStep DEF Next
<1>2. CASE UNCHANGED vars
  BY <1>2
     DEF vars, tables, IndInv, TypeOK, TablesTypeOK, RequestsWellFormed, WellFormed, TablesSound,
         StatusMatchesRows, ReceiptsAreWithinOrders, RowsFollowTheirOrder, OpenRowsHaveActiveItems,
         ActiveItemsHaveActiveCategories, LedgerExplainsStock, HeadersHold, HeaderStillTrue,
         DetailIsCoherent, LinesFitHeader, HasLines, HasReceipts, Complete, LineActive,
         OrderActive, ItemActive, CategoryActive
<1> QED
  BY <1>1, <1>2

(* The inductive invariant holds in every reachable state, whatever requests *)
(* overlap and whichever of them are lost.                                 *)
THEOREM Invariance == Spec => []IndInv
<1> QED
  BY InitSound, NextSound, PTL DEF Spec

(* Every table and every request keeps its type: no stock, ordered or      *)
(* received quantity goes below zero.                                      *)
THEOREM TypeSafety == Spec => []TypeOK
<1>1. IndInv => TypeOK
  BY DEF IndInv
<1> QED
  BY <1>1, Invariance, PTL

(* The stored status of every confirmed order is the one its rows imply.   *)
THEOREM StatusSafety == Spec => []StatusMatchesRows
<1>1. IndInv => StatusMatchesRows
  BY DEF IndInv, TablesSound
<1> QED
  BY <1>1, Invariance, PTL

(* Nothing is received beyond the order, too early or too late.            *)
THEOREM ReceiptSafety == Spec => []ReceiptsAreWithinOrders
<1>1. IndInv => ReceiptsAreWithinOrders
  BY DEF IndInv, TablesSound
<1> QED
  BY <1>1, Invariance, PTL

(* Rows live and die with their order.                                     *)
THEOREM RowSafety == Spec => []RowsFollowTheirOrder
<1>1. IndInv => RowsFollowTheirOrder
  BY DEF IndInv, TablesSound
<1> QED
  BY <1>1, Invariance, PTL

(* Deleting an item and ordering it exclude each other.                    *)
THEOREM ItemSafety == Spec => []OpenRowsHaveActiveItems
<1>1. IndInv => OpenRowsHaveActiveItems
  BY DEF IndInv, TablesSound
<1> QED
  BY <1>1, Invariance, PTL

(* Deleting a category and filling it exclude each other.                  *)
THEOREM CategorySafety == Spec => []ActiveItemsHaveActiveCategories
<1>1. IndInv => ActiveItemsHaveActiveCategories
  BY DEF IndInv, TablesSound
<1> QED
  BY <1>1, Invariance, PTL

(* The stock of every item is explained by its ledger, and the receipts of *)
(* every row by theirs.                                                    *)
THEOREM LedgerSafety == Spec => []LedgerExplainsStock
<1>1. IndInv => LedgerExplainsStock
  BY DEF IndInv, TablesSound
<1> QED
  BY <1>1, Invariance, PTL

(* The header and the rows that a getDetail returns fit each other.        *)
THEOREM DetailSafety == Spec => []DetailIsCoherent
<1>1. IndInv => DetailIsCoherent
  BY DEF IndInv
<1> QED
  BY <1>1, Invariance, PTL
=============================================================================
