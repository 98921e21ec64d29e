------------------------------- MODULE Tables -------------------------------
(***************************************************************************)
(* The D1 (SQLite) tables the API Worker keeps orders and stock in, with   *)
(* the integrity rules of migrations/ that a write can run into, and the   *)
(* record of the HTTP request each client has in flight.                   *)
(*                                                                         *)
(* A D1 batch is one transaction: every action of the modules above this   *)
(* one is either one read or one whole batch.                              *)
(***************************************************************************)
EXTENDS Integers, FiniteSets, FiniteSetsExt

CONSTANTS
  Clients,      \* concurrent HTTP requests
  Orders,       \* purchase_orders ids
  Items,        \* items ids
  Categories,   \* item_categories ids
  None,         \* SQL NULL, and an unused field of a request
  Quantities,   \* the quantities requests ask for
  MaxOrdered,   \* bound: no add request is sent that would pass it
  MaxStock,     \* bound: no stock IN request is sent that would pass it
  SeedItems,      \* the items and categories the Notion seed has put in
  SeedCategories, \* the database before the first request
  Workload      \* the operations the clients of a model send

ASSUME QuantitiesAssumption == Quantities \subseteq Nat \ {0}
ASSUME BoundsAssumption == MaxOrdered \in Nat /\ MaxStock \in Nat
ASSUME SeedAssumption == SeedItems \subseteq Items /\ SeedCategories \subseteq Categories
ASSUME NoneAssumption == None \notin Orders \cup Items \cup Categories

VARIABLES
  orders,       \* purchase_orders: status and soft-delete flag
  lines,        \* order_items: the one row an (order, item) pair can have
  items,        \* items: life, category, current_stock
  categories,   \* item_categories: life
  ledger,       \* stock_transactions: sum of quantity per item
  receipts,     \* stock_transactions: sum of quantity per order_items row
  req           \* the request each client has in flight, or its last reply

orderTables == <<orders, lines>>
stockTables == <<items, categories, ledger>>
tables == <<orders, lines, items, categories, ledger, receipts>>
vars == <<tables, req>>

-----------------------------------------------------------------------------
Statuses == {"draft", "ordered", "partially_received", "fully_received", "canceled"}
Life == {"absent", "active", "deleted"}

Order == [status : Statuses \cup {"absent"}, deleted : BOOLEAN]
Line == [life : Life, ordered : Nat, received : Nat]
Item == [life : Life, category : Categories \cup {None}, stock : Nat]

NoOrderYet == [status |-> "absent", deleted |-> FALSE]
NoLine == [life |-> "absent", ordered |-> 0, received |-> 0]
NoItemYet == [life |-> "absent", category |-> None, stock |-> 0]

(* A row that a query with is_deleted = 0 returns. *)
OrderActive(o) == orders[o].status # "absent" /\ ~orders[o].deleted
LineActive(o, i) == lines[o][i].life = "active"
ItemActive(i) == items[i].life = "active"
CategoryActive(k) == categories[k] = "active"

ActiveDraft(o) == OrderActive(o) /\ orders[o].status = "draft"
Receivable(o) == OrderActive(o) /\ orders[o].status \in {"ordered", "partially_received"}
HasLines(o) == \E i \in Items : LineActive(o, i)
HasReceipts(o) == \E i \in Items : LineActive(o, i) /\ lines[o][i].received > 0

(***************************************************************************)
(* The triggers and the unique index of migration 002, as the condition on *)
(* which they abort the batch that runs into them.                         *)
(***************************************************************************)
InsertLineAborts(i, row, parentActive, duplicate) ==
  \/ row.ordered <= 0
  \/ ~ItemActive(i)
  \/ ~parentActive
  \/ duplicate

UpdateLineAborts(i, row, parentActive) ==
  \/ row.ordered <= 0
  \/ row.received > row.ordered
  \/ row.life = "active" /\ ~(ItemActive(i) /\ parentActive)

(* Mutant: items without their validation trigger. *)
WriteItemAbortsNever(category, stock) == FALSE

WriteItemAborts(category, stock) ==
  \/ stock < 0
  \/ category # None /\ ~CategoryActive(category)

LegalStatusEdges ==
  {<<"draft", "ordered">>, <<"draft", "canceled">>,
   <<"ordered", "partially_received">>, <<"ordered", "fully_received">>,
   <<"ordered", "canceled">>, <<"partially_received", "fully_received">>}

UpdateStatusAborts(old, new) == old # new /\ <<old, new>> \notin LegalStatusEdges

-----------------------------------------------------------------------------
(***************************************************************************)
(* Requests.  "at" is the await the handler is suspended in, the other     *)
(* fields are its arguments and what it has read so far.                   *)
(***************************************************************************)
Operations ==
  {"createDraft", "createWithItems", "addItems", "editItem", "receive", "revise",
   "deleteDraft", "getDetail", "createCategory", "deleteCategory", "createItem",
   "moveItem", "deleteItem", "adjustStock"}

Awaits == {"checkItem", "scanLine", "readLine", "readLines", "sumReceipts",
           "countLines", "readItem", "countUses", "commit", "readBack"}

Replies == {"none", "ok", "invalid", "not_found", "conflict", "error", "lost"}

Request ==
  [op : Operations \cup {"none"}, at : Awaits \cup {"idle"},
   order : Orders \cup {None}, item : Items \cup {None}, category : Categories \cup {None},
   qty : Nat, want : [Items -> Nat],
   todo : SUBSET Items, existing : SUBSET Items,
   ask : Statuses \cup {"metadata", "IN", "OUT", "ADJUST", "none"},
   was : Statuses \cup {"none"},
   reply : Replies]

Idle ==
  [op |-> "none", at |-> "idle", order |-> None, item |-> None, category |-> None,
   qty |-> 0, want |-> [i \in Items |-> 0], todo |-> {}, existing |-> {},
   ask |-> "none", was |-> "none", reply |-> "none"]

(* A client with no request in flight may send one the workload allows. *)
MaySend(c, op) == req[c].at = "idle" /\ op \in Workload

InFlight(c, op, at) == req[c].at = at /\ req[c].op = op

(* The handler keeps r and suspends in the next await, or answers. *)
Suspend(c, r) == req' = [req EXCEPT ![c] = r]
Answer(c, reply) == Suspend(c, [Idle EXCEPT !.reply = reply])
Await(c, at) == Suspend(c, [req[c] EXCEPT !.at = at])

(* The items a request asks for: those its merged list gives a quantity.  *)
Wanted(r) == {i \in Items : r.want[i] > 0}

(***************************************************************************)
(* The seeded database: the Notion import writes every item with           *)
(* current_stock 0 and no ledger row, in a seeded category or in none.     *)
(***************************************************************************)
TablesInit ==
  /\ orders = [o \in Orders |-> NoOrderYet]
  /\ lines = [o \in Orders |-> [i \in Items |-> NoLine]]
  /\ categories = [k \in Categories |-> IF k \in SeedCategories THEN "active" ELSE "absent"]
  /\ \E shelf \in [SeedItems -> SeedCategories \cup {None}] :
       items = [i \in Items |-> IF i \in SeedItems
                               THEN [life |-> "active", category |-> shelf[i], stock |-> 0]
                               ELSE NoItemYet]
  /\ ledger = [i \in Items |-> 0]
  /\ receipts = [o \in Orders |-> [i \in Items |-> 0]]
  /\ req = [c \in Clients |-> Idle]

TablesTypeOK ==
  /\ orders \in [Orders -> Order]
  /\ lines \in [Orders -> [Items -> Line]]
  /\ items \in [Items -> Item]
  /\ categories \in [Categories -> Life]
  /\ ledger \in [Items -> Int]
  /\ receipts \in [Orders -> [Items -> Nat]]
  /\ req \in [Clients -> Request]
=============================================================================
