------------------------------- MODULE WebClient -------------------------------
(***************************************************************************)
(* What the pages of the web front end share: calls of the API            *)
(* (lib/api.ts), the server they reach, and the handlers that wait for an  *)
(* answer.  A handler runs between two awaits in one step; handlers of one *)
(* page interleave, and go on after the page has been left.                *)
(***************************************************************************)
EXTENDS Naturals, Sequences

CONSTANTS
  Tasks,       \* handlers that a page starts at most
  Items,       \* items of the catalogue
  MaxOrders,   \* orders the server holds at most
  MaxStock,    \* stock of an item, and quantity ordered, at most
  Titles,      \* titles of the order that the user may type
  MaxOthers,   \* changes by other clients at most
  Null

Blank == 0   \* a title of white space

(* How a call has gone so far, and where a page may lead.                  *)
Answers == {"awaited", "ok", "failed", "unauthorized"}
Destinations ==
  {"saved", "away", "order", "draft", "prefilled", "confirmed", "prefill", "login", "dashboard"}

ASSUME WebAssumption ==
  /\ Null \notin Nat \cup Items \cup Answers \cup Destinations /\ Tasks \subseteq Nat
  /\ {MaxOrders, MaxStock, MaxOthers} \cup Titles \subseteq Nat /\ Blank \notin Titles

VARIABLES
  server,   \* the orders, the titles they have had, the stock, the changes by others
  tasks,    \* the handlers that wait for an answer
  ui        \* the state of the page that is mounted

webVars == <<server, tasks, ui>>

(* origin is history: who created the order.                               *)
NewOrder(title, lines, origin) ==
  [status |-> "draft", title |-> title, ordered |-> lines, received |-> 0, origin |-> origin]

Live(id) == server.orders[id].status # "deleted"
Remaining(o) == o.ordered - o.received
-----------------------------------------------------------------------------
(* The handlers' requests, as the server treats them.                      *)
Request(op, id, arg) == [op |-> op, id |-> id, arg |-> arg]

Accepts(r) ==
  CASE r.op \in {"detail", "title"} -> Live(r.id)
    [] r.op = "create" -> Len(server.orders) < MaxOrders
    [] r.op = "ordered" ->
         server.orders[r.id].ordered > 0 /\ server.orders[r.id].status \in {"draft", "ordered"}
    [] r.op = "add" ->
         server.orders[r.id].status = "draft" /\ server.orders[r.id].ordered < MaxStock
    [] r.op = "edit" -> server.orders[r.id].status = "draft"
    [] r.op = "delete" -> server.orders[r.id].status = "draft"
    [] r.op = "receive" -> /\ server.orders[r.id].status \in {"ordered", "partially_received"}
                           /\ Remaining(server.orders[r.id]) > 0
    [] r.op = "adjust" -> server.stock[r.id] < MaxStock
    [] r.op \in {"list", "ledger", "submit"} -> TRUE

Revised(o, r) ==
  CASE r.op = "title" -> [o EXCEPT !.title = r.arg]
    [] r.op = "ordered" -> [o EXCEPT !.status = "ordered"]
    [] r.op = "add" -> [o EXCEPT !.ordered = @ + 1]
    [] r.op = "edit" -> [o EXCEPT !.ordered = r.arg]
    [] r.op = "delete" -> [o EXCEPT !.status = "deleted"]
    [] r.op = "receive" ->
         [o EXCEPT !.received = @ + 1,
                   !.status = IF Remaining(o) = 1 THEN "fully_received" ELSE "partially_received"]

After(r) ==
  CASE r.op = "create" -> [server EXCEPT !.orders = Append(@, r.arg)]
    [] r.op = "title" -> [server EXCEPT !.orders[r.id] = Revised(@, r),
                                        !.titles = @ \cup {<<r.id, r.arg>>}]
    [] r.op = "adjust" -> [server EXCEPT !.stock[r.id] = @ + 1]
    [] r.op \in {"detail", "list", "ledger", "submit"} -> server
    [] OTHER -> [server EXCEPT !.orders[r.id] = Revised(@, r)]
(* The data of the answer: the detail of an order, the list of them, or    *)
(* the order that was created.                                             *)
Data(r, s) ==
  CASE r.op = "detail" -> s.orders[r.id]
    [] r.op = "list" -> [id \in DOMAIN s.orders |->
                           [status |-> s.orders[id].status, ordered |-> s.orders[id].ordered]]
    [] r.op = "create" -> Len(s.orders)
    [] OTHER -> Null
-----------------------------------------------------------------------------
(* A handler: what it is, the await it is at, the request it sent, the     *)
(* answer, and the title typed when it began.                              *)
NoTask == [kind |-> "none", at |-> "none", request |-> Null, answer |-> Null,
           data |-> Null, text |-> Null]

Free(t) == tasks[t].kind = "none"
At(t, kinds, at) == tasks[t].kind \in kinds /\ tasks[t].at = at /\ tasks[t].answer # "awaited"
Ok(t) == tasks[t].answer = "ok"

Waiting(kind, at, r, text) ==
  [kind |-> kind, at |-> at, request |-> r, answer |-> "awaited", data |-> Null, text |-> text]

Begin(kind, at, r, text) ==
  \E t \in Tasks : /\ Free(t) /\ \A s \in Tasks : Free(s) => t <= s
                  /\ tasks' = [tasks EXCEPT ![t] = Waiting(kind, at, r, text)]

Send(t, at, r) == tasks' = [tasks EXCEPT ![t] = Waiting(tasks[t].kind, at, r, tasks[t].text)]
End(t) == tasks' = [tasks EXCEPT ![t] = [NoTask EXCEPT !.kind = "ended"]]

(* apiRequest and apiRequestDecoded: the data of a good envelope, or an    *)
(* ApiError, of which only the loaders look at the status.  A request may  *)
(* be applied and its answer be lost or unreadable.                        *)
Serve(t) ==
  /\ tasks[t].answer = "awaited"
  /\ \/ /\ Accepts(tasks[t].request)
        /\ server' = After(tasks[t].request)
        /\ \/ tasks' = [tasks EXCEPT ![t].answer = "ok", ![t].data = Data(tasks[t].request, server')]
           \/ tasks' = [tasks EXCEPT ![t].answer = "failed"]
     \/ /\ \E answer \in {"failed", "unauthorized"} :
             /\ answer = "unauthorized" => tasks[t].request.op \in {"detail", "list"}
             /\ tasks' = [tasks EXCEPT ![t].answer = answer]
        /\ UNCHANGED server
  /\ UNCHANGED ui

(* Another client of the server.                                           *)
Others ==
  /\ server.others < MaxOthers
  /\ \E id \in 1 .. Len(server.orders) :
       \E op \in {"ordered", "receive", "delete"} :
         /\ Accepts(Request(op, id, Null))
         /\ server' = [After(Request(op, id, Null)) EXCEPT !.others = @ + 1]
  /\ UNCHANGED <<tasks, ui>>
-----------------------------------------------------------------------------
(* Every page has its loading flag until the user has gone; then only     *)
(* where to, and what was shown or saved, remain.                          *)
On(page) == ui.page = page /\ ui.to = Null
Left == ui.to # Null

Loading == [ui EXCEPT !.loading = TRUE]

(* The state of a page that is gone changes no more, but a handler that    *)
(* goes on may lead elsewhere.                                             *)
Show(new) == ui' = IF Left THEN ui ELSE new
Gone(path, result) == [page |-> ui.page, to |-> path, result |-> result]
Push(path) == ui' = Gone(path, Null)

(* What every loader makes of its answer: fresh is the page with the data  *)
(* of a good answer, u the page otherwise; the message is left out.        *)
LoadedStill(t, u, fresh) ==   \* mutant: the flag is not reset when the call fails
  CASE Ok(t) -> [fresh EXCEPT !.loading = FALSE]
    [] tasks[t].answer = "failed" -> u
    [] tasks[t].answer = "unauthorized" -> Gone("login", Null)

Loaded(t, u, fresh) ==
  CASE Ok(t) -> [fresh EXCEPT !.loading = FALSE]
    [] tasks[t].answer = "failed" -> [u EXCEPT !.loading = FALSE]
    [] tasks[t].answer = "unauthorized" -> Gone("login", Null)
=============================================================================
