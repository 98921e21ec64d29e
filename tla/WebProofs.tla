------------------------------- MODULE WebProofs -------------------------------
(***************************************************************************)
(* Proofs about the web front end, for any number of handlers, orders and  *)
(* changes by other clients: what a page says is saved, opened or under    *)
(* way is so, wherever its handlers wait and whenever the user leaves.     *)
(***************************************************************************)
EXTENDS WebFrontend, TLAPS

-----------------------------------------------------------------------------
(* The server s.                                                           *)
Statuses == {"draft", "ordered", "partially_received", "fully_received", "deleted"}

Order ==
  [status : Statuses, title : Nat, ordered : Nat, received : Nat, origin : {"user", "alert"}]

Stored(s, id) == id \in DOMAIN s.orders
Filled(s, id) == Stored(s, id) /\ s.orders[id].ordered > 0
Placed(s, id) == Stored(s, id) /\ s.orders[id].status # "draft"

Alerts(s) == {id \in DOMAIN s.orders : s.orders[id].origin = "alert"}

(* The first order is there, and each title it has had was stored.         *)
ServerSound(s) ==
  /\ s = [orders |-> s.orders, titles |-> s.titles, stock |-> s.stock, others |-> s.others]
  /\ s.orders \in Seq(Order)
  /\ Stored(s, 1)
  /\ <<1, s.orders[1].title>> \in s.titles

(* What a call never takes back.                                           *)
Grows(s, n) ==
  /\ s.titles \subseteq n.titles
  /\ \A id : Stored(s, id) => Stored(n, id)
  /\ \A id : Filled(s, id) => Filled(n, id)
  /\ \A id : Placed(s, id) => Placed(n, id)

(* A request changes the title of the order it names and of no other.      *)
TitlesKept(s, n, r) ==
  \A id : Stored(s, id) =>
    n.orders[id].title = IF r.op = "title" /\ id = r.id THEN r.arg ELSE s.orders[id].title

RequestSound(r) ==
  /\ r.op \in {"detail", "title", "create", "ordered", "add", "edit", "delete", "receive",
               "adjust", "list", "ledger", "submit"}
  /\ r.op = "title" => r.arg \in Nat
  /\ r.op = "edit" => r.arg = 1
  /\ r.op = "create" => r.arg \in Order

-----------------------------------------------------------------------------
(* The handlers of each page: a handler n is at a place of its page, has   *)
(* sent what its place says, and what it has been told is so in s.         *)
Idle(n) == n \in {NoTask, [NoTask EXCEPT !.kind = "ended"]}

Task(n, places) ==
  /\ n = [kind |-> n.kind, at |-> n.at, request |-> n.request, answer |-> n.answer,
          data |-> n.data, text |-> n.text]
  /\ <<n.kind, n.at>> \in places
  /\ n.answer \in Answers

Saving == {"metadata", "leave", "confirm"}

OrderPlaces ==
  {<<"load", "refresh">>, <<"confirm", "status">>, <<"confirm", "refresh">>}
  \cup (Saving \X {"save", "reload"})
  \cup ({"add", "edit", "receive"} \X {"send", "refresh"})

ListPlaces ==
  {<<"load", "refresh">>, <<"confirm", "status">>, <<"confirm", "refresh">>,
   <<"delete", "send">>, <<"delete", "refresh">>, <<"draft", "create">>}
  \cup ({"prefill"} \X {"create", "add", "reload"})

ItemsPlaces ==
  {<<"load", "refresh">>, <<"ledger", "read">>}
  \cup ({"form", "remove", "adjust"} \X {"send", "refresh"})

DashboardPlaces == {<<"load", "refresh">>, <<"quick", "create">>, <<"quick", "confirm">>}

AccountPlaces ==
  {<<"load", "refresh">>, <<"addUser", "refresh">>}
  \cup ({"login", "addUser", "reset", "logout"} \X {"send"})

(* A handler that saves a title has the title stored past its save.        *)
TitleStored(n) ==
  \/ n.at = "save" /\ n.answer = "ok"
  \/ n.kind \in Saving /\ n.at # "save"

OrderTask(n, s) ==
  /\ Task(n, OrderPlaces)
  /\ n.at \in {"refresh", "reload"} => n.request = DetailRequest
  /\ n.at = "save" => n.text \in Nat /\ n.request = Request("title", 1, n.text)
  /\ n.at = "status" => n.request = Request("ordered", 1, Null)
  /\ n.at = "send" => n.request = Request(n.kind, 1, 1)
  /\ n.request = DetailRequest /\ n.answer = "ok" =>
       n.data \in Order /\ <<1, n.data.title>> \in s.titles
  /\ TitleStored(n) => <<1, n.text>> \in s.titles

(* The handler that drafts an order for an alert knows the order once it   *)
(* is there, and that the item is in it once the item has been added.      *)
ListTask(n, s) ==
  /\ Task(n, ListPlaces)
  /\ n.at = "create" =>
       n.request = Request("create", 0, NewOrder(1, 0, IF n.kind = "draft" THEN "user" ELSE "alert"))
  /\ n.at \in {"refresh", "reload"} => n.request.op = "list"
  /\ n.at = "status" => n.request.op = "ordered"
  /\ n.at = "send" => n.request.op = "delete"
  /\ n.at = "add" => n.request.op = "add" /\ Stored(s, n.request.id)
  /\ n.at = "create" /\ n.answer = "ok" => Stored(s, n.data)
  /\ n.at = "add" /\ n.answer = "ok" => Filled(s, n.request.id)
  /\ n.at = "reload" => Filled(s, n.request.id)

ItemsTask(n) ==
  /\ Task(n, ItemsPlaces)
  /\ n.request.op \in {"list", "ledger", "submit", "adjust"}

(* The order to confirm is there, and has left the drafts once that was    *)
(* answered.                                                               *)
DashboardTask(n, s) ==
  /\ Task(n, DashboardPlaces)
  /\ n.at = "refresh" => n.request.op = "list"
  /\ n.kind = "quick" => n.text \in BOOLEAN
  /\ n.at = "create" => n.request = Request("create", 0, NewOrder(1, 1, "user"))
  /\ n.at = "create" /\ n.answer = "ok" => Stored(s, n.data)
  /\ n.at = "confirm" => n.request.op = "ordered" /\ Stored(s, n.request.id)
  /\ n.at = "confirm" /\ n.answer = "ok" => Placed(s, n.request.id)

AccountTask(n) ==
  /\ Task(n, AccountPlaces)
  /\ n.request.op \in {"list", "submit"}

AccountPageNames == {"login", "settings", "alerts", "shell"}

TaskSound(page, n, s) ==
  \/ Idle(n)
  \/ page = "order" /\ OrderTask(n, s)
  \/ page = "orders" /\ ListTask(n, s)
  \/ page = "items" /\ ItemsTask(n)
  \/ page = "dashboard" /\ DashboardTask(n, s)
  \/ page \in AccountPageNames /\ AccountTask(n)

-----------------------------------------------------------------------------
(* The state u of the page that is mounted, or where it led to.            *)
OrderUi(u, s) ==
  /\ u.page = "order"
  /\ u.to \in {Null, "saved", "away", "login"}
  /\ u.to = "saved" => <<1, u.result>> \in s.titles
  /\ u.to = Null =>
       /\ u = [page |-> "order", to |-> Null, loading |-> u.loading, order |-> u.order,
               title |-> u.title, editing |-> u.editing, saving |-> u.saving,
               dialog |-> u.dialog]
       /\ u.title \in Nat
       /\ u.order # Null => u.order \in Order /\ <<1, u.order.title>> \in s.titles

ListUi(u, s) ==
  /\ u.page = "orders"
  /\ u.to \in {Null, "prefilled", "draft", "order", "login"}
  /\ u.to = "prefilled" => Filled(s, u.result)
  /\ u.to = Null =>
       /\ u = [page |-> "orders", to |-> Null, loading |-> u.loading, orders |-> u.orders,
               wanted |-> u.wanted, creating |-> u.creating, dialog |-> u.dialog,
               target |-> u.target]
       /\ u.wanted \in BOOLEAN

ItemsUi(u) ==
  /\ u.page = "items"
  /\ u.to \in {Null, "login"}
  /\ u.to = Null =>
       u = [page |-> "items", to |-> Null, loading |-> u.loading, error |-> u.error,
            dialog |-> u.dialog, item |-> u.item, submitting |-> u.submitting,
            adjusting |-> u.adjusting, reading |-> u.reading]

DashboardUi(u, s) ==
  /\ u.page = "dashboard"
  /\ u.to \in {Null, "confirmed", "draft", "login"}
  /\ u.to = "confirmed" => Placed(s, u.result)
  /\ u.to = Null =>
       u = [page |-> "dashboard", to |-> Null, loading |-> u.loading, data |-> u.data,
            dialog |-> u.dialog, selected |-> u.selected, submitting |-> u.submitting]

AccountUi(u) ==
  /\ u.page \in AccountPageNames
  /\ u.to \in {Null, "login", "dashboard", "prefill"}
  /\ u.to = Null =>
       u = [page |-> u.page, to |-> Null, loading |-> u.loading, dialog |-> u.dialog,
            submitting |-> u.submitting]

UiSound(u, s) ==
  OrderUi(u, s) \/ ListUi(u, s) \/ ItemsUi(u) \/ DashboardUi(u, s) \/ AccountUi(u)

-----------------------------------------------------------------------------
(* Forms that are submitted once at a time, and the flags that see to it.  *)
Singles == {"prefill", "draft", "form", "adjust", "quick", "login", "addUser", "reset"}
UnderWay(kind) == \E t \in Tasks : tasks[t].kind = kind

SubmittedOnce ==
  \A t, s \in Tasks : tasks[t].kind \in Singles /\ tasks[t].kind = tasks[s].kind => t = s

Flag(flag, kind) == flag \in BOOLEAN /\ (flag <=> UnderWay(kind))

AccountForms == {"login", "addUser", "reset"}

FlagsSound ==
  ~Left =>
    /\ ui.page = "orders" => Flag(ui.creating, "draft") /\ (ui.wanted => ~UnderWay("prefill"))
    /\ ui.page = "items" => Flag(ui.adjusting, "adjust") /\ Flag(ui.submitting, "form")
    /\ ui.page = "dashboard" => Flag(ui.submitting, "quick")
    /\ ui.page \in AccountPageNames =>
         \A kind \in AccountForms : kind \in ui.submitting <=> UnderWay(kind)

(* One order is drafted for an alert, after the address was read and the   *)
(* request sent.                                                           *)
AlertsSound ==
  /\ \A i, j \in Alerts(server) : i = j
  /\ ui.page # "orders" => Alerts(server) = {}
  /\ ui.page = "orders" /\ ~Left /\ ui.wanted => Alerts(server) = {}
  /\ \A t \in Tasks :
       tasks[t].kind = "prefill" /\ tasks[t].at = "create" /\ tasks[t].answer = "awaited" =>
         Alerts(server) = {}

WebInv ==
  /\ ServerSound(server)
  /\ UiSound(ui, server)
  /\ tasks = [t \in Tasks |-> tasks[t]]
  /\ \A t \in Tasks : TaskSound(ui.page, tasks[t], server)
  /\ SubmittedOnce
  /\ FlagsSound
  /\ AlertsSound

-----------------------------------------------------------------------------
(* The server.                                                             *)

LEMMA NullIsNoName == Null \notin Answers \cup Destinations
BY WebAssumption

(* An order that is revised keeps what a call never takes back.            *)
LEMMA RevisedOrder ==
  ASSUME NEW o \in Order, NEW r, RequestSound(r),
         r.op \in {"title", "ordered", "add", "edit", "delete", "receive"}
  PROVE  /\ Revised(o, r) \in Order
         /\ Revised(o, r).origin = o.origin
         /\ r.op = "title" => Revised(o, r).title = r.arg
         /\ r.op # "title" => Revised(o, r).title = o.title
         /\ o.ordered > 0 \/ r.op \in {"add", "edit"} => Revised(o, r).ordered > 0
         /\ o.status # "draft" \/ r.op = "ordered" => Revised(o, r).status # "draft"
<1>1. CASE r.op = "title"
  BY <1>1 DEF Revised, Order, Statuses, RequestSound
<1>2. CASE r.op = "ordered"
  BY <1>2 DEF Revised, Order, Statuses, RequestSound
<1>3. CASE r.op = "add"
  BY <1>3 DEF Revised, Order, Statuses, RequestSound
<1>4. CASE r.op = "edit"
  BY <1>4 DEF Revised, Order, Statuses, RequestSound
<1>5. CASE r.op = "delete"
  BY <1>5 DEF Revised, Order, Statuses, RequestSound
<1>6. CASE r.op = "receive"
  <2>1. PICK status \in {"fully_received", "partially_received"} :
          Revised(o, r) = [o EXCEPT !.received = @ + 1, !.status = status]
    BY <1>6 DEF Revised
  <2>2. o.received + 1 \in Nat /\ status \in Statuses \ {"draft"}
    BY DEF Order, Statuses
  <2> DEFINE n == [o EXCEPT !.received = @ + 1, !.status = status]
  <2>3. n \in Order /\ n.origin = o.origin /\ n.title = o.title /\ n.ordered = o.ordered
          /\ n.status = status
    BY <2>2 DEF Order
  <2> QED
    BY <1>6, <2>1, <2>2, <2>3
<1> QED
  BY <1>1, <1>2, <1>3, <1>4, <1>5, <1>6, Zenon

(* What a request makes of the server, and the data of its answer.         *)
LEMMA CreatedOrder ==
  ASSUME ServerSound(server), NEW r, RequestSound(r), r.op = "create"
  PROVE  LET s == After(r) IN
         /\ ServerSound(s) /\ Grows(server, s) /\ TitlesKept(server, s, r)
         /\ Stored(s, Len(s.orders))
         /\ r.arg.origin # "alert" => Alerts(s) = Alerts(server)
         /\ \A i, j \in Alerts(s) \ Alerts(server) : i = j
<1> DEFINE s == After(r)
<1>1. s = [orders |-> Append(server.orders, r.arg), titles |-> server.titles,
           stock |-> server.stock, others |-> server.others]
  BY DEF After, ServerSound
<1>2. /\ server.orders \in Seq(Order) /\ r.arg \in Order
      /\ s.orders = Append(server.orders, r.arg) /\ s.titles = server.titles
  BY <1>1 DEF ServerSound, RequestSound
<1> HIDE DEF s
<1>3. /\ s.orders \in Seq(Order) /\ Len(s.orders) = Len(server.orders) + 1
      /\ Len(server.orders) \in Nat
      /\ \A id \in 1 .. Len(server.orders) : s.orders[id] = server.orders[id]
      /\ s.orders[Len(s.orders)] = r.arg
      /\ DOMAIN s.orders = 1 .. Len(s.orders)
      /\ DOMAIN server.orders = 1 .. Len(server.orders)
  BY <1>2
<1>4. ServerSound(s)
  BY <1>1, <1>2, <1>3 DEF ServerSound, Stored
<1>5. Grows(server, s)
  BY <1>2, <1>3 DEF Grows, Stored, Filled, Placed
<1>6. Stored(s, Len(s.orders))
  BY <1>3 DEF Stored
<1>7. \A id : id \in Alerts(s) <=>
         id \in Alerts(server) \/ (id = Len(s.orders) /\ r.arg.origin = "alert")
  BY <1>3 DEF Alerts
<1>8. r.arg.origin # "alert" => Alerts(s) = Alerts(server)
  BY <1>7, Zenon
<1>9. \A i, j \in Alerts(s) \ Alerts(server) : i = j
  BY <1>7
<1>10. TitlesKept(server, s, r)
  BY <1>3 DEF TitlesKept, Stored
<1> QED
  BY <1>4, <1>5, <1>6, <1>8, <1>9, <1>10 DEF s

LEMMA RevisedServer ==
  ASSUME ServerSound(server), NEW r, RequestSound(r),
         r.op \in {"title", "ordered", "add", "edit", "delete", "receive"}
  PROVE  LET s == After(r) IN
         /\ ServerSound(s) /\ Grows(server, s) /\ TitlesKept(server, s, r)
         /\ Alerts(s) = Alerts(server)
         /\ r.op \in {"add", "edit"} /\ Stored(server, r.id) => Filled(s, r.id)
         /\ r.op = "ordered" /\ Stored(server, r.id) => Placed(s, r.id)
         /\ r.op = "title" => <<r.id, r.arg>> \in s.titles
<1> DEFINE s == After(r)
           orders == [server.orders EXCEPT ![r.id] = Revised(server.orders[r.id], r)]
           titles == IF r.op = "title" THEN server.titles \cup {<<r.id, r.arg>>} ELSE server.titles
<1>1. s = [orders |-> orders, titles |-> titles, stock |-> server.stock, others |-> server.others]
  <2>1. CASE r.op = "title"
    BY <2>1 DEF After, ServerSound
  <2>2. CASE r.op # "title"
    BY <2>2 DEF After, ServerSound
  <2> QED
    BY <2>1, <2>2
<1>2. s.orders = orders /\ s.titles = titles
  BY <1>1
<1>3. server.orders \in Seq(Order) /\ DOMAIN server.orders = 1 .. Len(server.orders)
  BY DEF ServerSound
<1>4. \A id \in DOMAIN server.orders :
        /\ s.orders[id] \in Order
        /\ s.orders[id].origin = server.orders[id].origin
        /\ r.op # "title" \/ id # r.id => s.orders[id].title = server.orders[id].title
        /\ r.op = "title" /\ id = r.id => s.orders[id].title = r.arg
        /\ server.orders[id].ordered > 0 \/ (r.op \in {"add", "edit"} /\ id = r.id) =>
             s.orders[id].ordered > 0
        /\ server.orders[id].status # "draft" \/ (r.op = "ordered" /\ id = r.id) =>
             s.orders[id].status # "draft"
  <2> SUFFICES ASSUME NEW id \in DOMAIN server.orders
               PROVE  /\ s.orders[id] \in Order
                      /\ s.orders[id].origin = server.orders[id].origin
                      /\ r.op # "title" \/ id # r.id => s.orders[id].title = server.orders[id].title
                      /\ r.op = "title" /\ id = r.id => s.orders[id].title = r.arg
                      /\ server.orders[id].ordered > 0 \/ (r.op \in {"add", "edit"} /\ id = r.id) =>
                           s.orders[id].ordered > 0
                      /\ server.orders[id].status # "draft" \/ (r.op = "ordered" /\ id = r.id) =>
                           s.orders[id].status # "draft"
    OBVIOUS
  <2>1. server.orders[id] \in Order
    BY <1>3
  <2>2. CASE id = r.id
    <3>1. s.orders[id] = Revised(server.orders[id], r)
      BY <1>2, <1>3, <2>2
    <3> HIDE DEF s
    <3> QED
      BY <2>1, <2>2, <3>1, RevisedOrder
  <2>3. CASE id # r.id
    <3>1. s.orders[id] = server.orders[id]
      BY <1>2, <1>3, <2>3
    <3> QED
      BY <2>1, <2>3, <3>1
  <2> QED
    BY <2>2, <2>3
<1>5. DOMAIN s.orders = DOMAIN server.orders
  BY <1>2
<1> HIDE DEF s
<1>6. s.orders \in Seq(Order)
  <2>1. s.orders = [id \in 1 .. Len(server.orders) |-> s.orders[id]]
    BY <1>2, <1>3, <1>5
  <2>2. s.orders \in [1 .. Len(server.orders) -> Order]
    BY <1>3, <1>4, <2>1
  <2> QED
    BY <1>3, <2>2
<1>7. ServerSound(s)
  <2>1. Stored(s, 1)
    BY <1>5 DEF ServerSound, Stored
  <2>2. <<1, s.orders[1].title>> \in s.titles
    BY <1>2, <1>4 DEF ServerSound, Stored
  <2>3. s = [orders |-> s.orders, titles |-> s.titles, stock |-> s.stock, others |-> s.others]
    BY <1>1, <1>2
  <2> QED
    BY <1>6, <2>1, <2>2, <2>3 DEF ServerSound
<1>8. Grows(server, s)
  BY <1>2, <1>4, <1>5 DEF Grows, Stored, Filled, Placed
<1>9. Alerts(s) = Alerts(server)
  BY <1>4, <1>5 DEF Alerts
<1>10. /\ r.op \in {"add", "edit"} /\ Stored(server, r.id) => Filled(s, r.id)
       /\ r.op = "ordered" /\ Stored(server, r.id) => Placed(s, r.id)
       /\ r.op = "title" => <<r.id, r.arg>> \in s.titles
  BY <1>2, <1>4, <1>5 DEF Stored, Filled, Placed
<1>11. TitlesKept(server, s, r)
  BY <1>4 DEF TitlesKept, Stored
<1> QED
  BY <1>7, <1>8, <1>9, <1>10, <1>11 DEF s

LEMMA GrowsReflexive == \A s : Grows(s, s)
BY DEF Grows

LEMMA QuietServer ==
  ASSUME ServerSound(server), NEW r, r.op \in {"adjust", "detail", "list", "ledger", "submit"}
  PROVE  LET s == After(r) IN
         /\ ServerSound(s) /\ Grows(server, s) /\ TitlesKept(server, s, r)
         /\ Alerts(s) = Alerts(server)
<1> DEFINE s == After(r)
<1>1. CASE r.op = "adjust"
  <2>1. PICK stock : s = [orders |-> server.orders, titles |-> server.titles,
                          stock |-> stock, others |-> server.others]
    BY <1>1 DEF After, ServerSound
  <2>2. s.orders = server.orders /\ s.titles = server.titles /\ s.stock = stock
          /\ s.others = server.others
    BY <2>1
  <2> HIDE DEF s
  <2> QED
    BY <2>1, <2>2 DEF ServerSound, Grows, TitlesKept, Alerts, Stored, Filled, Placed, s
<1>2. CASE r.op # "adjust"
  BY <1>2, GrowsReflexive DEF After, TitlesKept
<1> QED
  BY <1>1, <1>2

-----------------------------------------------------------------------------
(* Handlers and pages while the server grows.                              *)

LEMMA TaskGrows ==
  ASSUME NEW page, NEW n, NEW s, NEW s2, TaskSound(page, n, s), Grows(s, s2)
  PROVE  TaskSound(page, n, s2)
BY DEF TaskSound, OrderTask, ListTask, DashboardTask, Grows

LEMMA UiGrows ==
  ASSUME NEW u, NEW s, NEW s2, UiSound(u, s), Grows(s, s2)
  PROVE  UiSound(u, s2)
BY DEF UiSound, OrderUi, ListUi, DashboardUi, Grows

LEMMA NewOrders ==
  ASSUME NEW lines \in Nat, NEW origin \in {"user", "alert"}
  PROVE  NewOrder(1, lines, origin) \in Order /\ NewOrder(1, lines, origin).origin = origin
BY DEF NewOrder, Order, Statuses

LEMMA IdleFields ==
  ASSUME NEW n, Idle(n)
  PROVE  n.kind \in {"none", "ended"} /\ n.at = "none" /\ n.answer = Null
BY DEF Idle, NoTask

(* What a handler that is under way has sent can be served.                *)
LEMMA SentRequest ==
  ASSUME NEW page, NEW n, NEW s, TaskSound(page, n, s), ~Idle(n)
  PROVE  /\ RequestSound(n.request)
         /\ n = [kind |-> n.kind, at |-> n.at, request |-> n.request, answer |-> n.answer,
                 data |-> n.data, text |-> n.text]
         /\ n.answer \in Answers
         /\ n.request.op = "create" =>
              \/ n.request.arg.origin = "user"
              \/ page = "orders" /\ n.kind = "prefill" /\ n.at = "create"
<1>1. CASE page = "order" /\ OrderTask(n, s)
  BY <1>1 DEF OrderTask, Task, OrderPlaces, Saving, Request, DetailRequest, RequestSound
<1>2. CASE page = "orders" /\ ListTask(n, s)
  <2>1. n.at = "create" => n.kind \in {"prefill", "draft"}
    BY <1>2 DEF ListTask, Task, ListPlaces
  <2>2. n.at \in {"refresh", "reload", "status", "send", "add", "create"}
    BY <1>2 DEF ListTask, Task, ListPlaces
  <2>3. CASE n.at = "create"
    <3>1. CASE n.kind = "draft"
      BY <1>2, <2>3, <3>1, NewOrders DEF ListTask, Task, Request, RequestSound
    <3>2. CASE n.kind = "prefill"
      BY <1>2, <2>3, <3>2, NewOrders DEF ListTask, Task, Request, RequestSound
    <3> QED
      BY <2>1, <2>3, <3>1, <3>2
  <2>4. CASE n.at # "create"
    BY <1>2, <2>2, <2>4 DEF ListTask, Task, RequestSound
  <2> QED
    BY <2>3, <2>4
<1>3. CASE page = "items" /\ ItemsTask(n)
  BY <1>3 DEF ItemsTask, Task, RequestSound
<1>4. CASE page = "dashboard" /\ DashboardTask(n, s)
  BY <1>4, NewOrders DEF DashboardTask, Task, DashboardPlaces, Request, RequestSound
<1>5. CASE page \in AccountPageNames /\ AccountTask(n)
  BY <1>5 DEF AccountTask, Task, RequestSound
<1> QED
  BY <1>1, <1>2, <1>3, <1>4, <1>5 DEF TaskSound

LEMMA ServedServer ==
  ASSUME ServerSound(server), NEW r, RequestSound(r)
  PROVE  LET s == After(r) IN
         /\ ServerSound(s) /\ Grows(server, s) /\ TitlesKept(server, s, r)
         /\ r.op # "create" \/ r.arg.origin # "alert" => Alerts(s) = Alerts(server)
         /\ \A i, j \in Alerts(s) \ Alerts(server) : i = j
<1>1. CASE r.op = "create"
  BY <1>1, CreatedOrder
<1>2. CASE r.op \in {"title", "ordered", "add", "edit", "delete", "receive"}
  BY <1>2, RevisedServer
<1>3. CASE r.op \in {"adjust", "detail", "list", "ledger", "submit"}
  BY <1>3, QuietServer
<1> QED
  BY <1>1, <1>2, <1>3 DEF RequestSound

(* A handler with its answer.                                              *)
Answered(n, answer, data) ==
  [kind |-> n.kind, at |-> n.at, request |-> n.request, answer |-> answer,
   data |-> data, text |-> n.text]

LEMMA FailedTask ==
  ASSUME NEW page, NEW n, NEW s, TaskSound(page, n, s), ~Idle(n),
         NEW answer \in {"failed", "unauthorized"}
  PROVE  TaskSound(page, Answered(n, answer, n.data), s)
<1> DEFINE m == Answered(n, answer, n.data)
<1>1. /\ m.kind = n.kind /\ m.at = n.at /\ m.request = n.request /\ m.answer = answer
      /\ m.data = n.data /\ m.text = n.text
      /\ m = [kind |-> m.kind, at |-> m.at, request |-> m.request, answer |-> m.answer,
              data |-> m.data, text |-> m.text]
      /\ m.answer \in Answers /\ m.answer # "ok" /\ m.answer # "awaited"
  BY DEF Answered, Answers
<1> SUFFICES TaskSound(page, m, s)
  OBVIOUS
<1> HIDE DEF m
<1>2. \A places : Task(n, places) => Task(m, places)
  BY <1>1 DEF Task
<1>3. CASE page = "order" /\ OrderTask(n, s)
  <2>1. TitleStored(m) => TitleStored(n)
    BY <1>1 DEF TitleStored
  <2> QED
    BY <1>1, <1>2, <1>3, <2>1 DEF TaskSound, OrderTask
<1>4. CASE page = "orders" /\ ListTask(n, s)
  BY <1>1, <1>2, <1>4 DEF TaskSound, ListTask
<1>5. CASE page = "items" /\ ItemsTask(n)
  BY <1>1, <1>2, <1>5 DEF TaskSound, ItemsTask
<1>6. CASE page = "dashboard" /\ DashboardTask(n, s)
  BY <1>1, <1>2, <1>6 DEF TaskSound, DashboardTask
<1>7. CASE page \in AccountPageNames /\ AccountTask(n)
  BY <1>1, <1>2, <1>7 DEF TaskSound, AccountTask
<1> QED
  BY <1>3, <1>4, <1>5, <1>6, <1>7 DEF TaskSound

(* What a handler has been told is so.                                     *)
LEMMA ServedTask ==
  ASSUME ServerSound(server), NEW page, NEW n, TaskSound(page, n, server), ~Idle(n)
  PROVE  LET s == After(n.request)
         IN  TaskSound(page, Answered(n, "ok", Data(n.request, s)), s)
<1> DEFINE s == After(n.request)
           d == Data(n.request, s)
           m == Answered(n, "ok", d)
           r == n.request
<1>1. RequestSound(r) /\ ServerSound(s) /\ Grows(server, s) /\ TaskSound(page, n, s)
  BY SentRequest, ServedServer, TaskGrows
<1>2. /\ m.kind = n.kind /\ m.at = n.at /\ m.request = r /\ m.answer = "ok"
      /\ m.data = d /\ m.text = n.text
      /\ m = [kind |-> m.kind, at |-> m.at, request |-> m.request, answer |-> m.answer,
              data |-> m.data, text |-> m.text]
      /\ m.answer \in Answers
  BY DEF Answered, Answers
<1>3. r.op = "create" => Stored(s, d)
  BY <1>1, CreatedOrder DEF Data
<1>4. r.op = "add" /\ Stored(server, r.id) => Filled(s, r.id)
  BY <1>1, RevisedServer
<1>5. r.op = "ordered" /\ Stored(server, r.id) => Placed(s, r.id)
  BY <1>1, RevisedServer
<1>6. r = DetailRequest => d \in Order /\ <<1, d.title>> \in s.titles
  BY <1>1 DEF Data, DetailRequest, Request, ServerSound, Stored
<1>7. r.op = "title" => <<r.id, r.arg>> \in s.titles
  BY <1>1, RevisedServer
<1> SUFFICES TaskSound(page, m, s)
  OBVIOUS
<1> HIDE DEF m, s, d
<1>8. CASE page = "order" /\ OrderTask(n, s)
  <2>1. TitleStored(m) => <<1, m.text>> \in s.titles
    BY <1>2, <1>7, <1>8 DEF OrderTask, TitleStored, Request
  <2> QED
    BY <1>2, <1>6, <1>8, <2>1 DEF TaskSound, OrderTask, Task
<1>9. CASE page = "orders" /\ ListTask(n, s)
  <2>1. n.at = "create" => r.op = "create"
    BY <1>9 DEF ListTask, Request
  <2>2. n.at = "add" => r.op = "add" /\ Stored(server, r.id)
    BY <1>9, SentRequest DEF TaskSound, ListTask, AccountPageNames
  <2> QED
    BY <1>2, <1>3, <1>4, <1>9, <2>1, <2>2 DEF TaskSound, ListTask, Task
<1>10. CASE page = "items" /\ ItemsTask(n)
  BY <1>2, <1>10 DEF TaskSound, ItemsTask, Task
<1>11. CASE page = "dashboard" /\ DashboardTask(n, s)
  <2>1. n.at = "create" => r.op = "create"
    BY <1>11 DEF DashboardTask, Request
  <2>2. n.at = "confirm" => r.op = "ordered" /\ Stored(server, r.id)
    BY <1>11 DEF TaskSound, DashboardTask, AccountPageNames
  <2> QED
    BY <1>2, <1>3, <1>5, <1>11, <2>1, <2>2 DEF TaskSound, DashboardTask, Task
<1>12. CASE page \in AccountPageNames /\ AccountTask(n)
  BY <1>2, <1>12 DEF TaskSound, AccountTask, Task
<1> QED
  BY <1>1, <1>8, <1>9, <1>10, <1>11, <1>12 DEF TaskSound

-----------------------------------------------------------------------------
(* One handler, or none, moves in a step of a page.                        *)

LEMMA HandlerReplaced ==
  ASSUME tasks = [t \in Tasks |-> tasks[t]], NEW t \in Tasks, NEW n,
         tasks' = [tasks EXCEPT ![t] = n]
  PROVE  /\ tasks' = [s \in Tasks |-> tasks'[s]]
         /\ tasks'[t] = n
         /\ \A s \in Tasks \ {t} : tasks'[s] = tasks[s]
OBVIOUS

Moves(page) ==
  \/ UNCHANGED tasks
  \/ \E t \in Tasks : \E n : tasks' = [tasks EXCEPT ![t] = n] /\ TaskSound(page, n, server)

LEMMA BeginMoves ==
  ASSUME NEW page, NEW kind, NEW at, NEW r, NEW text, Begin(kind, at, r, text),
         TaskSound(page, Waiting(kind, at, r, text), server)
  PROVE  Moves(page)
BY DEF Begin, Moves

LEMMA EndMoves ==
  ASSUME NEW page, NEW t \in Tasks, End(t)
  PROVE  Moves(page)
BY DEF End, Moves, TaskSound, Idle

LEMMA SendMoves ==
  ASSUME NEW page, NEW t \in Tasks, NEW at, NEW r, Send(t, at, r),
         TaskSound(page, Waiting(tasks[t].kind, at, r, tasks[t].text), server)
  PROVE  Moves(page)
BY DEF Send, Moves

(* The page of an order submits no form that is held back by a flag.       *)
LEMMA OrderPageKeeps ==
  ASSUME WebInv, ui.page = "order", UNCHANGED server, OrderUi(ui', server), Moves("order")
  PROVE  WebInv'
<1>1. ui'.page = "order" /\ UiSound(ui', server)
  BY DEF OrderUi, UiSound
<1>2. \A n : TaskSound("order", n, server) => n.kind \notin Singles
  <2>1. \A n : Idle(n) => n.kind \notin Singles
    BY IdleFields DEF Singles
  <2>2. \A n : OrderTask(n, server) => n.kind \notin Singles
    BY DEF OrderTask, Task, OrderPlaces, Saving, Singles
  <2> QED
    BY <2>1, <2>2 DEF TaskSound, AccountPageNames
<1>3. \A t \in Tasks : TaskSound("order", tasks[t], server)
  BY DEF WebInv
<1>4. /\ tasks' = [s \in Tasks |-> tasks'[s]]
      /\ \A t \in Tasks : TaskSound("order", tasks'[t], server)
  <2>1. CASE UNCHANGED tasks
    BY <1>3, <2>1 DEF WebInv
  <2>2. ASSUME NEW t \in Tasks, NEW n, tasks' = [tasks EXCEPT ![t] = n],
               TaskSound("order", n, server)
        PROVE  /\ tasks' = [s \in Tasks |-> tasks'[s]]
               /\ \A s \in Tasks : TaskSound("order", tasks'[s], server)
    BY <1>3, <2>2, HandlerReplaced DEF WebInv
  <2> QED
    BY <2>1, <2>2 DEF Moves
<1>5. SubmittedOnce'
  BY <1>2, <1>4 DEF SubmittedOnce
<1>6. FlagsSound'
  BY <1>1 DEF FlagsSound, AccountPageNames
<1>7. AlertsSound'
  BY <1>1 DEF WebInv, AlertsSound
<1> QED
  BY <1>1, <1>4, <1>5, <1>6, <1>7 DEF WebInv

-----------------------------------------------------------------------------
(* The page of an order.                                                   *)

(* The page is there: its fields, and what is known of them.               *)
OrderState(u, s) ==
  /\ u = [page |-> "order", to |-> Null, loading |-> u.loading, order |-> u.order,
          title |-> u.title, editing |-> u.editing, saving |-> u.saving, dialog |-> u.dialog]
  /\ u.title \in Nat
  /\ u.order # Null => u.order \in Order /\ <<1, u.order.title>> \in s.titles

LEMMA OrderStateUi ==
  ASSUME NEW u, NEW s, OrderState(u, s)
  PROVE  OrderUi(u, s) /\ u.page = "order" /\ u.to = Null
BY NullIsNoName DEF OrderState, OrderUi, Destinations

LEMMA OnOrderPage ==
  ASSUME WebInv, On("order")
  PROVE  OrderState(ui, server)
BY DEF WebInv, UiSound, OrderUi, ListUi, ItemsUi, DashboardUi, AccountUi, AccountPageNames, On,
   OrderState

(* Fields that nothing is claimed of may change at will.                   *)
LEMMA OrderFieldSet ==
  ASSUME NEW u, NEW s, OrderState(u, s), NEW x
  PROVE  /\ OrderState([u EXCEPT !.loading = x], s)
         /\ OrderState([u EXCEPT !.editing = x], s)
         /\ OrderState([u EXCEPT !.saving = x], s)
         /\ OrderState([u EXCEPT !.dialog = x], s)
         /\ x \in Nat => OrderState([u EXCEPT !.title = x], s)
         /\ x \in Order /\ <<1, x.title>> \in s.titles => OrderState([u EXCEPT !.order = x], s)
<1> DEFINE loading == [u EXCEPT !.loading = x]
           editing == [u EXCEPT !.editing = x]
           saving == [u EXCEPT !.saving = x]
           dialog == [u EXCEPT !.dialog = x]
           title == [u EXCEPT !.title = x]
           order == [u EXCEPT !.order = x]
<1>1. OrderState(loading, s)
  BY DEF OrderState
<1>2. OrderState(editing, s)
  BY DEF OrderState
<1>3. OrderState(saving, s)
  BY DEF OrderState
<1>4. OrderState(dialog, s)
  BY DEF OrderState
<1>5. x \in Nat => OrderState(title, s)
  BY DEF OrderState
<1>6. x \in Order /\ <<1, x.title>> \in s.titles => OrderState(order, s)
  BY DEF OrderState
<1> QED
  BY <1>1, <1>2, <1>3, <1>4, <1>5, <1>6

(* Where the page may lead.                                                *)
LEMMA OrderGone ==
  ASSUME ui.page = "order", NEW path \in {"away", "login", "saved"}, NEW result,
         path = "saved" => <<1, result>> \in server.titles
  PROVE  OrderUi(Gone(path, result), server)
BY NullIsNoName DEF Gone, OrderUi, Destinations

LEMMA OrderShow ==
  ASSUME WebInv, ui.page = "order", NEW new, Show(new), ~Left => OrderUi(new, server)
  PROVE  OrderUi(ui', server)
BY DEF WebInv, UiSound, OrderUi, ListUi, ItemsUi, DashboardUi, AccountUi, AccountPageNames, Show

LEMMA OrderHandler ==
  ASSUME WebInv, ui.page = "order", NEW t \in Tasks, NEW kinds, NEW at, At(t, kinds, at),
         "none" \notin kinds, "ended" \notin kinds
  PROVE  /\ OrderTask(tasks[t], server) /\ tasks[t].kind \in kinds /\ tasks[t].at = at
         /\ tasks[t].answer \in {"ok", "failed", "unauthorized"}
<1>1. TaskSound("order", tasks[t], server) /\ ~Idle(tasks[t])
  BY IdleFields DEF WebInv, At
<1>2. OrderTask(tasks[t], server)
  BY <1>1 DEF TaskSound, AccountPageNames
<1> QED
  BY <1>2 DEF At, OrderTask, Task, Answers

LEMMA DetailLoadedUi ==
  ASSUME ui.page = "order", NEW t \in Tasks, OrderTask(tasks[t], server),
         tasks[t].request = DetailRequest,
         tasks[t].answer \in {"ok", "failed", "unauthorized"},
         NEW u, OrderState(u, server)
  PROVE  OrderUi(DetailLoaded(t, u), server)
<1> DEFINE order == tasks[t].data
           dialog == IF u.dialog = "add" /\ order.status # "draft" THEN "none" ELSE u.dialog
           fresh == [u EXCEPT !.order = order, !.title = order.title, !.dialog = dialog]
<1>1. DetailLoaded(t, u) = Loaded(t, u, fresh)
  BY DEF DetailLoaded
<1>2. CASE tasks[t].answer = "ok"
  <2>1. order \in Order /\ <<1, order.title>> \in server.titles
    BY <1>2 DEF OrderTask
  <2>2. order.title \in Nat
    BY <2>1 DEF Order
  <2>3. OrderState([u EXCEPT !.order = order], server)
    BY <2>1, OrderFieldSet
  <2>4. OrderState([u EXCEPT !.order = order, !.title = order.title], server)
    BY <2>2, <2>3, OrderFieldSet
  <2>5. OrderState(fresh, server)
    BY <2>4, OrderFieldSet
  <2> HIDE DEF fresh
  <2>6. DetailLoaded(t, u) = [fresh EXCEPT !.loading = FALSE]
    BY <1>1, <1>2 DEF Loaded, Ok
  <2> QED
    BY <2>5, <2>6, OrderFieldSet, OrderStateUi
<1>3. CASE tasks[t].answer = "failed"
  <2>1. DetailLoaded(t, u) = [u EXCEPT !.loading = FALSE]
    BY <1>1, <1>3 DEF Loaded, Ok
  <2> QED
    BY <2>1, OrderFieldSet, OrderStateUi
<1>4. CASE tasks[t].answer = "unauthorized"
  <2>1. DetailLoaded(t, u) = Gone("login", Null)
    BY <1>1, <1>4 DEF Loaded, Ok
  <2> QED
    BY <2>1, OrderGone
<1> QED
  BY <1>2, <1>3, <1>4

(* The handlers that a page of an order starts.                            *)
LEMMA OrderSent ==
  /\ \A kind \in {"load", "add", "edit", "receive"} : \A text :
       TaskSound("order", Waiting(kind, "refresh", DetailRequest, text), server)
  /\ \A kind \in Saving, text \in Nat :
       TaskSound("order", Waiting(kind, "save", Request("title", 1, text), text), server)
  /\ \A kind \in {"add", "edit", "receive"} : \A text :
       TaskSound("order", Waiting(kind, "send", Request(kind, 1, 1), text), server)
  /\ \A text : <<1, text>> \in server.titles =>
       /\ \A kind \in Saving :
            TaskSound("order", Waiting(kind, "reload", DetailRequest, text), server)
       /\ TaskSound("order", Waiting("confirm", "refresh", DetailRequest, text), server)
       /\ TaskSound("order", Waiting("confirm", "status", Request("ordered", 1, Null), text), server)
<1> USE DEF TaskSound, OrderTask, Task, OrderPlaces, Saving, Waiting, Answers, DetailRequest,
        Request, TitleStored
<1>1. \A kind \in {"load", "add", "edit", "receive"} : \A text :
        TaskSound("order", Waiting(kind, "refresh", DetailRequest, text), server)
  OBVIOUS
<1>2. \A kind \in Saving, text \in Nat :
        TaskSound("order", Waiting(kind, "save", Request("title", 1, text), text), server)
  OBVIOUS
<1>3. \A kind \in {"add", "edit", "receive"} : \A text :
        TaskSound("order", Waiting(kind, "send", Request(kind, 1, 1), text), server)
  OBVIOUS
<1>4. ASSUME NEW text, <<1, text>> \in server.titles
      PROVE  /\ \A kind \in Saving :
                  TaskSound("order", Waiting(kind, "reload", DetailRequest, text), server)
             /\ TaskSound("order", Waiting("confirm", "refresh", DetailRequest, text), server)
             /\ TaskSound("order", Waiting("confirm", "status", Request("ordered", 1, Null), text),
                          server)
  <2>1. \A kind \in Saving :
          TaskSound("order", Waiting(kind, "reload", DetailRequest, text), server)
    BY <1>4
  <2>2. TaskSound("order", Waiting("confirm", "refresh", DetailRequest, text), server)
    BY <1>4
  <2>3. TaskSound("order", Waiting("confirm", "status", Request("ordered", 1, Null), text), server)
    BY <1>4
  <2> QED
    BY <2>1, <2>2, <2>3
<1> HIDE DEF TaskSound, OrderTask, Task, OrderPlaces, Waiting, Answers, DetailRequest,
        Request, TitleStored
<1> QED
  BY <1>1, <1>2, <1>3, <1>4

LEMMA SaveDraftStep ==
  ASSUME WebInv, OrderShown, NEW kind \in Saving, SaveDraft(kind)
  PROVE  UNCHANGED server /\ OrderUi(ui', server) /\ Moves("order")
<1>1. OrderState(ui, server) /\ ui.page = "order" /\ ui.order # Null
  BY OnOrderPage DEF OrderShown, On
<1>2. CASE HasUnsavedDraft
  <2>1. ui' = [ui EXCEPT !.saving = TRUE]
        /\ Begin(kind, "save", Request("title", 1, ui.title), ui.title)
    BY <1>2 DEF SaveDraft
  <2>2. TaskSound("order", Waiting(kind, "save", Request("title", 1, ui.title), ui.title), server)
    BY <1>1, OrderSent DEF OrderState
  <2> QED
    BY <1>1, <2>1, <2>2, BeginMoves, OrderFieldSet, OrderStateUi DEF SaveDraft
<1>3. CASE ~HasUnsavedDraft
  <2>1. <<1, ui.title>> \in server.titles
    BY <1>1, <1>3 DEF HasUnsavedDraft, OrderState
  <2>2. CASE kind = "metadata"
    <3>1. ui' = [ui EXCEPT !.editing = FALSE] /\ UNCHANGED tasks
      BY <1>3, <2>2 DEF SaveDraft
    <3> QED
      BY <1>1, <3>1, OrderFieldSet, OrderStateUi DEF Moves, SaveDraft
  <2>3. CASE kind = "leave"
    <3>1. ui' = Gone("saved", ui.title) /\ UNCHANGED tasks
      BY <1>3, <2>3 DEF SaveDraft
    <3> QED
      BY <1>1, <2>1, <3>1, OrderGone DEF Moves, SaveDraft
  <2>4. CASE kind = "confirm"
    <3>1. UNCHANGED ui /\ Begin(kind, "status", Request("ordered", 1, Null), ui.title)
      BY <1>3, <2>4 DEF SaveDraft
    <3>2. TaskSound("order", Waiting(kind, "status", Request("ordered", 1, Null), ui.title), server)
      BY <2>1, <2>4, OrderSent
    <3> QED
      BY <1>1, <3>1, <3>2, BeginMoves, OrderStateUi DEF SaveDraft
  <2> QED
    BY <2>2, <2>3, <2>4 DEF Saving
<1> QED
  BY <1>2, <1>3

LEMMA OrderPageUserInv ==
  ASSUME WebInv, OrderPageUser
  PROVE  WebInv'
<1> USE DEF On, OrderShown, NoDialog
<1>1. On("order")
  BY DEF OrderPageUser, LoadAgain, TypeTitle, EditMetadata, ConfirmMetadataEdit,
     SaveDraftAndLeave, ConfirmOrder, Leave, DiscardAndLeave, OpenDialog, CloseDialog, SubmitDialog
<1>2. OrderState(ui, server) /\ ui.page = "order"
  BY <1>1, OnOrderPage
<1>3. UNCHANGED server /\ OrderUi(ui', server) /\ Moves("order")
  <2>1. CASE LoadAgain
    <3>1. ui' = [ui EXCEPT !.loading = TRUE] /\ Begin("load", "refresh", DetailRequest, Null)
      BY <2>1 DEF LoadAgain, Loading
    <3>2. TaskSound("order", Waiting("load", "refresh", DetailRequest, Null), server)
      BY OrderSent
    <3> QED
      BY <1>2, <2>1, <3>1, <3>2, OrderFieldSet, OrderStateUi, BeginMoves DEF LoadAgain
  <2>2. CASE TypeTitle
    <3>1. PICK title \in Titles \cup {Blank} : ui' = [ui EXCEPT !.title = title]
      BY <2>2 DEF TypeTitle
    <3>2. title \in Nat
      BY WebAssumption DEF Blank
    <3> QED
      BY <1>2, <2>2, <3>1, <3>2, OrderFieldSet, OrderStateUi DEF TypeTitle, Moves
  <2>3. CASE EditMetadata
    <3>1. CASE ui' = [ui EXCEPT !.editing = TRUE]
      BY <1>2, <2>3, <3>1, OrderFieldSet, OrderStateUi DEF EditMetadata, Moves
    <3>2. CASE ui' = [ui EXCEPT !.editing = FALSE, !.title = ui.order.title]
      <4>1. ui.order.title \in Nat
        BY <1>2, <2>3 DEF OrderState, Order, EditMetadata
      <4>2. OrderState([ui EXCEPT !.editing = FALSE], server)
        BY <1>2, OrderFieldSet
      <4>3. OrderState([ui EXCEPT !.editing = FALSE, !.title = ui.order.title], server)
        BY <4>1, <4>2, OrderFieldSet
      <4> QED
        BY <2>3, <3>2, <4>3, OrderStateUi DEF EditMetadata, Moves
    <3> QED
      BY <2>3, <3>1, <3>2 DEF EditMetadata
  <2>4. CASE ConfirmMetadataEdit \/ SaveDraftAndLeave \/ ConfirmOrder
    BY <2>4, SaveDraftStep DEF ConfirmMetadataEdit, SaveDraftAndLeave, ConfirmOrder, Saving
  <2>5. CASE Leave
    <3>1. ui' = [ui EXCEPT !.dialog = "leave"] \/ ui' = Gone("away", Null)
      BY <2>5 DEF Leave
    <3> QED
      BY <1>2, <2>5, <3>1, OrderFieldSet, OrderStateUi, OrderGone DEF Leave, Moves
  <2>6. CASE DiscardAndLeave
    BY <1>2, <2>6, OrderGone DEF DiscardAndLeave, Push, Moves
  <2>7. CASE OpenDialog
    BY <1>2, <2>7, OrderFieldSet, OrderStateUi DEF OpenDialog, Moves
  <2>8. CASE CloseDialog
    BY <1>2, <2>8, OrderFieldSet, OrderStateUi DEF CloseDialog, Moves
  <2>9. CASE SubmitDialog
    <3>1. /\ ui.dialog \in {"add", "edit", "receive"} /\ UNCHANGED ui
          /\ Begin(ui.dialog, "send", Request(ui.dialog, 1, 1), Null)
      BY <2>9 DEF SubmitDialog
    <3>2. TaskSound("order", Waiting(ui.dialog, "send", Request(ui.dialog, 1, 1), Null), server)
      BY <3>1, OrderSent
    <3> QED
      BY <1>2, <2>9, <3>1, <3>2, OrderStateUi, BeginMoves DEF SubmitDialog
  <2> QED
    BY <2>1, <2>2, <2>3, <2>4, <2>5, <2>6, <2>7, <2>8, <2>9 DEF OrderPageUser
<1> QED
  BY <1>2, <1>3, OrderPageKeeps

(* A title that was saved is still stored when the handler goes on, and a  *)
(* handler goes on with the page as it is by then.                         *)
LEMMA OrderPageGoesOnInv ==
  ASSUME WebInv, ui.page = "order", NEW t \in Tasks, OrderPageGoesOn(t)
  PROVE  WebInv'
<1> DEFINE n == tasks[t]
<1>1. ~Left => OrderState(ui, server)
  BY OnOrderPage DEF On, Left
<1>2. OrderUi(ui, server)
  BY DEF WebInv, UiSound, OrderUi, ListUi, ItemsUi, DashboardUi, AccountUi, AccountPageNames
<1>3. UNCHANGED server /\ OrderUi(ui', server) /\ Moves("order")
  <2>1. CASE Refreshed(t)
    <3>1. OrderTask(n, server) /\ n.request = DetailRequest
          /\ n.answer \in {"ok", "failed", "unauthorized"}
      BY <2>1, OrderHandler DEF Refreshed, OrderTask
    <3>2. ~Left => OrderUi(DetailLoaded(t, ui), server)
      BY <1>1, <3>1, DetailLoadedUi
    <3> QED
      BY <2>1, <3>2, OrderShow, EndMoves DEF Refreshed
  <2>2. CASE SaveAnswered(t)
    <3>1. OrderTask(n, server) /\ n.kind \in Saving /\ n.at = "save"
      BY <2>2, OrderHandler DEF SaveAnswered, Saving
    <3>2. CASE Ok(t)
      <4>1. <<1, n.text>> \in server.titles
        BY <3>1, <3>2 DEF OrderTask, TitleStored, Ok
      <4>2. Show(Loading) /\ Send(t, "reload", DetailRequest)
        BY <2>2, <3>2 DEF SaveAnswered
      <4>3. TaskSound("order", Waiting(n.kind, "reload", DetailRequest, n.text), server)
        BY <3>1, <4>1, OrderSent
      <4>4. ~Left => OrderUi(Loading, server)
        BY <1>1, OrderFieldSet, OrderStateUi DEF Loading
      <4> QED
        BY <2>2, <4>2, <4>3, <4>4, OrderShow, SendMoves DEF SaveAnswered
    <3>3. CASE ~Ok(t)
      <4>1. ~Left => OrderUi([ui EXCEPT !.saving = FALSE], server)
        BY <1>1, OrderFieldSet, OrderStateUi
      <4> QED
        BY <2>2, <3>3, <4>1, OrderShow, EndMoves DEF SaveAnswered
    <3> QED
      BY <3>2, <3>3
  <2>3. CASE SaveReloaded(t)
    <3>1. OrderTask(n, server) /\ n.kind \in Saving /\ n.at = "reload"
          /\ n.answer \in {"ok", "failed", "unauthorized"}
      BY <2>3, OrderHandler DEF SaveReloaded, Saving
    <3>2. <<1, n.text>> \in server.titles /\ n.request = DetailRequest
      BY <3>1 DEF OrderTask, TitleStored
    <3>3. CASE n.kind = "metadata"
      <4>1. Show(DetailLoaded(t, [ui EXCEPT !.saving = FALSE, !.editing = FALSE])) /\ End(t)
        BY <2>3, <3>3 DEF SaveReloaded
      <4>2. ~Left => OrderState([ui EXCEPT !.saving = FALSE], server)
        BY <1>1, OrderFieldSet
      <4>3. ~Left => OrderState([ui EXCEPT !.saving = FALSE, !.editing = FALSE], server)
        BY <4>2, OrderFieldSet
      <4>4. ~Left => OrderUi(DetailLoaded(t, [ui EXCEPT !.saving = FALSE, !.editing = FALSE]), server)
        BY <3>1, <3>2, <4>3, DetailLoadedUi
      <4> QED
        BY <2>3, <4>1, <4>4, OrderShow, EndMoves DEF SaveReloaded
    <3>4. CASE n.kind = "leave"
      BY <2>3, <3>2, <3>4, OrderGone, EndMoves DEF SaveReloaded
    <3>5. CASE n.kind = "confirm"
      <4>1. Show(DetailLoaded(t, [ui EXCEPT !.saving = FALSE]))
            /\ Send(t, "status", Request("ordered", 1, Null))
        BY <2>3, <3>5 DEF SaveReloaded
      <4>2. ~Left => OrderState([ui EXCEPT !.saving = FALSE], server)
        BY <1>1, OrderFieldSet
      <4>3. ~Left => OrderUi(DetailLoaded(t, [ui EXCEPT !.saving = FALSE]), server)
        BY <3>1, <3>2, <4>2, DetailLoadedUi
      <4>4. TaskSound("order", Waiting(n.kind, "status", Request("ordered", 1, Null), n.text), server)
        BY <3>2, <3>5, OrderSent
      <4> QED
        BY <2>3, <4>1, <4>3, <4>4, OrderShow, SendMoves DEF SaveReloaded
    <3> QED
      BY <3>1, <3>3, <3>4, <3>5 DEF Saving
  <2>4. CASE UpdateOrderStatus(t)
    <3>1. OrderTask(n, server) /\ n.kind = "confirm" /\ n.at = "status"
      BY <2>4, OrderHandler DEF UpdateOrderStatus
    <3>2. <<1, n.text>> \in server.titles
      BY <3>1 DEF OrderTask, TitleStored, Saving
    <3>3. CASE Ok(t)
      <4>1. Show(Loading) /\ Send(t, "refresh", DetailRequest)
        BY <2>4, <3>3 DEF UpdateOrderStatus
      <4>2. TaskSound("order", Waiting(n.kind, "refresh", DetailRequest, n.text), server)
        BY <3>1, <3>2, OrderSent
      <4>3. ~Left => OrderUi(Loading, server)
        BY <1>1, OrderFieldSet, OrderStateUi DEF Loading
      <4> QED
        BY <2>4, <4>1, <4>2, <4>3, OrderShow, SendMoves DEF UpdateOrderStatus
    <3>4. CASE ~Ok(t)
      BY <1>2, <2>4, <3>4, EndMoves DEF UpdateOrderStatus
    <3> QED
      BY <3>3, <3>4
  <2>5. CASE DialogAnswered(t)
    <3>1. OrderTask(n, server) /\ n.kind \in {"add", "edit", "receive"}
      BY <2>5, OrderHandler DEF DialogAnswered
    <3>2. CASE Ok(t)
      <4>1. PICK dialog : /\ Show([Loading EXCEPT !.dialog = dialog])
                          /\ Send(t, "refresh", DetailRequest)
        BY <2>5, <3>2 DEF DialogAnswered
      <4>2. TaskSound("order", Waiting(n.kind, "refresh", DetailRequest, n.text), server)
        BY <3>1, OrderSent
      <4>3. ~Left => OrderState(Loading, server)
        BY <1>1, OrderFieldSet DEF Loading
      <4>4. ~Left => OrderUi([Loading EXCEPT !.dialog = dialog], server)
        BY <4>3, OrderFieldSet, OrderStateUi
      <4> QED
        BY <2>5, <4>1, <4>2, <4>4, OrderShow, SendMoves DEF DialogAnswered
    <3>3. CASE ~Ok(t)
      BY <1>2, <2>5, <3>3, EndMoves DEF DialogAnswered
    <3> QED
      BY <3>2, <3>3
  <2> QED
    BY <2>1, <2>2, <2>3, <2>4, <2>5 DEF OrderPageGoesOn
<1> QED
  BY <1>3, OrderPageKeeps

-----------------------------------------------------------------------------
(* The handlers of the other pages.                                        *)

LEMMA Handler ==
  ASSUME WebInv, NEW t \in Tasks, NEW kinds, NEW at, At(t, kinds, at),
         "none" \notin kinds, "ended" \notin kinds
  PROVE  /\ TaskSound(ui.page, tasks[t], server) /\ ~Idle(tasks[t])
         /\ tasks[t].kind \in kinds /\ tasks[t].at = at
         /\ tasks[t].answer \in {"ok", "failed", "unauthorized"}
<1>1. TaskSound(ui.page, tasks[t], server) /\ ~Idle(tasks[t])
  BY IdleFields DEF WebInv, At
<1>2. tasks[t].answer \in Answers
  BY <1>1, SentRequest
<1> QED
  BY <1>1, <1>2 DEF At, Answers

(* Some handlers do not ask on which page they go on: it is their own.     *)
LEMMA HandlersPage ==
  ASSUME NEW page, NEW n, NEW s, TaskSound(page, n, s), ~Idle(n)
  PROVE  /\ n.kind \in Saving /\ n.at \in {"save", "reload"} => page = "order"
         /\ n.kind \in {"add", "edit", "receive"} => page = "order"
         /\ n.kind \in {"prefill", "draft"} => page = "orders"
         /\ n.kind = "ledger" => page = "items"
         /\ n.kind = "quick" => page = "dashboard"
         /\ n.kind \in {"login", "addUser", "reset", "logout"} => page \in AccountPageNames
<1>1. CASE page = "order" /\ OrderTask(n, s)
  BY <1>1 DEF OrderTask, Task, OrderPlaces, Saving
<1>2. CASE page = "orders" /\ ListTask(n, s)
  BY <1>2 DEF ListTask, Task, ListPlaces, Saving
<1>3. CASE page = "items" /\ ItemsTask(n)
  BY <1>3 DEF ItemsTask, Task, ItemsPlaces, Saving
<1>4. CASE page = "dashboard" /\ DashboardTask(n, s)
  BY <1>4 DEF DashboardTask, Task, DashboardPlaces, Saving
<1>5. CASE page \in AccountPageNames /\ AccountTask(n)
  BY <1>5 DEF AccountTask, Task, AccountPlaces, Saving
<1> QED
  BY <1>1, <1>2, <1>3, <1>4, <1>5 DEF TaskSound

-----------------------------------------------------------------------------
(* Which submissions are under way after a handler has begun, gone on or   *)
(* ended, and whether an order is being drafted for an alert.              *)
Drafting ==
  \E t \in Tasks :
    tasks[t].kind = "prefill" /\ tasks[t].at = "create" /\ tasks[t].answer = "awaited"

LEMMA BegunKinds ==
  ASSUME WebInv, NEW kind, NEW at, NEW r, NEW text, Begin(kind, at, r, text),
         kind \in Singles => ~UnderWay(kind)
  PROVE  /\ SubmittedOnce'
         /\ UnderWay(kind)'
         /\ \A k : k \notin {kind, "none"} => (UnderWay(k)' <=> UnderWay(k))
         /\ kind # "prefill" => (Drafting' => Drafting)
<1>1. PICK t \in Tasks : Free(t) /\ tasks' = [tasks EXCEPT ![t] = Waiting(kind, at, r, text)]
  BY DEF Begin
<1>2. /\ tasks'[t].kind = kind /\ tasks[t].kind = "none"
      /\ \A s \in Tasks \ {t} : tasks'[s] = tasks[s]
  BY <1>1, HandlerReplaced DEF WebInv, Waiting, Free
<1>3. UnderWay(kind)'
  BY <1>2 DEF UnderWay
<1>4. \A k : k \notin {kind, "none"} => (UnderWay(k)' <=> UnderWay(k))
  BY <1>2 DEF UnderWay
<1>5. SubmittedOnce'
  BY <1>2 DEF WebInv, SubmittedOnce, UnderWay
<1>6. kind # "prefill" => (Drafting' => Drafting)
  BY <1>2 DEF Drafting
<1> QED
  BY <1>3, <1>4, <1>5, <1>6

LEMMA SentKinds ==
  ASSUME WebInv, NEW t \in Tasks, NEW at, NEW r, Send(t, at, r)
  PROVE  /\ SubmittedOnce'
         /\ \A k : UnderWay(k)' <=> UnderWay(k)
         /\ at # "create" => (Drafting' => Drafting)
<1>1. /\ tasks'[t].kind = tasks[t].kind /\ tasks'[t].at = at
      /\ \A s \in Tasks \ {t} : tasks'[s] = tasks[s]
  BY HandlerReplaced DEF WebInv, Waiting, Send
<1>2. \A k : UnderWay(k)' <=> UnderWay(k)
  BY <1>1 DEF UnderWay
<1>3. SubmittedOnce'
  BY <1>1 DEF WebInv, SubmittedOnce
<1>4. at # "create" => (Drafting' => Drafting)
  BY <1>1 DEF Drafting
<1> QED
  BY <1>2, <1>3, <1>4

LEMMA EndedKinds ==
  ASSUME WebInv, NEW t \in Tasks, End(t)
  PROVE  /\ SubmittedOnce'
         /\ \A k : k \notin {tasks[t].kind, "ended"} => (UnderWay(k)' <=> UnderWay(k))
         /\ \A k \in Singles : tasks[t].kind = k => ~UnderWay(k)'
         /\ Drafting' => Drafting
<1>1. /\ tasks'[t].kind = "ended"
      /\ \A s \in Tasks \ {t} : tasks'[s] = tasks[s]
  BY HandlerReplaced DEF WebInv, NoTask, End
<1>2. "ended" \notin Singles
  BY DEF Singles
<1>3. \A k : k \notin {tasks[t].kind, "ended"} => (UnderWay(k)' <=> UnderWay(k))
  BY <1>1 DEF UnderWay
<1>4. \A k \in Singles : tasks[t].kind = k => ~UnderWay(k)'
  BY <1>1, <1>2 DEF UnderWay, WebInv, SubmittedOnce
<1>5. SubmittedOnce'
  BY <1>1, <1>2 DEF WebInv, SubmittedOnce
<1>6. Drafting' => Drafting
  BY <1>1 DEF Drafting
<1> QED
  BY <1>3, <1>4, <1>5, <1>6

LEMMA QuietKinds ==
  ASSUME WebInv, UNCHANGED tasks
  PROVE  SubmittedOnce' /\ (\A k : UnderWay(k)' <=> UnderWay(k)) /\ (Drafting' => Drafting)
BY DEF WebInv, SubmittedOnce, UnderWay, Drafting

(* A step of a page that leaves the server alone.                          *)
LEMMA PageKeeps ==
  ASSUME WebInv, UNCHANGED server, ui'.page = ui.page, UiSound(ui', server), Moves(ui.page),
         SubmittedOnce', FlagsSound', AlertsSound'
  PROVE  WebInv'
<1>1. \A t \in Tasks : TaskSound(ui.page, tasks[t], server)
  BY DEF WebInv
<1>2. /\ tasks' = [s \in Tasks |-> tasks'[s]]
      /\ \A t \in Tasks : TaskSound(ui.page, tasks'[t], server)
  <2>1. CASE UNCHANGED tasks
    BY <1>1, <2>1 DEF WebInv
  <2>2. ASSUME NEW t \in Tasks, NEW n, tasks' = [tasks EXCEPT ![t] = n],
               TaskSound(ui.page, n, server)
        PROVE  /\ tasks' = [s \in Tasks |-> tasks'[s]]
               /\ \A s \in Tasks : TaskSound(ui.page, tasks'[s], server)
    BY <1>1, <2>2, HandlerReplaced DEF WebInv
  <2> QED
    BY <2>1, <2>2 DEF Moves
<1> QED
  BY <1>2 DEF WebInv

LEMMA NoAlertElsewhere ==
  ASSUME WebInv, ui.page # "orders", UNCHANGED server, ui'.page = ui.page
  PROVE  AlertsSound'
BY DEF WebInv, AlertsSound, Alerts

-----------------------------------------------------------------------------
(* The catalogue: two flags, adjusting and submitting.                     *)
ItemsState(u, adjusting, submitting) ==
  u = [page |-> "items", to |-> Null, loading |-> u.loading, error |-> u.error,
       dialog |-> u.dialog, item |-> u.item, submitting |-> submitting,
       adjusting |-> adjusting, reading |-> u.reading]

LEMMA ItemsFieldSet ==
  ASSUME NEW u, NEW a, NEW s, ItemsState(u, a, s), NEW x
  PROVE  /\ ItemsState([u EXCEPT !.loading = x], a, s)
         /\ ItemsState([u EXCEPT !.error = x], a, s)
         /\ ItemsState([u EXCEPT !.dialog = x], a, s)
         /\ ItemsState([u EXCEPT !.item = x], a, s)
         /\ ItemsState([u EXCEPT !.reading = x], a, s)
         /\ ItemsState([u EXCEPT !.adjusting = x], x, s)
         /\ ItemsState([u EXCEPT !.submitting = x], a, x)
<1>1. ItemsState([u EXCEPT !.loading = x], a, s)
  BY DEF ItemsState
<1>2. ItemsState([u EXCEPT !.error = x], a, s)
  BY DEF ItemsState
<1>3. ItemsState([u EXCEPT !.dialog = x], a, s)
  BY DEF ItemsState
<1>4. ItemsState([u EXCEPT !.item = x], a, s)
  BY DEF ItemsState
<1>5. ItemsState([u EXCEPT !.reading = x], a, s)
  BY DEF ItemsState
<1>6. ItemsState([u EXCEPT !.adjusting = x], x, s)
  BY DEF ItemsState
<1>7. ItemsState([u EXCEPT !.submitting = x], a, x)
  BY DEF ItemsState
<1> QED
  BY <1>1, <1>2, <1>3, <1>4, <1>5, <1>6, <1>7

LEMMA ItemsStateUi ==
  ASSUME NEW u, NEW a, NEW s, ItemsState(u, a, s)
  PROVE  ItemsUi(u) /\ u.page = "items" /\ u.to = Null /\ u.adjusting = a /\ u.submitting = s
BY DEF ItemsState, ItemsUi

LEMMA OnItemsPage ==
  ASSUME WebInv, ui.page = "items", ~Left
  PROVE  /\ ItemsState(ui, ui.adjusting, ui.submitting)
         /\ Flag(ui.adjusting, "adjust") /\ Flag(ui.submitting, "form")
<1>1. ItemsUi(ui)
  BY DEF WebInv, UiSound, OrderUi, ListUi, DashboardUi, AccountUi, AccountPageNames
<1>2. ItemsState(ui, ui.adjusting, ui.submitting)
  BY <1>1 DEF ItemsUi, ItemsState, Left
<1> QED
  BY <1>2 DEF WebInv, FlagsSound

(* The page stays, with flags that tell what is under way; or it has gone. *)
ItemsStays(u) ==
  \E a, s \in BOOLEAN : /\ ItemsState(u, a, s)
                        /\ a <=> UnderWay("adjust")'
                        /\ s <=> UnderWay("form")'

LEMMA ItemsPageKeeps ==
  ASSUME WebInv, ui.page = "items", UNCHANGED server, Moves("items"), SubmittedOnce',
         \/ ItemsStays(ui')
         \/ ui' = Gone("login", Null)
         \/ Left /\ UNCHANGED ui
  PROVE  WebInv' /\ ui'.page = ui.page
<1>1. ui'.page = "items" /\ ItemsUi(ui') /\ FlagsSound'
  <2>1. CASE ItemsStays(ui')
    BY <2>1, ItemsStateUi DEF ItemsStays, FlagsSound, Flag, AccountPageNames
  <2>2. CASE ui' = Gone("login", Null)
    BY <2>2, NullIsNoName DEF Gone, ItemsUi, FlagsSound, Left, Destinations
  <2>3. CASE Left /\ UNCHANGED ui
    BY <2>3 DEF WebInv, UiSound, OrderUi, ListUi, ItemsUi, DashboardUi, AccountUi,
       AccountPageNames, FlagsSound, Left
  <2> QED
    BY <2>1, <2>2, <2>3
<1>2. UiSound(ui', server)
  BY <1>1 DEF UiSound
<1> QED
  BY <1>1, <1>2, PageKeeps, NoAlertElsewhere

LEMMA ItemsSent ==
  /\ \A kind \in {"load", "form", "remove", "adjust"} : \A text :
       TaskSound("items", Waiting(kind, "refresh", SeedRequest, text), server)
  /\ \A kind \in {"form", "remove"} :
       TaskSound("items", Waiting(kind, "send", Request("submit", 0, Null), Null), server)
  /\ \A i : TaskSound("items", Waiting("adjust", "send", Request("adjust", i, Null), Null), server)
  /\ TaskSound("items", Waiting("ledger", "read", Request("ledger", 0, Null), Null), server)
<1> USE DEF TaskSound, ItemsTask, Task, ItemsPlaces, Waiting, Answers, SeedRequest, Request
<1>1. \A kind \in {"load", "form", "remove", "adjust"} : \A text :
        TaskSound("items", Waiting(kind, "refresh", SeedRequest, text), server)
  OBVIOUS
<1>2. \A kind \in {"form", "remove"} :
        TaskSound("items", Waiting(kind, "send", Request("submit", 0, Null), Null), server)
  OBVIOUS
<1>3. \A i : TaskSound("items", Waiting("adjust", "send", Request("adjust", i, Null), Null), server)
  OBVIOUS
<1>4. TaskSound("items", Waiting("ledger", "read", Request("ledger", 0, Null), Null), server)
  OBVIOUS
<1> HIDE DEF TaskSound, ItemsTask, Task, ItemsPlaces, Waiting, Answers, SeedRequest, Request
<1> QED
  BY <1>1, <1>2, <1>3, <1>4

LEMMA ItemsUserInv ==
  ASSUME WebInv, ItemsUser
  PROVE  WebInv' /\ ui'.page = ui.page
<1> USE DEF On, ItemsShown, Flag
<1>1. ui.page = "items" /\ ~Left
  BY DEF ItemsUser, LoadSeed, OpenItemDialog, CloseItemDialog, SubmitForm, DeleteItem,
     SubmitStockAdjust, OpenLedger, Left
<1> DEFINE a == ui.adjusting
           s == ui.submitting
<1>2. ItemsState(ui, a, s) /\ Flag(a, "adjust") /\ Flag(s, "form")
  BY <1>1, OnItemsPage
<1> HIDE DEF a, s
<1>3. UNCHANGED server /\ Moves("items") /\ SubmittedOnce' /\ ItemsStays(ui')
  <2>1. CASE LoadSeed
    <3>1. ui' = [[ui EXCEPT !.loading = TRUE] EXCEPT !.error = FALSE]
          /\ Begin("load", "refresh", SeedRequest, Null)
      BY <2>1 DEF LoadSeed, Loading, SeedLoading
    <3>2. Moves("items")
      BY <3>1, BeginMoves, ItemsSent
    <3>3. SubmittedOnce' /\ \A k : k \notin {"load", "none"} => (UnderWay(k)' <=> UnderWay(k))
      BY <3>1, BegunKinds DEF Singles
    <3>4. ItemsState(ui', a, s)
      BY <1>2, <3>1, ItemsFieldSet
    <3> QED
      BY <1>2, <2>1, <3>2, <3>3, <3>4 DEF LoadSeed, ItemsStays
  <2>2. CASE OpenItemDialog \/ CloseItemDialog
    <3>1. ItemsState(ui', a, s)
      <4>1. CASE OpenItemDialog
        <5>1. ASSUME NEW dialog, ui' = [ui EXCEPT !.dialog = dialog]
              PROVE  ItemsState(ui', a, s)
          BY <1>2, <5>1, ItemsFieldSet
        <5>2. ASSUME NEW i, ui' = [ui EXCEPT !.dialog = "stock", !.item = i]
              PROVE  ItemsState(ui', a, s)
          <6>1. ItemsState([ui EXCEPT !.dialog = "stock"], a, s)
            BY <1>2, ItemsFieldSet
          <6>2. ItemsState([ui EXCEPT !.dialog = "stock", !.item = i], a, s)
            BY <6>1, ItemsFieldSet
          <6> QED
            BY <5>2, <6>2
        <5> QED
          BY <4>1, <5>1, <5>2 DEF OpenItemDialog
      <4>2. CASE CloseItemDialog
        <5>1. ItemsState([ui EXCEPT !.dialog = "none"], a, s)
          BY <1>2, ItemsFieldSet
        <5>2. ItemsState([ui EXCEPT !.dialog = "none", !.item = Null], a, s)
          BY <5>1, ItemsFieldSet
        <5> QED
          BY <4>2, <5>2 DEF CloseItemDialog
      <4> QED
        BY <2>2, <4>1, <4>2
    <3>2. UNCHANGED <<server, tasks>>
      BY <2>2 DEF OpenItemDialog, CloseItemDialog
    <3> QED
      BY <1>2, <3>1, <3>2, QuietKinds DEF ItemsStays, Moves
  <2>3. CASE SubmitForm
    <3>1. /\ ui' = [ui EXCEPT !.submitting = TRUE] /\ s = FALSE
          /\ Begin("form", "send", Request("submit", 0, Null), Null)
      BY <1>2, <2>3 DEF SubmitForm, s
    <3>2. Moves("items")
      BY <3>1, BeginMoves, ItemsSent
    <3>3. SubmittedOnce' /\ UnderWay("form")' /\ (UnderWay("adjust")' <=> UnderWay("adjust"))
      BY <1>2, <3>1, BegunKinds
    <3>4. ItemsState(ui', a, TRUE)
      BY <1>2, <3>1, ItemsFieldSet
    <3> QED
      BY <1>2, <2>3, <3>2, <3>3, <3>4 DEF SubmitForm, ItemsStays
  <2>4. CASE DeleteItem
    <3>1. ui' = [[ui EXCEPT !.dialog = "none"] EXCEPT !.item = Null]
          /\ Begin("remove", "send", Request("submit", 0, Null), Null)
      BY <2>4 DEF DeleteItem
    <3>2. Moves("items")
      BY <3>1, BeginMoves, ItemsSent
    <3>3. SubmittedOnce' /\ \A k : k \notin {"remove", "none"} => (UnderWay(k)' <=> UnderWay(k))
      BY <3>1, BegunKinds DEF Singles
    <3>4. ItemsState(ui', a, s)
      BY <1>2, <3>1, ItemsFieldSet
    <3> QED
      BY <1>2, <2>4, <3>2, <3>3, <3>4 DEF DeleteItem, ItemsStays
  <2>5. CASE SubmitStockAdjust
    <3>1. /\ ui' = [ui EXCEPT !.adjusting = TRUE] /\ a = FALSE
          /\ Begin("adjust", "send", Request("adjust", ui.item, Null), Null)
      BY <1>2, <2>5 DEF SubmitStockAdjust, a
    <3>2. Moves("items")
      BY <3>1, BeginMoves, ItemsSent
    <3>3. SubmittedOnce' /\ UnderWay("adjust")' /\ (UnderWay("form")' <=> UnderWay("form"))
      BY <1>2, <3>1, BegunKinds
    <3>4. ItemsState(ui', TRUE, s)
      BY <1>2, <3>1, ItemsFieldSet
    <3> QED
      BY <1>2, <2>5, <3>2, <3>3, <3>4 DEF SubmitStockAdjust, ItemsStays
  <2>6. CASE OpenLedger
    <3>1. ui' = [[ui EXCEPT !.dialog = "ledger"] EXCEPT !.reading = TRUE]
          /\ Begin("ledger", "read", Request("ledger", 0, Null), Null)
      BY <2>6 DEF OpenLedger
    <3>2. Moves("items")
      BY <3>1, BeginMoves, ItemsSent
    <3>3. SubmittedOnce' /\ \A k : k \notin {"ledger", "none"} => (UnderWay(k)' <=> UnderWay(k))
      BY <3>1, BegunKinds DEF Singles
    <3>4. ItemsState(ui', a, s)
      BY <1>2, <3>1, ItemsFieldSet
    <3> QED
      BY <1>2, <2>6, <3>2, <3>3, <3>4 DEF OpenLedger, ItemsStays
  <2> QED
    BY <2>1, <2>2, <2>3, <2>4, <2>5, <2>6 DEF ItemsUser
<1> QED
  BY <1>1, <1>3, ItemsPageKeeps

LEMMA ItemsStaysSet ==
  ASSUME NEW u, ItemsStays(u), NEW x
  PROVE  /\ ItemsStays([u EXCEPT !.loading = x])
         /\ ItemsStays([u EXCEPT !.error = x])
         /\ ItemsStays([u EXCEPT !.dialog = x])
         /\ ItemsStays([u EXCEPT !.item = x])
         /\ ItemsStays([u EXCEPT !.reading = x])
<1>1. PICK a, s \in BOOLEAN : /\ ItemsState(u, a, s)
                              /\ a <=> UnderWay("adjust")'
                              /\ s <=> UnderWay("form")'
  BY DEF ItemsStays
<1>2. ASSUME NEW v, ItemsState(v, a, s)
      PROVE  ItemsStays(v)
  BY <1>1, <1>2 DEF ItemsStays
<1> QED
  BY <1>1, <1>2, ItemsFieldSet

(* A submission that ends releases its own flag, and no other.             *)
LEMMA ItemsReleased ==
  ASSUME WebInv, ui.page = "items", ~Left, NEW t \in Tasks, End(t)
  PROVE  ItemsStays(Released(t))
<1> DEFINE n == tasks[t]
           a == ui.adjusting
           s == ui.submitting
           a2 == a /\ n.kind # "adjust"
           s2 == s /\ n.kind # "form"
<1>1. ItemsState(ui, a, s) /\ Flag(a, "adjust") /\ Flag(s, "form")
  BY OnItemsPage
<1>2. ItemsState([ui EXCEPT !.submitting = s2], a, s2)
  BY <1>1, ItemsFieldSet
<1>3. ItemsState([ui EXCEPT !.submitting = s2, !.adjusting = a2], a2, s2)
  <2> DEFINE u == [ui EXCEPT !.submitting = s2]
  <2>1. u.adjusting = a
    BY <1>2, ItemsStateUi
  <2> HIDE DEF u
  <2>2. ItemsState([u EXCEPT !.adjusting = a2], a2, s2)
    BY <1>2, ItemsFieldSet DEF u
  <2> QED
    BY <2>2 DEF u
<1>4. Released(t) = [ui EXCEPT !.submitting = s2, !.adjusting = a2]
  BY <1>1 DEF Released, ItemsState
<1>5. a2 \in BOOLEAN /\ s2 \in BOOLEAN
  BY <1>1 DEF Flag
<1>6. a2 <=> UnderWay("adjust")'
  BY <1>1, EndedKinds DEF Flag, Singles
<1>7. s2 <=> UnderWay("form")'
  BY <1>1, EndedKinds DEF Flag, Singles
<1> HIDE DEF a2, s2
<1> QED
  BY <1>3, <1>4, <1>5, <1>6, <1>7 DEF ItemsStays

LEMMA ItemsStaysQuietly ==
  ASSUME WebInv, ui.page = "items", ~Left,
         UnderWay("adjust")' <=> UnderWay("adjust"), UnderWay("form")' <=> UnderWay("form")
  PROVE  ItemsStays(ui)
BY OnItemsPage DEF Flag, ItemsStays

LEMMA ItemsGoesOnInv ==
  ASSUME WebInv, ui.page = "items", NEW t \in Tasks, ItemsGoesOn(t)
  PROVE  WebInv' /\ ui'.page = ui.page
<1> DEFINE n == tasks[t]
           Keeps == \/ ItemsStays(ui')
                    \/ ui' = Gone("login", Null)
                    \/ Left /\ UNCHANGED ui
<1>1. UNCHANGED server /\ Moves("items") /\ SubmittedOnce' /\ Keeps
  <2>1. CASE SeedRefreshed(t)
    <3> DEFINE fresh == Settled(t)
               failed == [fresh EXCEPT !.error = TRUE]
    <3>1. End(t) /\ Show(Loaded(t, failed, fresh)) /\ UNCHANGED server
      BY <2>1 DEF SeedRefreshed
    <3>2. n.answer \in {"ok", "failed", "unauthorized"}
      BY <2>1, Handler DEF SeedRefreshed
    <3>3. Moves("items") /\ SubmittedOnce'
      BY <3>1, EndMoves, EndedKinds
    <3>4. CASE Left
      BY <3>1, <3>3, <3>4 DEF Show
    <3>5. CASE ~Left
      <4>1. ItemsStays(fresh)
        <5>1. ItemsStays(Released(t))
          BY <3>1, <3>5, ItemsReleased
        <5> DEFINE v == Released(t)
                   dialog == IF tasks[t].kind = "remove" /\ v.dialog = "remove" THEN "none" ELSE v.dialog
        <5>2. fresh = [v EXCEPT !.dialog = dialog]
          BY DEF Settled
        <5>3. ItemsStays(v)
          BY <5>1
        <5> HIDE DEF v, dialog, fresh
        <5>4. ItemsStays([v EXCEPT !.dialog = dialog])
          BY <5>3, ItemsStaysSet
        <5> QED
          BY <5>2, <5>4
      <4> HIDE DEF fresh
      <4>2. ItemsStays(failed)
        BY <4>1, ItemsStaysSet
      <4> HIDE DEF failed
      <4>3. ui' = Loaded(t, failed, fresh)
        BY <3>1, <3>5 DEF Show
      <4>4. \/ ui' = [fresh EXCEPT !.loading = FALSE]
            \/ ui' = [failed EXCEPT !.loading = FALSE]
            \/ ui' = Gone("login", Null)
        BY <3>2, <4>3 DEF Loaded, Ok
      <4>5. ItemsStays([fresh EXCEPT !.loading = FALSE])
            /\ ItemsStays([failed EXCEPT !.loading = FALSE])
        BY <4>1, <4>2, ItemsStaysSet
      <4>6. Keeps
        BY <4>4, <4>5
      <4> QED
        BY <3>1, <3>3, <4>6
    <3> QED
      BY <3>4, <3>5
  <2>2. CASE ItemsAnswered(t)
    <3>1. n.kind \in {"form", "remove", "adjust"} /\ UNCHANGED server
      BY <2>2, Handler DEF ItemsAnswered
    <3>2. CASE Ok(t)
      <4>1. Send(t, "refresh", SeedRequest)
        BY <2>2, <3>2 DEF ItemsAnswered
      <4>2. TaskSound("items", Waiting(n.kind, "refresh", SeedRequest, n.text), server)
        BY <3>1, ItemsSent
      <4>3. Moves("items") /\ SubmittedOnce' /\ \A k : UnderWay(k)' <=> UnderWay(k)
        BY <4>1, <4>2, SendMoves, SentKinds
      <4>4. CASE Left
        BY <2>2, <3>1, <3>2, <4>3, <4>4 DEF Show, ItemsAnswered
      <4>5. CASE ~Left
        <5>1. ItemsStays([ui EXCEPT !.loading = TRUE])
          BY <4>3, <4>5, ItemsStaysQuietly, ItemsStaysSet
        <5>2. ItemsStays(SeedLoading)
          BY <5>1, ItemsStaysSet DEF SeedLoading, Loading
        <5>3. ItemsStays([SeedLoading EXCEPT !.dialog = "none"])
          BY <5>2, ItemsStaysSet
        <5>4. ItemsStays([SeedLoading EXCEPT !.dialog = "none", !.item = Null])
          BY <5>3, ItemsStaysSet
        <5>5. ui' \in {SeedLoading, [SeedLoading EXCEPT !.dialog = "none", !.item = Null]}
          BY <2>2, <3>2, <4>5 DEF ItemsAnswered, Show
        <5>6. ItemsStays(ui')
          BY <5>2, <5>4, <5>5
        <5> QED
          BY <3>1, <4>3, <5>6
      <4> QED
        BY <4>4, <4>5
    <3>3. CASE ~Ok(t)
      <4>1. End(t) /\ Show(Released(t))
        BY <2>2, <3>3 DEF ItemsAnswered
      <4>2. Left \/ ItemsStays(Released(t))
        BY <4>1, ItemsReleased
      <4> QED
        BY <3>1, <4>1, <4>2, EndMoves, EndedKinds DEF Show
    <3> QED
      BY <3>2, <3>3
  <2>3. CASE LedgerRead(t)
    <3>1. n.kind = "ledger" /\ End(t) /\ Show([ui EXCEPT !.reading = FALSE]) /\ UNCHANGED server
      BY <2>3, Handler DEF LedgerRead
    <3>2. Moves("items") /\ SubmittedOnce'
      BY <3>1, EndMoves, EndedKinds
    <3>3. \A k \in {"adjust", "form"} : UnderWay(k)' <=> UnderWay(k)
      BY <3>1, EndedKinds
    <3>4. Left \/ ItemsStays([ui EXCEPT !.reading = FALSE])
      BY <3>3, ItemsStaysQuietly, ItemsStaysSet
    <3> QED
      BY <3>1, <3>2, <3>4 DEF Show
  <2> QED
    BY <2>1, <2>2, <2>3 DEF ItemsGoesOn
<1> QED
  BY <1>1, ItemsPageKeeps

-----------------------------------------------------------------------------
(* The dashboard: one flag.                                                *)
DashboardState(u, submitting) ==
  u = [page |-> "dashboard", to |-> Null, loading |-> u.loading, data |-> u.data,
       dialog |-> u.dialog, selected |-> u.selected, submitting |-> submitting]

LEMMA DashboardFieldSet ==
  ASSUME NEW u, NEW s, DashboardState(u, s), NEW x
  PROVE  /\ DashboardState([u EXCEPT !.loading = x], s)
         /\ DashboardState([u EXCEPT !.data = x], s)
         /\ DashboardState([u EXCEPT !.dialog = x], s)
         /\ DashboardState([u EXCEPT !.selected = x], s)
         /\ DashboardState([u EXCEPT !.submitting = x], x)
<1>1. DashboardState([u EXCEPT !.loading = x], s)
  BY DEF DashboardState
<1>2. DashboardState([u EXCEPT !.data = x], s)
  BY DEF DashboardState
<1>3. DashboardState([u EXCEPT !.dialog = x], s)
  BY DEF DashboardState
<1>4. DashboardState([u EXCEPT !.selected = x], s)
  BY DEF DashboardState
<1>5. DashboardState([u EXCEPT !.submitting = x], x)
  BY DEF DashboardState
<1> QED
  BY <1>1, <1>2, <1>3, <1>4, <1>5

LEMMA DashboardStateUi ==
  ASSUME NEW u, NEW s, DashboardState(u, s)
  PROVE  /\ DashboardUi(u, server)
         /\ u.page = "dashboard" /\ u.to = Null /\ u.submitting = s
BY NullIsNoName DEF DashboardState, DashboardUi, Destinations

LEMMA OnDashboardPage ==
  ASSUME WebInv, ui.page = "dashboard", ~Left
  PROVE  DashboardState(ui, ui.submitting) /\ Flag(ui.submitting, "quick")
<1>1. DashboardUi(ui, server)
  BY DEF WebInv, UiSound, OrderUi, ListUi, ItemsUi, AccountUi, AccountPageNames
<1>2. DashboardState(ui, ui.submitting)
  BY <1>1 DEF DashboardUi, DashboardState, Left
<1> QED
  BY <1>2 DEF WebInv, FlagsSound

(* The page stays, with a flag that tells what is under way; or it has     *)
(* gone where it may lead.                                                 *)
DashboardStays(u) ==
  \E s \in BOOLEAN : DashboardState(u, s) /\ (s <=> UnderWay("quick")')

DashboardGone(u) == u.to # Null /\ DashboardUi(u, server)

LEMMA DashboardPageKeeps ==
  ASSUME WebInv, ui.page = "dashboard", UNCHANGED server, Moves("dashboard"), SubmittedOnce',
         DashboardStays(ui') \/ DashboardGone(ui')
  PROVE  WebInv' /\ ui'.page = ui.page
<1>1. ui'.page = "dashboard" /\ DashboardUi(ui', server) /\ FlagsSound'
  <2>1. CASE DashboardStays(ui')
    BY <2>1, DashboardStateUi DEF DashboardStays, FlagsSound, Flag, AccountPageNames
  <2>2. CASE DashboardGone(ui')
    BY <2>2 DEF DashboardGone, DashboardUi, FlagsSound, Left
  <2> QED
    BY <2>1, <2>2
<1>2. UiSound(ui', server)
  BY <1>1 DEF UiSound
<1> QED
  BY <1>1, <1>2, PageKeeps, NoAlertElsewhere

LEMMA DashboardLeft ==
  ASSUME WebInv, ui.page = "dashboard", Left
  PROVE  DashboardGone(ui)
BY DEF WebInv, UiSound, OrderUi, ListUi, ItemsUi, AccountUi, AccountPageNames, Left, DashboardGone

LEMMA DashboardLeads ==
  ASSUME ui.page = "dashboard", NEW path \in {"confirmed", "draft", "login"}, NEW result,
         path = "confirmed" => Placed(server, result)
  PROVE  DashboardGone(Gone(path, result))
BY NullIsNoName DEF DashboardGone, DashboardUi, Gone, Destinations

LEMMA DashboardStaysSet ==
  ASSUME NEW u, DashboardStays(u), NEW x
  PROVE  /\ DashboardStays([u EXCEPT !.loading = x])
         /\ DashboardStays([u EXCEPT !.data = x])
         /\ DashboardStays([u EXCEPT !.dialog = x])
         /\ DashboardStays([u EXCEPT !.selected = x])
<1>1. PICK s \in BOOLEAN : DashboardState(u, s) /\ (s <=> UnderWay("quick")')
  BY DEF DashboardStays
<1>2. ASSUME NEW v, DashboardState(v, s)
      PROVE  DashboardStays(v)
  BY <1>1, <1>2 DEF DashboardStays
<1> QED
  BY <1>1, <1>2, DashboardFieldSet

LEMMA DashboardStaysQuietly ==
  ASSUME WebInv, ui.page = "dashboard", ~Left, UnderWay("quick")' <=> UnderWay("quick")
  PROVE  DashboardStays(ui)
BY OnDashboardPage DEF Flag, DashboardStays

LEMMA DashboardReleased ==
  ASSUME WebInv, ui.page = "dashboard", ~Left, NEW t \in Tasks, End(t), tasks[t].kind = "quick"
  PROVE  DashboardStays([ui EXCEPT !.submitting = FALSE])
<1>1. DashboardState([ui EXCEPT !.submitting = FALSE], FALSE)
  BY OnDashboardPage, DashboardFieldSet
<1>2. ~UnderWay("quick")'
  BY EndedKinds DEF Singles
<1> QED
  BY <1>1, <1>2 DEF DashboardStays

LEMMA DashboardSent ==
  /\ TaskSound("dashboard", Waiting("load", "refresh", DashboardRequest, Null), server)
  /\ \A confirm \in BOOLEAN :
       TaskSound("dashboard",
         Waiting("quick", "create", Request("create", 0, NewOrder(1, 1, "user")), confirm), server)
  /\ \A id : \A text \in BOOLEAN : Stored(server, id) =>
       TaskSound("dashboard", Waiting("quick", "confirm", Request("ordered", id, Null), text), server)
<1> USE DEF TaskSound, DashboardTask, Task, DashboardPlaces, Waiting, Answers, DashboardRequest,
        Request
<1>1. TaskSound("dashboard", Waiting("load", "refresh", DashboardRequest, Null), server)
  OBVIOUS
<1>2. ASSUME NEW confirm \in BOOLEAN
      PROVE  TaskSound("dashboard",
               Waiting("quick", "create", Request("create", 0, NewOrder(1, 1, "user")), confirm),
               server)
  OBVIOUS
<1>3. ASSUME NEW id, NEW text \in BOOLEAN, Stored(server, id)
      PROVE  TaskSound("dashboard",
               Waiting("quick", "confirm", Request("ordered", id, Null), text), server)
  BY <1>3
<1> HIDE DEF TaskSound, DashboardTask, Task, DashboardPlaces, Waiting, Answers, DashboardRequest,
        Request
<1> QED
  BY <1>1, <1>2, <1>3

LEMMA DashboardUserInv ==
  ASSUME WebInv, DashboardUser
  PROVE  WebInv' /\ ui'.page = ui.page
<1> USE DEF On
<1>1. ui.page = "dashboard" /\ ~Left
  BY DEF DashboardUser, LoadDashboard, QuickOrderDialog, HandleSubmit, Left
<1>2. UNCHANGED server /\ Moves("dashboard") /\ SubmittedOnce' /\ DashboardStays(ui')
  <2>1. CASE LoadDashboard
    <3>1. ui' = [ui EXCEPT !.loading = TRUE] /\ Begin("load", "refresh", DashboardRequest, Null)
      BY <2>1 DEF LoadDashboard, Loading
    <3>2. Moves("dashboard")
      BY <3>1, BeginMoves, DashboardSent
    <3>3. SubmittedOnce' /\ (UnderWay("quick")' <=> UnderWay("quick"))
      BY <3>1, BegunKinds DEF Singles
    <3>4. DashboardStays(ui')
      BY <1>1, <3>1, <3>3, DashboardStaysQuietly, DashboardStaysSet
    <3> QED
      BY <2>1, <3>2, <3>3, <3>4 DEF LoadDashboard
  <2>2. CASE QuickOrderDialog
    <3>1. UNCHANGED <<server, tasks>>
      BY <2>2 DEF QuickOrderDialog
    <3>2. DashboardStays(ui)
      BY <1>1, <3>1, QuietKinds, DashboardStaysQuietly
    <3>3. DashboardStays(ui')
      <4>1. DashboardStays([ui EXCEPT !.dialog = "quick"])
        BY <3>2, DashboardStaysSet
      <4>2. DashboardStays([ui EXCEPT !.dialog = "quick", !.selected = TRUE])
        BY <4>1, DashboardStaysSet
      <4>3. DashboardStays([ui EXCEPT !.dialog = "none"])
        BY <3>2, DashboardStaysSet
      <4>4. DashboardStays([ui EXCEPT !.selected = ~@])
        BY <3>2, DashboardStaysSet
      <4>5. \/ ui' = [ui EXCEPT !.dialog = "quick", !.selected = TRUE]
            \/ ui' = [ui EXCEPT !.dialog = "none"]
            \/ ui' = [ui EXCEPT !.selected = ~@]
        BY <2>2 DEF QuickOrderDialog
      <4> QED
        BY <4>2, <4>3, <4>4, <4>5
    <3> QED
      BY <3>1, <3>3, QuietKinds DEF Moves
  <2>3. CASE HandleSubmit
    <3>1. PICK confirm \in BOOLEAN :
            Begin("quick", "create", Request("create", 0, NewOrder(1, 1, "user")), confirm)
      BY <2>3 DEF HandleSubmit
    <3>2. ~UnderWay("quick")
      BY <1>1, <2>3, OnDashboardPage DEF HandleSubmit, Flag
    <3>3. Moves("dashboard")
      BY <3>1, BeginMoves, DashboardSent
    <3>4. SubmittedOnce' /\ UnderWay("quick")'
      BY <3>1, <3>2, BegunKinds
    <3>5. DashboardState([ui EXCEPT !.submitting = TRUE], TRUE)
      BY <1>1, OnDashboardPage, DashboardFieldSet
    <3>6. DashboardStays(ui')
      BY <2>3, <3>4, <3>5 DEF HandleSubmit, DashboardStays
    <3> QED
      BY <2>3, <3>3, <3>4, <3>6 DEF HandleSubmit
  <2> QED
    BY <2>1, <2>2, <2>3 DEF DashboardUser
<1> QED
  BY <1>1, <1>2, DashboardPageKeeps

(* An order is opened as confirmed when the answer has said so.            *)
LEMMA DashboardGoesOnInv ==
  ASSUME WebInv, ui.page = "dashboard", NEW t \in Tasks, DashboardGoesOn(t)
  PROVE  WebInv' /\ ui'.page = ui.page
<1> DEFINE n == tasks[t]
<1>1. /\ UNCHANGED server /\ Moves("dashboard") /\ SubmittedOnce'
      /\ DashboardStays(ui') \/ DashboardGone(ui')
  <2>1. CASE DashboardRefreshed(t)
    <3> DEFINE fresh == [ui EXCEPT !.data = TRUE]
    <3>1. End(t) /\ Show(Loaded(t, ui, fresh)) /\ UNCHANGED server
      BY <2>1 DEF DashboardRefreshed, DashboardLoaded
    <3>2. n.answer \in {"ok", "failed", "unauthorized"} /\ n.kind = "load"
      BY <2>1, Handler DEF DashboardRefreshed
    <3>3. Moves("dashboard") /\ SubmittedOnce' /\ (UnderWay("quick")' <=> UnderWay("quick"))
      BY <3>1, <3>2, EndMoves, EndedKinds
    <3>4. CASE Left
      BY <3>1, <3>3, <3>4, DashboardLeft DEF Show
    <3>5. CASE ~Left
      <4>1. DashboardStays(ui) /\ DashboardStays(fresh)
        BY <3>3, <3>5, DashboardStaysQuietly, DashboardStaysSet
      <4> HIDE DEF fresh
      <4>2. \/ ui' = [fresh EXCEPT !.loading = FALSE]
            \/ ui' = [ui EXCEPT !.loading = FALSE]
            \/ ui' = Gone("login", Null)
        BY <3>1, <3>2, <3>5 DEF Loaded, Ok, Show
      <4>3. DashboardStays([fresh EXCEPT !.loading = FALSE])
            /\ DashboardStays([ui EXCEPT !.loading = FALSE])
        BY <4>1, DashboardStaysSet
      <4>4. DashboardGone(Gone("login", Null))
        BY DashboardLeads
      <4> QED
        BY <3>1, <3>3, <4>2, <4>3, <4>4
    <3> QED
      BY <3>4, <3>5
  <2>2. CASE QuickCreated(t)
    <3>1. DashboardTask(n, server) /\ n.kind = "quick" /\ n.at = "create" /\ UNCHANGED server
      BY <2>2, Handler DEF QuickCreated, TaskSound, AccountPageNames
    <3>2. CASE Ok(t) /\ n.text
      <4>1. Send(t, "confirm", Request("ordered", n.data, Null)) /\ UNCHANGED ui
        BY <2>2, <3>2 DEF QuickCreated
      <4>2. Stored(server, n.data) /\ n.text \in BOOLEAN
        BY <3>1, <3>2 DEF DashboardTask, Ok
      <4>3. TaskSound("dashboard",
              Waiting(n.kind, "confirm", Request("ordered", n.data, Null), n.text), server)
        BY <3>1, <4>2, DashboardSent
      <4>4. Moves("dashboard") /\ SubmittedOnce' /\ (UnderWay("quick")' <=> UnderWay("quick"))
        BY <4>1, <4>3, SendMoves, SentKinds
      <4> QED
        BY <3>1, <4>1, <4>4, DashboardStaysQuietly, DashboardLeft
    <3>3. CASE ~(Ok(t) /\ n.text)
      <4>1. End(t)
        BY <2>2, <3>3 DEF QuickCreated
      <4>2. Moves("dashboard") /\ SubmittedOnce'
        BY <4>1, EndMoves, EndedKinds
      <4>3. CASE Ok(t)
        <5>1. ui' = Gone("draft", n.data)
          BY <2>2, <3>3, <4>3 DEF QuickCreated, Opened
        <5> QED
          BY <3>1, <4>2, <5>1, DashboardLeads
      <4>4. CASE ~Ok(t)
        <5>1. Show([ui EXCEPT !.submitting = FALSE])
          BY <2>2, <3>3, <4>4 DEF QuickCreated
        <5> QED
          BY <3>1, <4>1, <4>2, <5>1, DashboardReleased, DashboardLeft DEF Show
      <4> QED
        BY <4>3, <4>4
    <3> QED
      BY <3>2, <3>3
  <2>3. CASE QuickConfirmed(t)
    <3>1. DashboardTask(n, server) /\ n.kind = "quick" /\ n.at = "confirm" /\ UNCHANGED server
      BY <2>3, Handler DEF QuickConfirmed, TaskSound, AccountPageNames
    <3>2. End(t) /\ Moves("dashboard") /\ SubmittedOnce'
      BY <2>3, EndMoves, EndedKinds DEF QuickConfirmed
    <3>3. CASE Ok(t)
      <4>1. Placed(server, n.request.id)
        BY <3>1, <3>3 DEF DashboardTask, Ok
      <4>2. ui' = Gone("confirmed", n.request.id) \/ ui' = Gone("draft", n.request.id)
        BY <2>3, <3>3 DEF QuickConfirmed, Opened
      <4> QED
        BY <3>1, <3>2, <4>1, <4>2, DashboardLeads
    <3>4. CASE ~Ok(t)
      <4>1. Show([ui EXCEPT !.submitting = FALSE])
        BY <2>3, <3>4 DEF QuickConfirmed
      <4> QED
        BY <3>1, <3>2, <4>1, DashboardReleased, DashboardLeft DEF Show
    <3> QED
      BY <3>3, <3>4
  <2> QED
    BY <2>1, <2>2, <2>3 DEF DashboardGoesOn
<1> QED
  BY <1>1, DashboardPageKeeps

-----------------------------------------------------------------------------
(* The pages around: the forms that are being submitted.                   *)
AccountState(u, submitting) ==
  u = [page |-> ui.page, to |-> Null, loading |-> u.loading, dialog |-> u.dialog,
       submitting |-> submitting]

LEMMA AccountFieldSet ==
  ASSUME NEW u, NEW s, AccountState(u, s), NEW x
  PROVE  /\ AccountState([u EXCEPT !.loading = x], s)
         /\ AccountState([u EXCEPT !.dialog = x], s)
         /\ AccountState([u EXCEPT !.submitting = x], x)
<1>1. AccountState([u EXCEPT !.loading = x], s)
  BY DEF AccountState
<1>2. AccountState([u EXCEPT !.dialog = x], s)
  BY DEF AccountState
<1>3. AccountState([u EXCEPT !.submitting = x], x)
  BY DEF AccountState
<1> QED
  BY <1>1, <1>2, <1>3

LEMMA AccountStateUi ==
  ASSUME NEW u, NEW s, ui.page \in AccountPageNames, AccountState(u, s)
  PROVE  AccountUi(u) /\ u.page = ui.page /\ u.to = Null /\ u.submitting = s
BY DEF AccountState, AccountUi

LEMMA OnAccountPages ==
  ASSUME WebInv, ui.page \in AccountPageNames, ~Left
  PROVE  /\ AccountState(ui, ui.submitting)
         /\ \A kind \in AccountForms : kind \in ui.submitting <=> UnderWay(kind)
<1>1. AccountUi(ui)
  BY DEF WebInv, UiSound, OrderUi, ListUi, ItemsUi, DashboardUi, AccountPageNames
<1>2. AccountState(ui, ui.submitting)
  BY <1>1 DEF AccountUi, AccountState, Left
<1> QED
  BY <1>2 DEF WebInv, FlagsSound

AccountStays(u) ==
  \E s : AccountState(u, s) /\ \A kind \in AccountForms : kind \in s <=> UnderWay(kind)'

AccountGone(u) == u.to # Null /\ AccountUi(u) /\ u.page = ui.page

LEMMA AccountPagesKeep ==
  ASSUME WebInv, ui.page \in AccountPageNames, UNCHANGED server, Moves(ui.page), SubmittedOnce',
         AccountStays(ui') \/ AccountGone(ui')
  PROVE  WebInv' /\ ui'.page = ui.page
<1>1. ui'.page = ui.page /\ AccountUi(ui') /\ FlagsSound'
  <2>1. CASE AccountStays(ui')
    <3>1. PICK s : AccountState(ui', s) /\ \A kind \in AccountForms : kind \in s <=> UnderWay(kind)'
      BY <2>1 DEF AccountStays
    <3>2. AccountUi(ui') /\ ui'.page = ui.page /\ ui'.submitting = s
      BY <3>1, AccountStateUi
    <3> QED
      BY <3>1, <3>2 DEF FlagsSound, AccountPageNames
  <2>2. CASE AccountGone(ui')
    BY <2>2 DEF AccountGone, FlagsSound, Left
  <2> QED
    BY <2>1, <2>2
<1>2. UiSound(ui', server) /\ ui.page # "orders"
  BY <1>1 DEF UiSound, AccountPageNames
<1> QED
  BY <1>1, <1>2, PageKeeps, NoAlertElsewhere

LEMMA AccountLeft ==
  ASSUME WebInv, ui.page \in AccountPageNames, Left
  PROVE  AccountGone(ui)
BY DEF WebInv, UiSound, OrderUi, ListUi, ItemsUi, DashboardUi, AccountPageNames, Left, AccountGone

LEMMA AccountLeads ==
  ASSUME ui.page \in AccountPageNames, NEW path \in {"login", "dashboard", "prefill"}
  PROVE  AccountGone(Gone(path, Null))
BY NullIsNoName DEF AccountGone, AccountUi, Gone, Destinations

LEMMA AccountStaysSet ==
  ASSUME NEW u, AccountStays(u), NEW x
  PROVE  AccountStays([u EXCEPT !.loading = x]) /\ AccountStays([u EXCEPT !.dialog = x])
<1>1. PICK s : AccountState(u, s) /\ \A kind \in AccountForms : kind \in s <=> UnderWay(kind)'
  BY DEF AccountStays
<1>2. ASSUME NEW v, AccountState(v, s)
      PROVE  AccountStays(v)
  BY <1>1, <1>2 DEF AccountStays
<1> QED
  BY <1>1, <1>2, AccountFieldSet

LEMMA AccountStaysQuietly ==
  ASSUME WebInv, ui.page \in AccountPageNames, ~Left,
         \A kind \in AccountForms : UnderWay(kind)' <=> UnderWay(kind)
  PROVE  AccountStays(ui)
BY OnAccountPages DEF AccountStays

LEMMA AccountReleased ==
  ASSUME WebInv, ui.page \in AccountPageNames, ~Left, NEW t \in Tasks, End(t)
  PROVE  AccountStays([ui EXCEPT !.submitting = @ \ {tasks[t].kind}])
<1> DEFINE s == ui.submitting \ {tasks[t].kind}
<1>1. AccountState([ui EXCEPT !.submitting = s], s)
  BY OnAccountPages, AccountFieldSet
<1>2. \A kind \in AccountForms : kind \in s <=> UnderWay(kind)'
  <2>1. \A kind \in AccountForms : kind \in Singles /\ kind # "ended"
    BY DEF AccountForms, Singles
  <2> QED
    BY <2>1, OnAccountPages, EndedKinds
<1> QED
  BY <1>1, <1>2 DEF AccountStays

LEMMA AccountSent ==
  ASSUME NEW page \in AccountPageNames
  PROVE  /\ \A kind \in {"load", "addUser"} : \A text :
              TaskSound(page, Waiting(kind, "refresh", PageRequest, text), server)
         /\ \A kind \in {"login", "addUser", "reset", "logout"} :
              TaskSound(page, Waiting(kind, "send", Request("submit", 0, Null), Null), server)
<1> USE DEF TaskSound, AccountTask, Task, AccountPlaces, Waiting, Answers, PageRequest, Request
<1>1. \A kind \in {"load", "addUser"} : \A text :
        TaskSound(page, Waiting(kind, "refresh", PageRequest, text), server)
  OBVIOUS
<1>2. \A kind \in {"login", "addUser", "reset", "logout"} :
        TaskSound(page, Waiting(kind, "send", Request("submit", 0, Null), Null), server)
  OBVIOUS
<1> HIDE DEF TaskSound, AccountTask, Task, AccountPlaces, Waiting, Answers, PageRequest, Request
<1> QED
  BY <1>1, <1>2

LEMMA AccountPagesUserInv ==
  ASSUME WebInv, AccountPagesUser
  PROVE  WebInv' /\ ui'.page = ui.page
<1> USE DEF On, OnAccountPage
<1>1. ui.page \in AccountPageNames /\ ~Left
  BY DEF AccountPagesUser, ReloadPage, GoToOrderDraft, SettingsDialog, SubmitAccountForm,
     HandleLogout, Left, AccountPageNames
<1>2. /\ UNCHANGED server /\ Moves(ui.page) /\ SubmittedOnce'
      /\ AccountStays(ui') \/ AccountGone(ui')
  <2>1. CASE ReloadPage
    <3>1. ui' = [ui EXCEPT !.loading = TRUE] /\ Begin("load", "refresh", PageRequest, Null)
      BY <2>1 DEF ReloadPage, Loading
    <3>2. Moves(ui.page)
      BY <1>1, <3>1, BeginMoves, AccountSent
    <3>3. SubmittedOnce' /\ \A kind \in AccountForms : UnderWay(kind)' <=> UnderWay(kind)
      BY <3>1, BegunKinds DEF Singles, AccountForms
    <3>4. AccountStays(ui')
      BY <1>1, <3>1, <3>3, AccountStaysQuietly, AccountStaysSet
    <3> QED
      BY <2>1, <3>2, <3>3, <3>4 DEF ReloadPage
  <2>2. CASE GoToOrderDraft
    BY <1>1, <2>2, QuietKinds, AccountLeads DEF GoToOrderDraft, Push, Moves
  <2>3. CASE SettingsDialog
    <3>1. PICK dialog : ui' = [ui EXCEPT !.dialog = dialog] /\ UNCHANGED <<server, tasks>>
      BY <2>3 DEF SettingsDialog
    <3>2. AccountStays(ui')
      BY <1>1, <3>1, QuietKinds, AccountStaysQuietly, AccountStaysSet
    <3> QED
      BY <3>1, <3>2, QuietKinds DEF Moves
  <2>4. CASE SubmitAccountForm
    <3>1. PICK kind \in AccountForms :
            /\ kind \notin ui.submitting
            /\ ui' = [ui EXCEPT !.submitting = @ \cup {kind}]
            /\ Begin(kind, "send", Request("submit", 0, Null), Null)
      BY <2>4 DEF SubmitAccountForm, AccountForms
    <3>2. ~UnderWay(kind)
      BY <1>1, <3>1, OnAccountPages
    <3>3. Moves(ui.page)
      BY <1>1, <3>1, BeginMoves, AccountSent DEF AccountForms
    <3>4. /\ SubmittedOnce' /\ UnderWay(kind)'
          /\ \A k : k \notin {kind, "none"} => (UnderWay(k)' <=> UnderWay(k))
      BY <3>1, <3>2, BegunKinds
    <3> DEFINE s == ui.submitting \cup {kind}
    <3>5. AccountState([ui EXCEPT !.submitting = s], s)
      BY <1>1, OnAccountPages, AccountFieldSet
    <3>6. \A k \in AccountForms : k \in s <=> UnderWay(k)'
      <4>1. "none" \notin AccountForms
        BY DEF AccountForms
      <4> QED
        BY <1>1, <3>4, <4>1, OnAccountPages
    <3>7. AccountStays(ui')
      BY <3>1, <3>5, <3>6 DEF AccountStays
    <3> QED
      BY <2>4, <3>3, <3>4, <3>7 DEF SubmitAccountForm
  <2>5. CASE HandleLogout
    <3>1. Begin("logout", "send", Request("submit", 0, Null), Null) /\ UNCHANGED <<server, ui>>
      BY <2>5 DEF HandleLogout
    <3>2. Moves(ui.page)
      BY <1>1, <3>1, BeginMoves, AccountSent
    <3>3. SubmittedOnce' /\ \A kind \in AccountForms : UnderWay(kind)' <=> UnderWay(kind)
      BY <3>1, BegunKinds DEF Singles, AccountForms
    <3>4. AccountStays(ui')
      BY <1>1, <3>1, <3>3, AccountStaysQuietly
    <3> QED
      BY <3>1, <3>2, <3>3, <3>4
  <2> QED
    BY <2>1, <2>2, <2>3, <2>4, <2>5 DEF AccountPagesUser
<1> QED
  BY <1>1, <1>2, AccountPagesKeep

LEMMA AccountPagesGoesOnInv ==
  ASSUME WebInv, ui.page \in AccountPageNames, NEW t \in Tasks, AccountPagesGoesOn(t)
  PROVE  WebInv' /\ ui'.page = ui.page
<1> DEFINE n == tasks[t]
           released == [ui EXCEPT !.submitting = @ \ {n.kind}]
<1>1. /\ UNCHANGED server /\ Moves(ui.page) /\ SubmittedOnce'
      /\ AccountStays(ui') \/ AccountGone(ui')
  <2>1. CASE PageRefreshed(t)
    <3>1. End(t) /\ Show(PageLoaded(t, released)) /\ UNCHANGED server
      BY <2>1 DEF PageRefreshed
    <3>2. n.answer \in {"ok", "failed", "unauthorized"}
      BY <2>1, Handler DEF PageRefreshed
    <3>3. Moves(ui.page) /\ SubmittedOnce'
      BY <3>1, EndMoves, EndedKinds
    <3>4. CASE Left
      BY <3>1, <3>3, <3>4, AccountLeft DEF Show
    <3>5. CASE ~Left
      <4>1. AccountStays(released)
        BY <3>1, <3>5, AccountReleased
      <4> HIDE DEF released
      <4>2. ui' = [released EXCEPT !.loading = FALSE] \/ ui' = Gone("login", Null)
        BY <3>1, <3>2, <3>5 DEF Loaded, Ok, Show, PageLoaded
      <4>3. AccountStays([released EXCEPT !.loading = FALSE])
        BY <4>1, AccountStaysSet
      <4>4. AccountGone(Gone("login", Null))
        BY AccountLeads
      <4> QED
        BY <3>1, <3>3, <4>2, <4>3, <4>4
    <3> QED
      BY <3>4, <3>5
  <2>2. CASE AccountFormAnswered(t)
    <3>1. n.kind \in {"login", "addUser", "reset"} /\ UNCHANGED server
      BY <2>2, Handler DEF AccountFormAnswered
    <3>2. CASE Ok(t) /\ n.kind = "addUser"
      <4>1. PICK dialog : /\ Show([Loading EXCEPT !.dialog = dialog])
                          /\ Send(t, "refresh", PageRequest)
        BY <2>2, <3>2 DEF AccountFormAnswered
      <4>2. TaskSound(ui.page, Waiting(n.kind, "refresh", PageRequest, n.text), server)
        BY <3>2, AccountSent
      <4>3. Moves(ui.page) /\ SubmittedOnce' /\ \A k : UnderWay(k)' <=> UnderWay(k)
        BY <4>1, <4>2, SendMoves, SentKinds
      <4>4. Left \/ AccountStays(Loading)
        BY <4>3, AccountStaysQuietly, AccountStaysSet DEF Loading
      <4>5. Left \/ AccountStays([Loading EXCEPT !.dialog = dialog])
        BY <4>4, AccountStaysSet
      <4> QED
        BY <3>1, <4>1, <4>3, <4>5, AccountLeft DEF Show
    <3>3. CASE Ok(t) /\ n.kind = "login"
      <4>1. ui' = Gone("dashboard", Null) /\ End(t)
        BY <2>2, <3>3 DEF AccountFormAnswered, Push
      <4> QED
        BY <3>1, <4>1, AccountLeads, EndMoves, EndedKinds
    <3>4. CASE ~(Ok(t) /\ n.kind \in {"addUser", "login"})
      <4>1. Show(released) /\ End(t)
        BY <2>2, <3>4 DEF AccountFormAnswered
      <4>2. Left \/ AccountStays(released)
        BY <4>1, AccountReleased
      <4> QED
        BY <3>1, <4>1, <4>2, AccountLeft, EndMoves, EndedKinds DEF Show
    <3> QED
      BY <3>2, <3>3, <3>4
  <2>3. CASE LoggedOut(t)
    BY <2>3, AccountLeads, EndMoves, EndedKinds DEF LoggedOut, Push
  <2> QED
    BY <2>1, <2>2, <2>3 DEF AccountPagesGoesOn
<1> QED
  BY <1>1, AccountPagesKeep

-----------------------------------------------------------------------------
(* The list of orders: a draft is created once at a time, and one is       *)
(* wanted for an alert until its handler has begun.                        *)
ListState(u, wanted, creating) ==
  u = [page |-> "orders", to |-> Null, loading |-> u.loading, orders |-> u.orders,
       wanted |-> wanted, creating |-> creating, dialog |-> u.dialog, target |-> u.target]

LEMMA ListFieldSet ==
  ASSUME NEW u, NEW w, NEW c, ListState(u, w, c), NEW x
  PROVE  /\ ListState([u EXCEPT !.loading = x], w, c)
         /\ ListState([u EXCEPT !.orders = x], w, c)
         /\ ListState([u EXCEPT !.dialog = x], w, c)
         /\ ListState([u EXCEPT !.target = x], w, c)
         /\ ListState([u EXCEPT !.wanted = x], x, c)
         /\ ListState([u EXCEPT !.creating = x], w, x)
<1>1. ListState([u EXCEPT !.loading = x], w, c)
  BY DEF ListState
<1>2. ListState([u EXCEPT !.orders = x], w, c)
  BY DEF ListState
<1>3. ListState([u EXCEPT !.dialog = x], w, c)
  BY DEF ListState
<1>4. ListState([u EXCEPT !.target = x], w, c)
  BY DEF ListState
<1>5. ListState([u EXCEPT !.wanted = x], x, c)
  BY DEF ListState
<1>6. ListState([u EXCEPT !.creating = x], w, x)
  BY DEF ListState
<1> QED
  BY <1>1, <1>2, <1>3, <1>4, <1>5, <1>6

LEMMA ListStateUi ==
  ASSUME NEW u, NEW w \in BOOLEAN, NEW c, ListState(u, w, c)
  PROVE  /\ ListUi(u, server)
         /\ u.page = "orders" /\ u.to = Null /\ u.wanted = w /\ u.creating = c
BY NullIsNoName DEF ListState, ListUi, Destinations

LEMMA OnListPage ==
  ASSUME WebInv, ui.page = "orders", ~Left
  PROVE  /\ ListState(ui, ui.wanted, ui.creating)
         /\ ui.wanted \in BOOLEAN /\ Flag(ui.creating, "draft")
         /\ ui.wanted => ~UnderWay("prefill") /\ Alerts(server) = {}
<1>1. ListUi(ui, server)
  BY DEF WebInv, UiSound, OrderUi, ItemsUi, DashboardUi, AccountUi, AccountPageNames
<1>2. ListState(ui, ui.wanted, ui.creating) /\ ui.wanted \in BOOLEAN
  BY <1>1 DEF ListUi, ListState, Left
<1> QED
  BY <1>2 DEF WebInv, FlagsSound, AlertsSound

ListStays(u) ==
  \E w, c \in BOOLEAN :
    /\ ListState(u, w, c)
    /\ c <=> UnderWay("draft")'
    /\ w => ~UnderWay("prefill")' /\ Alerts(server) = {}

ListGone(u) == u.to # Null /\ ListUi(u, server)

LEMMA ListPageKeeps ==
  ASSUME WebInv, ui.page = "orders", UNCHANGED server, Moves("orders"), SubmittedOnce',
         ListStays(ui') \/ ListGone(ui'), Drafting' => Alerts(server) = {}
  PROVE  WebInv' /\ ui'.page = ui.page
<1>1. /\ ui'.page = "orders" /\ ListUi(ui', server) /\ FlagsSound'
      /\ ~Left' /\ ui'.wanted => Alerts(server) = {}
  <2>1. CASE ListStays(ui')
    BY <2>1, ListStateUi DEF ListStays, FlagsSound, Flag, AccountPageNames
  <2>2. CASE ListGone(ui')
    BY <2>2 DEF ListGone, ListUi, FlagsSound, Left
  <2> QED
    BY <2>1, <2>2
<1>2. UiSound(ui', server)
  BY <1>1 DEF UiSound
<1>3. AlertsSound'
  <2>1. Alerts(server)' = Alerts(server)
    BY DEF Alerts
  <2> QED
    BY <1>1, <2>1 DEF WebInv, AlertsSound, Drafting
<1> QED
  BY <1>1, <1>2, <1>3, PageKeeps

LEMMA QuietAlerts ==
  ASSUME WebInv, Drafting
  PROVE  Alerts(server) = {}
BY DEF WebInv, AlertsSound, Drafting

LEMMA ListLeft ==
  ASSUME WebInv, ui.page = "orders", Left
  PROVE  ListGone(ui)
BY DEF WebInv, UiSound, OrderUi, ItemsUi, DashboardUi, AccountUi, AccountPageNames, Left, ListGone

LEMMA ListLeads ==
  ASSUME ui.page = "orders", NEW path \in {"prefilled", "draft", "order", "login"}, NEW result,
         path = "prefilled" => Filled(server, result)
  PROVE  ListGone(Gone(path, result))
BY NullIsNoName DEF ListGone, ListUi, Gone, Destinations

LEMMA ListStaysSet ==
  ASSUME NEW u, ListStays(u), NEW x
  PROVE  /\ ListStays([u EXCEPT !.loading = x])
         /\ ListStays([u EXCEPT !.orders = x])
         /\ ListStays([u EXCEPT !.dialog = x])
         /\ ListStays([u EXCEPT !.target = x])
<1>1. PICK w, c \in BOOLEAN :
        /\ ListState(u, w, c)
        /\ c <=> UnderWay("draft")'
        /\ w => ~UnderWay("prefill")' /\ Alerts(server) = {}
  BY DEF ListStays
<1>2. ASSUME NEW v, ListState(v, w, c)
      PROVE  ListStays(v)
  BY <1>1, <1>2 DEF ListStays
<1> QED
  BY <1>1, <1>2, ListFieldSet

LEMMA UntargetedStays ==
  ASSUME NEW u, ListStays(u)
  PROVE  ListStays(Untargeted(u))
<1>1. ListStays([u EXCEPT !.target = Null])
  BY ListStaysSet
<1>2. PICK dialog : Untargeted(u) = [u EXCEPT !.target = Null, !.dialog = dialog]
  BY DEF Untargeted
<1>3. ListStays([u EXCEPT !.target = Null, !.dialog = dialog])
  BY <1>1, ListStaysSet
<1> QED
  BY <1>2, <1>3

LEMMA ListStaysQuietly ==
  ASSUME WebInv, ui.page = "orders", ~Left,
         UnderWay("draft")' <=> UnderWay("draft"), UnderWay("prefill")' => UnderWay("prefill")
  PROVE  ListStays(ui)
BY OnListPage DEF Flag, ListStays

LEMMA ListSent ==
  /\ \A kind \in {"load", "confirm", "delete"} : \A text :
       TaskSound("orders", Waiting(kind, "refresh", ListRequest, text), server)
  /\ TaskSound("orders",
       Waiting("prefill", "create", Request("create", 0, NewOrder(1, 0, "alert")), Null), server)
  /\ TaskSound("orders",
       Waiting("draft", "create", Request("create", 0, NewOrder(1, 0, "user")), Null), server)
  /\ \A id : \A text : Stored(server, id) =>
       TaskSound("orders", Waiting("prefill", "add", Request("add", id, Null), text), server)
  /\ \A id : \A text : Filled(server, id) =>
       TaskSound("orders", Waiting("prefill", "reload", Request("list", id, Null), text), server)
  /\ \A id :
       /\ TaskSound("orders", Waiting("confirm", "status", Request("ordered", id, Null), Null), server)
       /\ TaskSound("orders", Waiting("delete", "send", Request("delete", id, Null), Null), server)
<1> USE DEF TaskSound, ListTask, Task, ListPlaces, Waiting, Answers, ListRequest, Request
<1>1. \A kind \in {"load", "confirm", "delete"} : \A text :
        TaskSound("orders", Waiting(kind, "refresh", ListRequest, text), server)
  OBVIOUS
<1>2. TaskSound("orders",
        Waiting("prefill", "create", Request("create", 0, NewOrder(1, 0, "alert")), Null), server)
  OBVIOUS
<1>3. TaskSound("orders",
        Waiting("draft", "create", Request("create", 0, NewOrder(1, 0, "user")), Null), server)
  OBVIOUS
<1>4. ASSUME NEW id, NEW text, Stored(server, id)
      PROVE  TaskSound("orders", Waiting("prefill", "add", Request("add", id, Null), text), server)
  BY <1>4
<1>5. ASSUME NEW id, NEW text, Filled(server, id)
      PROVE  TaskSound("orders", Waiting("prefill", "reload", Request("list", id, Null), text), server)
  BY <1>5
<1>6. ASSUME NEW id
      PROVE  TaskSound("orders",
               Waiting("confirm", "status", Request("ordered", id, Null), Null), server)
  OBVIOUS
<1>7. ASSUME NEW id
      PROVE  TaskSound("orders",
               Waiting("delete", "send", Request("delete", id, Null), Null), server)
  OBVIOUS
<1> HIDE DEF TaskSound, ListTask, Task, ListPlaces, Waiting, Answers, ListRequest, Request
<1> QED
  BY <1>1, <1>2, <1>3, <1>4, <1>5, <1>6, <1>7

LEMMA OrderListUserInv ==
  ASSUME WebInv, OrderListUser
  PROVE  WebInv' /\ ui'.page = ui.page
<1> USE DEF On, ListShown
<1>1. ui.page = "orders" /\ ~Left
  BY DEF OrderListUser, LoadOrders, ConfirmListed, ConfirmDelete, DeleteOrder, OpenCreateDraft,
     CreateDraft, OpenListed, Left
<1>2. /\ UNCHANGED server /\ Moves("orders") /\ SubmittedOnce'
      /\ ListStays(ui') \/ ListGone(ui')
      /\ Drafting' => Drafting
  <2>1. ASSUME UNCHANGED tasks
        PROVE  ListStays(ui)
    BY <1>1, <2>1, QuietKinds, ListStaysQuietly
  <2>2. ASSUME NEW kind, NEW at, NEW r, NEW text, Begin(kind, at, r, text),
               kind \in {"load", "confirm", "delete"}
        PROVE  SubmittedOnce' /\ ListStays(ui) /\ (Drafting' => Drafting)
    <3>1. kind \notin Singles
      BY <2>2 DEF Singles
    <3>2. /\ SubmittedOnce' /\ (Drafting' => Drafting)
          /\ \A k : k \notin {kind, "none"} => (UnderWay(k)' <=> UnderWay(k))
      BY <2>2, <3>1, BegunKinds
    <3>3. (UnderWay("draft")' <=> UnderWay("draft")) /\ (UnderWay("prefill")' => UnderWay("prefill"))
      BY <2>2, <3>2
    <3> QED
      BY <1>1, <3>2, <3>3, ListStaysQuietly
  <2>3. CASE LoadOrders
    <3>1. ui' = [ui EXCEPT !.loading = TRUE] /\ Begin("load", "refresh", ListRequest, Null)
      BY <2>3 DEF LoadOrders, Loading
    <3>2. Moves("orders")
      BY <3>1, BeginMoves, ListSent
    <3>3. SubmittedOnce' /\ ListStays(ui) /\ (Drafting' => Drafting)
      BY <2>2, <3>1
    <3>4. ListStays(ui')
      BY <3>1, <3>3, ListStaysSet
    <3> QED
      BY <2>3, <3>2, <3>3, <3>4 DEF LoadOrders
  <2>4. CASE ConfirmListed
    <3>1. PICK id : Begin("confirm", "status", Request("ordered", id, Null), Null)
      BY <2>4 DEF ConfirmListed
    <3>2. Moves("orders")
      BY <3>1, BeginMoves, ListSent
    <3>3. UNCHANGED <<server, ui>>
      BY <2>4 DEF ConfirmListed
    <3> QED
      BY <2>2, <3>1, <3>2, <3>3
  <2>5. CASE ConfirmDelete
    <3>1. PICK id : ui' = [ui EXCEPT !.dialog = "delete", !.target = id]
      BY <2>5 DEF ConfirmDelete
    <3>2. UNCHANGED <<server, tasks>>
      BY <2>5 DEF ConfirmDelete
    <3>3. ListStays([ui EXCEPT !.dialog = "delete"])
      BY <2>1, <3>2, ListStaysSet
    <3>4. ListStays([ui EXCEPT !.dialog = "delete", !.target = id])
      BY <3>3, ListStaysSet
    <3> QED
      BY <3>1, <3>2, <3>4, QuietKinds DEF Moves
  <2>6. CASE DeleteOrder
    <3>1. ui' = Untargeted(ui) /\ UNCHANGED server
      BY <2>6 DEF DeleteOrder
    <3>2. CASE UNCHANGED tasks
      BY <2>1, <3>1, <3>2, UntargetedStays, QuietKinds DEF Moves
    <3>3. CASE Begin("delete", "send", Request("delete", ui.target, Null), Null)
      <4>1. Moves("orders")
        BY <3>3, BeginMoves, ListSent
      <4>2. SubmittedOnce' /\ ListStays(ui) /\ (Drafting' => Drafting)
        BY <2>2, <3>3
      <4> QED
        BY <3>1, <4>1, <4>2, UntargetedStays
    <3> QED
      BY <2>6, <3>2, <3>3 DEF DeleteOrder
  <2>7. CASE OpenCreateDraft
    <3>1. PICK dialog : ui' = [ui EXCEPT !.dialog = dialog]
      BY <2>7 DEF OpenCreateDraft
    <3>2. UNCHANGED <<server, tasks>>
      BY <2>7 DEF OpenCreateDraft
    <3>3. ListStays([ui EXCEPT !.dialog = dialog])
      BY <2>1, <3>2, ListStaysSet
    <3> QED
      BY <3>1, <3>2, <3>3, QuietKinds DEF Moves
  <2>8. CASE CreateDraft
    <3>1. /\ Begin("draft", "create", Request("create", 0, NewOrder(1, 0, "user")), Null)
          /\ ui' = [ui EXCEPT !.creating = TRUE] /\ UNCHANGED server
      BY <2>8 DEF CreateDraft
    <3>2. ~UnderWay("draft")
      BY <1>1, <2>8, OnListPage DEF CreateDraft, Flag
    <3>3. Moves("orders")
      BY <3>1, BeginMoves, ListSent
    <3>4. /\ SubmittedOnce' /\ UnderWay("draft")' /\ (Drafting' => Drafting)
          /\ UnderWay("prefill")' <=> UnderWay("prefill")
      BY <3>1, <3>2, BegunKinds
    <3>5. ListState([ui EXCEPT !.creating = TRUE], ui.wanted, TRUE)
      BY <1>1, OnListPage, ListFieldSet
    <3>6. ui.wanted \in BOOLEAN /\ (ui.wanted => ~UnderWay("prefill")' /\ Alerts(server) = {})
      BY <1>1, <3>4, OnListPage
    <3>7. ListStays(ui')
      BY <3>1, <3>4, <3>5, <3>6 DEF ListStays
    <3> QED
      BY <3>1, <3>3, <3>4, <3>7
  <2>9. CASE OpenListed
    BY <1>1, <2>9, ListLeads, QuietKinds DEF OpenListed, Push, Moves
  <2> QED
    BY <2>3, <2>4, <2>5, <2>6, <2>7, <2>8, <2>9 DEF OrderListUser
<1> QED
  BY <1>1, <1>2, ListPageKeeps, QuietAlerts

(* The effect has not run before, so no order has been drafted.            *)
LEMMA PrefillInv ==
  ASSUME WebInv, Prefill
  PROVE  WebInv' /\ ui'.page = ui.page
<1>1. ui.page = "orders" /\ ~Left /\ ui.wanted /\ UNCHANGED server
  BY DEF Prefill, ListShown, On, Left
<1>2. /\ ListState(ui, ui.wanted, ui.creating) /\ Flag(ui.creating, "draft")
      /\ ~UnderWay("prefill") /\ Alerts(server) = {}
  BY <1>1, OnListPage
<1>3. Moves("orders") /\ SubmittedOnce' /\ (UnderWay("draft")' <=> UnderWay("draft"))
  <2>1. CASE UNCHANGED tasks
    BY <2>1, QuietKinds DEF Moves
  <2>2. CASE Begin("prefill", "create", Request("create", 0, NewOrder(1, 0, "alert")), Null)
    <3>1. Moves("orders")
      BY <2>2, BeginMoves, ListSent
    <3>2. SubmittedOnce' /\ \A k : k \notin {"prefill", "none"} => (UnderWay(k)' <=> UnderWay(k))
      BY <1>2, <2>2, BegunKinds
    <3> QED
      BY <3>1, <3>2
  <2> QED
    BY <2>1, <2>2 DEF Prefill
<1>4. ListStays(ui')
  <2>1. ui' = [ui EXCEPT !.wanted = FALSE]
    BY DEF Prefill
  <2>2. ListState(ui', FALSE, ui.creating)
    BY <1>2, <2>1, ListFieldSet
  <2> QED
    BY <1>2, <1>3, <2>2 DEF ListStays, Flag
<1> QED
  BY <1>1, <1>2, <1>3, <1>4, ListPageKeeps

(* The order drafted for an alert is opened after its item was added.      *)
LEMMA OrderListGoesOnInv ==
  ASSUME WebInv, ui.page = "orders", NEW t \in Tasks, OrderListGoesOn(t)
  PROVE  WebInv' /\ ui'.page = ui.page
<1> DEFINE n == tasks[t]
           Kept == /\ UNCHANGED server /\ Moves("orders") /\ SubmittedOnce'
                   /\ ListStays(ui') \/ ListGone(ui')
                   /\ Drafting' => Drafting
<1>1. ASSUME NEW kinds, NEW at, At(t, kinds, at), "none" \notin kinds, "ended" \notin kinds
      PROVE  /\ ListTask(n, server) /\ n.kind \in kinds /\ n.at = at
             /\ n.answer \in {"ok", "failed", "unauthorized"}
  BY <1>1, Handler DEF TaskSound, AccountPageNames
<1>2. ASSUME End(t)
      PROVE  Moves("orders") /\ SubmittedOnce' /\ (Drafting' => Drafting)
  BY <1>2, EndMoves, EndedKinds
<1>3. ASSUME ~Left, End(t), n.kind # "draft"
      PROVE  ListStays(ui)
  BY <1>3, EndedKinds, ListStaysQuietly DEF Singles
<1>4. ASSUME NEW at, NEW r, Send(t, at, r), at # "create",
             TaskSound("orders", Waiting(n.kind, at, r, n.text), server)
      PROVE  /\ Moves("orders") /\ SubmittedOnce' /\ (Drafting' => Drafting)
             /\ Left \/ ListStays(ui)
  BY <1>4, SendMoves, SentKinds, ListStaysQuietly
<1>5. Kept
  <2>1. CASE OrdersRefreshed(t)
    <3>1. PICK u \in {ui, Untargeted(ui)} : Show(OrdersLoaded(t, u))
      BY <2>1 DEF OrdersRefreshed
    <3>2. /\ n.kind \in {"load", "confirm", "delete"} /\ n.answer \in {"ok", "failed", "unauthorized"}
          /\ End(t) /\ UNCHANGED server
      BY <1>1, <2>1 DEF OrdersRefreshed
    <3>3. CASE Left
      BY <1>2, <3>1, <3>2, <3>3, ListLeft DEF Show
    <3>4. CASE ~Left
      <4>1. ListStays(u)
        BY <1>3, <3>1, <3>2, <3>4, UntargetedStays
      <4>2. ListStays([u EXCEPT !.orders = n.data])
        BY <4>1, ListStaysSet
      <4>3. ListStays([u EXCEPT !.loading = FALSE])
            /\ ListStays([u EXCEPT !.orders = n.data, !.loading = FALSE])
        BY <4>1, <4>2, ListStaysSet
      <4>4. \/ ui' = [[u EXCEPT !.orders = n.data] EXCEPT !.loading = FALSE]
            \/ ui' = [u EXCEPT !.loading = FALSE]
            \/ ui' = Gone("login", Null)
        BY <3>1, <3>2, <3>4 DEF OrdersLoaded, Loaded, Ok, Show
      <4>5. ListGone(Gone("login", Null))
        BY ListLeads
      <4> QED
        BY <1>2, <3>2, <4>3, <4>4, <4>5
    <3> QED
      BY <3>3, <3>4
  <2>2. CASE PrefillCreated(t)
    <3>1. ListTask(n, server) /\ n.kind = "prefill" /\ n.at = "create" /\ UNCHANGED <<server, ui>>
      BY <1>1, <2>2 DEF PrefillCreated
    <3>2. CASE Ok(t)
      <4>1. Send(t, "add", Request("add", n.data, Null))
        BY <2>2, <3>2 DEF PrefillCreated
      <4>2. Stored(server, n.data)
        BY <3>1, <3>2 DEF ListTask, Ok
      <4>3. TaskSound("orders", Waiting(n.kind, "add", Request("add", n.data, Null), n.text), server)
        BY <3>1, <4>2, ListSent
      <4> QED
        BY <1>4, <3>1, <4>1, <4>3, ListLeft
    <3>3. CASE ~Ok(t)
      <4>1. End(t)
        BY <2>2, <3>3 DEF PrefillCreated
      <4> QED
        BY <1>2, <1>3, <3>1, <4>1, ListLeft
    <3> QED
      BY <3>2, <3>3
  <2>3. CASE PrefillAdded(t)
    <3>1. ListTask(n, server) /\ n.kind = "prefill" /\ n.at = "add" /\ UNCHANGED server
      BY <1>1, <2>3 DEF PrefillAdded
    <3>2. CASE Ok(t)
      <4>1. Show(Loading) /\ Send(t, "reload", Request("list", n.request.id, Null))
        BY <2>3, <3>2 DEF PrefillAdded
      <4>2. Filled(server, n.request.id)
        BY <3>1, <3>2 DEF ListTask, Ok
      <4>3. TaskSound("orders",
              Waiting(n.kind, "reload", Request("list", n.request.id, Null), n.text), server)
        BY <3>1, <4>2, ListSent
      <4>4. Left \/ ListStays(Loading)
        BY <1>4, <4>1, <4>3, ListStaysSet DEF Loading
      <4> QED
        BY <1>4, <3>1, <4>1, <4>3, <4>4, ListLeft DEF Show
    <3>3. CASE ~Ok(t)
      <4>1. UNCHANGED ui /\ End(t)
        BY <2>3, <3>3 DEF PrefillAdded
      <4> QED
        BY <1>2, <1>3, <3>1, <4>1, ListLeft
    <3> QED
      BY <3>2, <3>3
  <2>4. CASE PrefillOpened(t)
    <3>1. /\ ListTask(n, server) /\ n.at = "reload"
          /\ ui' = Gone("prefilled", n.request.id) /\ End(t) /\ UNCHANGED server
      BY <1>1, <2>4 DEF PrefillOpened
    <3>2. Filled(server, n.request.id)
      BY <3>1 DEF ListTask
    <3> QED
      BY <1>2, <3>1, <3>2, ListLeads
  <2>5. CASE ListAnswered(t)
    <3>1. n.kind \in {"confirm", "delete"} /\ UNCHANGED server
      BY <1>1, <2>5 DEF ListAnswered
    <3>2. CASE Ok(t)
      <4>1. Show(Loading) /\ Send(t, "refresh", ListRequest)
        BY <2>5, <3>2 DEF ListAnswered
      <4>2. TaskSound("orders", Waiting(n.kind, "refresh", ListRequest, n.text), server)
        BY <3>1, ListSent
      <4>3. Left \/ ListStays(Loading)
        BY <1>4, <4>1, <4>2, ListStaysSet DEF Loading
      <4> QED
        BY <1>4, <3>1, <4>1, <4>2, <4>3, ListLeft DEF Show
    <3>3. CASE ~Ok(t)
      <4>1. (Show(Untargeted(ui)) \/ UNCHANGED ui) /\ End(t)
        BY <2>5, <3>3 DEF ListAnswered
      <4>2. Left \/ (ListStays(ui) /\ ListStays(Untargeted(ui)))
        BY <1>3, <3>1, <4>1, UntargetedStays
      <4> QED
        BY <1>2, <3>1, <4>1, <4>2, ListLeft DEF Show
    <3> QED
      BY <3>2, <3>3
  <2>6. CASE DraftCreated(t)
    <3>1. n.kind = "draft" /\ End(t) /\ UNCHANGED server
      BY <1>1, <2>6 DEF DraftCreated
    <3>2. CASE Ok(t)
      <4>1. ui' = Gone("draft", Null)
        BY <2>6, <3>2 DEF DraftCreated, Push
      <4> QED
        BY <1>2, <3>1, <4>1, ListLeads
    <3>3. CASE ~Ok(t)
      <4>1. Show([ui EXCEPT !.creating = FALSE])
        BY <2>6, <3>3 DEF DraftCreated
      <4>2. ASSUME ~Left
            PROVE  ListStays([ui EXCEPT !.creating = FALSE])
        <5>1. ListState([ui EXCEPT !.creating = FALSE], ui.wanted, FALSE)
          BY <4>2, OnListPage, ListFieldSet
        <5>2. ~UnderWay("draft")' /\ (UnderWay("prefill")' <=> UnderWay("prefill"))
          BY <3>1, EndedKinds DEF Singles
        <5>3. ui.wanted \in BOOLEAN /\ (ui.wanted => ~UnderWay("prefill")' /\ Alerts(server) = {})
          BY <4>2, <5>2, OnListPage
        <5> QED
          BY <5>1, <5>2, <5>3 DEF ListStays
      <4> QED
        BY <1>2, <3>1, <4>1, <4>2, ListLeft DEF Show
    <3> QED
      BY <3>2, <3>3
  <2> QED
    BY <2>1, <2>2, <2>3, <2>4, <2>5, <2>6 DEF OrderListGoesOn
<1> QED
  BY <1>5, ListPageKeeps, QuietAlerts

-----------------------------------------------------------------------------
(* The server answers, or another client changes it.                       *)

LEMMA SameSubmissions ==
  ASSUME WebInv, UNCHANGED ui, NEW t \in Tasks, NEW n, n.kind = tasks[t].kind,
         tasks' = [tasks EXCEPT ![t] = n]
  PROVE  SubmittedOnce' /\ FlagsSound'
<1>1. \A s \in Tasks : tasks'[s].kind = tasks[s].kind
  BY HandlerReplaced DEF WebInv
<1>2. \A k : UnderWay(k)' <=> UnderWay(k)
  BY <1>1 DEF UnderWay
<1>3. SubmittedOnce'
  BY <1>1 DEF WebInv, SubmittedOnce
<1>4. FlagsSound'
  BY <1>2 DEF WebInv, FlagsSound, Flag, Left
<1> QED
  BY <1>3, <1>4

(* An answer changes no flag; an order for an alert is there for the first *)
(* time when the one handler that drafts it is answered.                   *)
LEMMA AnsweredKeeps ==
  ASSUME WebInv, UNCHANGED ui, NEW t \in Tasks, NEW answer, NEW data,
         answer # "awaited", tasks[t].answer = "awaited",
         tasks' = [tasks EXCEPT ![t] = Answered(tasks[t], answer, data)],
         ServerSound(server'), Grows(server, server'),
         TaskSound(ui.page, Answered(tasks[t], answer, data), server'),
         \/ Alerts(server') = Alerts(server)
         \/ /\ ui.page = "orders" /\ tasks[t].kind = "prefill" /\ tasks[t].at = "create"
            /\ \A i, j \in Alerts(server') \ Alerts(server) : i = j
  PROVE  WebInv'
<1> DEFINE n == Answered(tasks[t], answer, data)
<1>1. n.kind = tasks[t].kind /\ n.answer = answer
  BY DEF Answered
<1> HIDE DEF n
<1>2. /\ tasks' = [s \in Tasks |-> tasks'[s]] /\ tasks'[t] = n
      /\ \A s \in Tasks \ {t} : tasks'[s] = tasks[s]
  BY HandlerReplaced DEF WebInv, n
<1>3. UiSound(ui, server')
  BY UiGrows DEF WebInv
<1>4. \A s \in Tasks : TaskSound(ui.page, tasks'[s], server')
  <2> TAKE s \in Tasks
  <2>1. CASE s = t
    BY <1>2, <2>1 DEF n
  <2>2. CASE s # t
    BY <1>2, <2>2, TaskGrows DEF WebInv
  <2> QED
    BY <2>1, <2>2
<1>5. SubmittedOnce' /\ FlagsSound'
  BY <1>1, SameSubmissions DEF n
<1>6. AlertsSound'
  <2>1. \A s \in Tasks : tasks'[s].answer = "awaited" => s # t /\ tasks'[s] = tasks[s]
    BY <1>1, <1>2
  <2>2. CASE Alerts(server') = Alerts(server)
    BY <2>1, <2>2 DEF WebInv, AlertsSound, Left, Alerts
  <2>3. CASE /\ ui.page = "orders" /\ tasks[t].kind = "prefill" /\ tasks[t].at = "create"
             /\ \A i, j \in Alerts(server') \ Alerts(server) : i = j
    <3>1. Alerts(server) = {}
      BY <2>3 DEF WebInv, AlertsSound
    <3>2. \A i, j \in Alerts(server') : i = j
      BY <2>3, <3>1
    <3>3. ~(~Left /\ ui.wanted)
      BY <2>3 DEF WebInv, FlagsSound, UnderWay
    <3>4. \A s \in Tasks : ~(tasks'[s].kind = "prefill" /\ tasks'[s].answer = "awaited")
      BY <2>1, <2>3 DEF WebInv, SubmittedOnce, Singles
    <3> QED
      BY <2>3, <3>2, <3>3, <3>4 DEF AlertsSound, Left, Alerts
  <2> QED
    BY <2>2, <2>3
<1> QED
  BY <1>2, <1>3, <1>4, <1>5, <1>6 DEF WebInv

LEMMA ServeInv ==
  ASSUME WebInv, NEW t \in Tasks, Serve(t)
  PROVE  WebInv'
<1> DEFINE n == tasks[t]
           r == n.request
<1>1. TaskSound(ui.page, n, server) /\ ~Idle(n) /\ n.answer = "awaited" /\ UNCHANGED ui
  BY IdleFields, NullIsNoName DEF WebInv, Serve, Answers
<1>2. RequestSound(r) /\ ServerSound(server)
      /\ n = [kind |-> n.kind, at |-> n.at, request |-> n.request, answer |-> n.answer,
              data |-> n.data, text |-> n.text]
      /\ (r.op = "create" => \/ r.arg.origin = "user"
                             \/ ui.page = "orders" /\ n.kind = "prefill" /\ n.at = "create")
  BY <1>1, SentRequest DEF WebInv
<1>3. tasks = [s \in Tasks |-> tasks[s]]
  BY DEF WebInv
<1>4. ASSUME NEW answer, NEW data
      PROVE  /\ [tasks EXCEPT ![t].answer = answer]
                  = [tasks EXCEPT ![t] = Answered(n, answer, n.data)]
             /\ [tasks EXCEPT ![t].answer = answer, ![t].data = data]
                  = [tasks EXCEPT ![t] = Answered(n, answer, data)]
  <2>1. [n EXCEPT !.answer = answer] = Answered(n, answer, n.data)
    BY <1>2 DEF Answered
  <2> DEFINE failed == Answered(n, answer, n.data)
  <2>2. [failed EXCEPT !.data = data] = Answered(n, answer, data)
    BY DEF Answered
  <2> HIDE DEF failed
  <2> HIDE DEF n
  <2>3. [tasks EXCEPT ![t].answer = answer] = [tasks EXCEPT ![t] = failed]
    BY <1>3, <2>1 DEF n, failed
  <2> DEFINE told == [tasks EXCEPT ![t].answer = answer]
  <2>4. told[t] = failed /\ DOMAIN told = DOMAIN tasks
    BY <1>3, <2>3
  <2>5. [told EXCEPT ![t].data = data] = [told EXCEPT ![t] = [failed EXCEPT !.data = data]]
    BY <2>4
  <2>6. [told EXCEPT ![t] = Answered(n, answer, data)]
          = [tasks EXCEPT ![t] = Answered(n, answer, data)]
    OBVIOUS
  <2> QED
    BY <2>2, <2>3, <2>5, <2>6 DEF failed
<1>5. \A answer \in {"failed", "unauthorized"} : TaskSound(ui.page, Answered(n, answer, n.data), server)
  BY <1>1, FailedTask
<1>6. CASE /\ server' = After(r)
           /\ \/ tasks' = [tasks EXCEPT ![t].answer = "ok", ![t].data = Data(r, server')]
              \/ tasks' = [tasks EXCEPT ![t].answer = "failed"]
  <2>1. /\ ServerSound(server') /\ Grows(server, server')
        /\ r.op # "create" \/ r.arg.origin # "alert" => Alerts(server') = Alerts(server)
        /\ \A i, j \in Alerts(server') \ Alerts(server) : i = j
    BY <1>2, <1>6, ServedServer
  <2>2. \/ Alerts(server') = Alerts(server)
        \/ /\ ui.page = "orders" /\ n.kind = "prefill" /\ n.at = "create"
           /\ \A i, j \in Alerts(server') \ Alerts(server) : i = j
    BY <1>2, <2>1
  <2>3. CASE tasks' = [tasks EXCEPT ![t].answer = "ok", ![t].data = Data(r, server')]
    <3>1. TaskSound(ui.page, Answered(n, "ok", Data(r, server')), server')
      BY <1>1, <1>2, <1>6, ServedTask
    <3>2. tasks' = [tasks EXCEPT ![t] = Answered(n, "ok", Data(r, server'))]
      BY <1>4, <2>3
    <3> QED
      BY <1>1, <2>1, <2>2, <3>1, <3>2, AnsweredKeeps
  <2>4. CASE tasks' = [tasks EXCEPT ![t].answer = "failed"]
    <3>1. tasks' = [tasks EXCEPT ![t] = Answered(n, "failed", n.data)]
      BY <1>4, <2>4
    <3>2. TaskSound(ui.page, Answered(n, "failed", n.data), server')
      BY <1>5, <2>1, TaskGrows
    <3> QED
      BY <1>1, <2>1, <2>2, <3>1, <3>2, AnsweredKeeps
  <2> QED
    BY <1>6, <2>3, <2>4
<1>7. ASSUME NEW answer \in {"failed", "unauthorized"},
             tasks' = [tasks EXCEPT ![t].answer = answer], UNCHANGED server
      PROVE  WebInv'
  <2>1. tasks' = [tasks EXCEPT ![t] = Answered(n, answer, n.data)]
    BY <1>4, <1>7
  <2>2. TaskSound(ui.page, Answered(n, answer, n.data), server')
    BY <1>5, <1>7
  <2>3. ServerSound(server') /\ Grows(server, server') /\ Alerts(server') = Alerts(server)
    BY <1>2, <1>7, GrowsReflexive
  <2>4. answer # "awaited"
    BY <1>7
  <2> QED
    BY <1>1, <2>1, <2>2, <2>3, <2>4, AnsweredKeeps
<1> QED
  BY <1>6, <1>7 DEF Serve

LEMMA OthersInv ==
  ASSUME WebInv, Others
  PROVE  WebInv'
<1>1. PICK id \in 1 .. Len(server.orders) : \E op \in {"ordered", "receive", "delete"} :
        server' = [After(Request(op, id, Null)) EXCEPT !.others = @ + 1]
  BY DEF Others
<1>2. PICK op \in {"ordered", "receive", "delete"} :
        server' = [After(Request(op, id, Null)) EXCEPT !.others = @ + 1]
  BY <1>1
<1> DEFINE r == Request(op, id, Null)
           s == After(r)
<1>3. RequestSound(r) /\ r.op # "create"
  BY DEF Request, RequestSound
<1> HIDE DEF r
<1>4. ServerSound(s) /\ Grows(server, s) /\ Alerts(s) = Alerts(server)
  BY <1>3, ServedServer DEF WebInv
<1>5. server' = [s EXCEPT !.others = @ + 1]
  BY <1>2 DEF r
<1> HIDE DEF s
<1>6. /\ server'.orders = s.orders /\ server'.titles = s.titles
      /\ server' = [orders |-> server'.orders, titles |-> server'.titles, stock |-> server'.stock,
                    others |-> server'.others]
  BY <1>4, <1>5 DEF ServerSound
<1>7. ServerSound(server') /\ Grows(server, server') /\ Alerts(server') = Alerts(server)
  BY <1>4, <1>6 DEF ServerSound, Grows, Alerts, Stored, Filled, Placed
<1>8. UNCHANGED <<tasks, ui>>
  BY DEF Others
<1>9. UiSound(ui, server') /\ \A t \in Tasks : TaskSound(ui.page, tasks[t], server')
  BY <1>7, UiGrows, TaskGrows DEF WebInv
<1>10. SubmittedOnce' /\ FlagsSound' /\ AlertsSound'
  BY <1>7, <1>8 DEF WebInv, SubmittedOnce, FlagsSound, AlertsSound, Flag, UnderWay, Left, Alerts
<1> QED
  BY <1>7, <1>8, <1>9, <1>10 DEF WebInv

-----------------------------------------------------------------------------
(* The front end.                                                          *)

LEMMA WebInvInit == WebInit => WebInv
<1> SUFFICES ASSUME WebInit PROVE WebInv
  OBVIOUS
<1>1. PICK lines \in 0 .. 1 : server = FirstServer(lines)
  BY DEF WebInit
<1>2. ServerSound(server) /\ Alerts(server) = {}
  <2>1. NewOrder(1, lines, "user") \in Order /\ NewOrder(1, lines, "user").origin = "user"
        /\ NewOrder(1, lines, "user").title = 1
    <3>1. lines \in Nat
      OBVIOUS
    <3> QED
      BY <3>1, NewOrders DEF NewOrder
  <2> DEFINE o == NewOrder(1, lines, "user")
  <2>2. /\ server = [orders |-> <<o>>, titles |-> {<<1, 1>>},
                     stock |-> [i \in Items |-> 0], others |-> 0]
        /\ server.orders = <<o>> /\ server.titles = {<<1, 1>>}
    BY <1>1 DEF FirstServer
  <2> HIDE DEF o
  <2>3. <<o>> \in Seq(Order) /\ DOMAIN <<o>> = {1} /\ <<o>>[1] = o
    BY <2>1 DEF o
  <2>4. o.origin = "user" /\ o.title = 1
    BY <2>1 DEF o
  <2> QED
    BY <2>2, <2>3, <2>4 DEF ServerSound, Stored, Alerts
<1>3. tasks = [t \in Tasks |-> tasks[t]]
      /\ \A t \in Tasks : tasks[t] \in {FirstLoad(ui), NoTask}
  BY DEF WebInit
<1>4. \A t \in Tasks : tasks[t].kind \in {"load", "none"} /\ tasks[t].at # "create"
  <2>1. FirstLoad(ui).kind = "load" /\ FirstLoad(ui).at = "refresh"
    BY DEF FirstLoad, Waiting
  <2>2. NoTask.kind = "none" /\ NoTask.at = "none"
    BY DEF NoTask
  <2> QED
    BY <1>3, <2>1, <2>2
<1>5. SubmittedOnce /\ \A k \in Singles : ~UnderWay(k)
  BY <1>4 DEF SubmittedOnce, UnderWay, Singles
<1>6. UiSound(ui, server) /\ FlagsSound /\ TaskSound(ui.page, FirstLoad(ui), server)
  <2>1. CASE ui = OrderPageStart
    <3>1. OrderUi(ui, server) /\ ui.page = "order"
      <4>1. ui.order = Null /\ ui.title \in Nat
        BY <2>1 DEF OrderPageStart, Blank
      <4> QED
        BY <2>1, <4>1, NullIsNoName DEF OrderPageStart, OrderUi, Destinations
    <3>2. FlagsSound
      BY <3>1 DEF FlagsSound, AccountPageNames
    <3> QED
      BY <3>1, <3>2, OrderSent DEF UiSound, FirstLoad
  <2>2. ASSUME NEW wanted \in BOOLEAN, ui = OrderListStart(wanted)
        PROVE  UiSound(ui, server) /\ FlagsSound /\ TaskSound(ui.page, FirstLoad(ui), server)
    <3>1. ListUi(ui, server) /\ ui.page = "orders" /\ ui.creating = FALSE
      BY <2>2, NullIsNoName DEF OrderListStart, ListUi, Destinations
    <3>2. FlagsSound
      BY <1>5, <3>1 DEF FlagsSound, AccountPageNames, Flag, Singles
    <3> QED
      BY <3>1, <3>2, ListSent DEF UiSound, FirstLoad
  <2>3. CASE ui = ItemsStart
    <3>1. ItemsUi(ui) /\ ui.page = "items" /\ ui.adjusting = FALSE /\ ui.submitting = FALSE
      BY <2>3 DEF ItemsStart, ItemsUi
    <3>2. FlagsSound
      BY <1>5, <3>1 DEF FlagsSound, AccountPageNames, Flag, Singles
    <3> QED
      BY <3>1, <3>2, ItemsSent DEF UiSound, FirstLoad, ListRequest, SeedRequest
  <2>4. CASE ui = DashboardStart
    <3>1. DashboardUi(ui, server) /\ ui.page = "dashboard" /\ ui.submitting = FALSE
      BY <2>4, NullIsNoName DEF DashboardStart, DashboardUi, Destinations
    <3>2. FlagsSound
      BY <1>5, <3>1 DEF FlagsSound, AccountPageNames, Flag, Singles
    <3> QED
      BY <3>1, <3>2, DashboardSent DEF UiSound, FirstLoad, ListRequest, DashboardRequest
  <2>5. ASSUME NEW page \in AccountPageNames, ui = AccountPageStart(page)
        PROVE  UiSound(ui, server) /\ FlagsSound /\ TaskSound(ui.page, FirstLoad(ui), server)
    <3>1. AccountUi(ui) /\ ui.page = page /\ ui.submitting = {}
      BY <2>5 DEF AccountPageStart, AccountUi
    <3>2. FlagsSound
      BY <1>5, <3>1 DEF FlagsSound, AccountPageNames, AccountForms, Singles
    <3> QED
      BY <3>1, <3>2, AccountSent DEF UiSound, FirstLoad, ListRequest, PageRequest, AccountPageNames
  <2> QED
    BY <2>1, <2>2, <2>3, <2>4, <2>5 DEF WebInit, Pages, AccountPageNames
<1>7. \A t \in Tasks : TaskSound(ui.page, tasks[t], server)
  BY <1>3, <1>6 DEF TaskSound, Idle
<1>8. AlertsSound
  BY <1>2, <1>4 DEF AlertsSound
<1> QED
  BY <1>2, <1>3, <1>5, <1>6, <1>7, <1>8 DEF WebInv

(* Each page is moved by its own user and its own handlers.                *)
LEMMA UserOnItsPage ==
  ASSUME User
  PROVE  \/ ui.page = "order" /\ OrderPageUser
         \/ ui.page = "orders" /\ OrderListUser
         \/ ui.page = "items" /\ ItemsUser
         \/ ui.page = "dashboard" /\ DashboardUser
         \/ ui.page \in AccountPageNames /\ AccountPagesUser
<1>1. OrderPageUser => ui.page = "order"
  BY DEF OrderPageUser, LoadAgain, TypeTitle, EditMetadata, ConfirmMetadataEdit, SaveDraftAndLeave,
     ConfirmOrder, Leave, DiscardAndLeave, OpenDialog, CloseDialog, SubmitDialog, OrderShown, On
<1>2. OrderListUser => ui.page = "orders"
  BY DEF OrderListUser, LoadOrders, ConfirmListed, ConfirmDelete, DeleteOrder, OpenCreateDraft,
     CreateDraft, OpenListed, ListShown, On
<1>3. ItemsUser => ui.page = "items"
  BY DEF ItemsUser, LoadSeed, OpenItemDialog, CloseItemDialog, SubmitForm, DeleteItem,
     SubmitStockAdjust, OpenLedger, ItemsShown, On
<1>4. DashboardUser => ui.page = "dashboard"
  BY DEF DashboardUser, LoadDashboard, QuickOrderDialog, HandleSubmit, On
<1>5. AccountPagesUser => ui.page \in AccountPageNames
  BY DEF AccountPagesUser, ReloadPage, GoToOrderDraft, SettingsDialog, SubmitAccountForm,
     HandleLogout, OnAccountPage, On, AccountPageNames
<1> QED
  BY <1>1, <1>2, <1>3, <1>4, <1>5 DEF User

LEMMA GoesOnItsPage ==
  ASSUME WebInv, NEW t \in Tasks, GoesOn(t)
  PROVE  \/ ui.page = "order" /\ OrderPageGoesOn(t)
         \/ ui.page = "orders" /\ OrderListGoesOn(t)
         \/ ui.page = "items" /\ ItemsGoesOn(t)
         \/ ui.page = "dashboard" /\ DashboardGoesOn(t)
         \/ ui.page \in AccountPageNames /\ AccountPagesGoesOn(t)
<1>1. CASE OrderPageGoesOn(t)
  <2>1. ui.page = "order"
    <3>1. CASE Refreshed(t) \/ UpdateOrderStatus(t)
      BY <3>1 DEF Refreshed, UpdateOrderStatus
    <3>2. CASE SaveAnswered(t)
      BY <3>2, Handler, HandlersPage DEF SaveAnswered, Saving
    <3>3. CASE SaveReloaded(t)
      BY <3>3, Handler, HandlersPage DEF SaveReloaded, Saving
    <3>4. CASE DialogAnswered(t)
      BY <3>4, Handler, HandlersPage DEF DialogAnswered
    <3> QED
      BY <1>1, <3>1, <3>2, <3>3, <3>4 DEF OrderPageGoesOn
  <2> QED
    BY <1>1, <2>1
<1>2. CASE OrderListGoesOn(t)
  BY <1>2, Handler, HandlersPage DEF OrderListGoesOn, OrdersRefreshed, PrefillCreated,
     PrefillAdded, PrefillOpened, ListAnswered, DraftCreated
<1>3. CASE ItemsGoesOn(t)
  BY <1>3, Handler, HandlersPage DEF ItemsGoesOn, SeedRefreshed, ItemsAnswered, LedgerRead
<1>4. CASE DashboardGoesOn(t)
  BY <1>4, Handler, HandlersPage DEF DashboardGoesOn, DashboardRefreshed, QuickCreated,
     QuickConfirmed
<1>5. CASE AccountPagesGoesOn(t)
  BY <1>5, Handler, HandlersPage DEF AccountPagesGoesOn, PageRefreshed, AccountFormAnswered,
     LoggedOut, AccountPageNames
<1> QED
  BY <1>1, <1>2, <1>3, <1>4, <1>5 DEF GoesOn

LEMMA WebInvNext == WebInv /\ [WebNext]_webVars => WebInv'
<1> SUFFICES ASSUME WebInv, [WebNext]_webVars PROVE WebInv'
  OBVIOUS
<1>1. CASE User
  BY <1>1, OrderPageUserInv, OrderListUserInv, ItemsUserInv, DashboardUserInv, AccountPagesUserInv
     DEF User
<1>2. CASE Prefill
  BY <1>2, PrefillInv
<1>3. CASE Others
  BY <1>3, OthersInv
<1>4. ASSUME NEW t \in Tasks, Serve(t)
      PROVE  WebInv'
  BY <1>4, ServeInv
<1>5. ASSUME NEW t \in Tasks, GoesOn(t)
      PROVE  WebInv'
  BY <1>5, GoesOnItsPage, OrderPageGoesOnInv, OrderListGoesOnInv, ItemsGoesOnInv,
     DashboardGoesOnInv, AccountPagesGoesOnInv
<1>6. CASE UNCHANGED webVars
  BY <1>6 DEF webVars, WebInv, SubmittedOnce, FlagsSound, AlertsSound, Flag, UnderWay, Left, Alerts
<1> QED
  BY <1>1, <1>2, <1>3, <1>4, <1>5, <1>6 DEF WebNext

-----------------------------------------------------------------------------
(* A title that is being saved: from the request on, until the order has   *)
(* been read again, one handler at a time holds the page's saving flag,    *)
(* and nothing else on the page changes the title that it has stored.      *)
Saves(n) == n.kind \in Saving /\ n.at \in {"save", "reload"}
PastSave(n) == n.at = "reload" \/ n.answer = "ok"

SavesSound ==
  \A t \in Tasks :
    Saves(tasks[t]) =>
      /\ \A s \in Tasks : Saves(tasks[s]) => s = t
      /\ ~Left => ui.saving = TRUE
      /\ PastSave(tasks[t]) => server.orders[1].title = tasks[t].text

LEMMA SavesOnItsPage ==
  ASSUME NEW page, NEW n, NEW s, TaskSound(page, n, s), Saves(n)
  PROVE  page = "order" /\ OrderTask(n, s)
<1>1. ~Idle(n)
  BY IdleFields DEF Saves, Saving
<1>2. ~ListTask(n, s)
  BY DEF Saves, Saving, ListTask, Task, ListPlaces
<1>3. ~ItemsTask(n) /\ ~DashboardTask(n, s) /\ ~AccountTask(n)
  BY DEF Saves, Saving, ItemsTask, DashboardTask, AccountTask, Task, ItemsPlaces,
     DashboardPlaces, AccountPlaces
<1> QED
  BY <1>1, <1>2, <1>3 DEF TaskSound

LEMMA NoSavesElsewhere ==
  ASSUME WebInv', ui'.page # "order"
  PROVE  SavesSound'
BY SavesOnItsPage DEF WebInv, SavesSound

(* A step in which no handler starts to save or gets past its save.        *)
LEMMA SavesKept ==
  ASSUME SavesSound, server'.orders[1].title = server.orders[1].title,
         ~Left' => ~Left /\ ui'.saving = ui.saving,
         \A t \in Tasks :
           Saves(tasks'[t]) =>
             /\ Saves(tasks[t]) /\ tasks'[t].text = tasks[t].text
             /\ PastSave(tasks'[t]) => PastSave(tasks[t])
  PROVE  SavesSound'
BY DEF SavesSound

(* The handler that moves does not save.                                   *)
QuietMove == UNCHANGED tasks \/ \E t \in Tasks : \E n : tasks' = [tasks EXCEPT ![t] = n] /\ ~Saves(n)

LEMMA QuietSaves ==
  ASSUME WebInv, QuietMove, NEW s \in Tasks, Saves(tasks'[s])
  PROVE  tasks'[s] = tasks[s]
<1>1. CASE UNCHANGED tasks
  BY <1>1
<1>2. ASSUME NEW t \in Tasks, NEW n, tasks' = [tasks EXCEPT ![t] = n], ~Saves(n)
      PROVE  tasks'[s] = tasks[s]
  BY <1>2, HandlerReplaced DEF WebInv
<1> QED
  BY <1>1, <1>2 DEF QuietMove

LEMMA QuietStep ==
  ASSUME WebInv, SavesSound, UNCHANGED server, QuietMove,
         ~Left' => ~Left /\ ui'.saving = ui.saving
  PROVE  SavesSound'
BY QuietSaves, SavesKept

LEMMA BeginQuietly ==
  ASSUME NEW kind, NEW at, NEW r, NEW text, Begin(kind, at, r, text), at \notin {"save", "reload"}
  PROVE  QuietMove
<1> DEFINE n == Waiting(kind, at, r, text)
<1>1. PICK t \in Tasks : tasks' = [tasks EXCEPT ![t] = n]
  BY DEF Begin
<1>2. ~Saves(n)
  BY DEF Waiting, Saves
<1> HIDE DEF n
<1> QED
  BY <1>1, <1>2 DEF QuietMove

LEMMA SendQuietly ==
  ASSUME NEW t \in Tasks, NEW at, NEW r, Send(t, at, r), at \notin {"save", "reload"}
  PROVE  QuietMove
<1> DEFINE n == Waiting(tasks[t].kind, at, r, tasks[t].text)
<1>1. tasks' = [tasks EXCEPT ![t] = n]
  BY DEF Send
<1>2. ~Saves(n)
  BY DEF Waiting, Saves
<1> HIDE DEF n
<1> QED
  BY <1>1, <1>2 DEF QuietMove

LEMMA EndQuietly ==
  ASSUME NEW t \in Tasks, End(t)
  PROVE  QuietMove
<1> DEFINE n == [NoTask EXCEPT !.kind = "ended"]
<1>1. tasks' = [tasks EXCEPT ![t] = n]
  BY DEF End
<1>2. ~Saves(n)
  BY DEF NoTask, Saves, Saving
<1> HIDE DEF n
<1> QED
  BY <1>1, <1>2 DEF QuietMove

(* The one handler that saves has ended, or moved on.                      *)
LEMMA SaveIsOver ==
  ASSUME WebInv, SavesSound, NEW t \in Tasks, Saves(tasks[t]), NEW n, ~Saves(n),
         tasks' = [tasks EXCEPT ![t] = n]
  PROVE  SavesSound'
<1>1. \A s \in Tasks : ~Saves(tasks'[s])
  BY HandlerReplaced DEF WebInv, SavesSound
<1> QED
  BY <1>1 DEF SavesSound

-----------------------------------------------------------------------------
(* The saving flag of the page of an order.                                *)
LEMMA SavingFlag ==
  ASSUME NEW u, NEW s, OrderState(u, s), NEW x
  PROVE  /\ [u EXCEPT !.loading = x].saving = u.saving
         /\ [u EXCEPT !.editing = x].saving = u.saving
         /\ [u EXCEPT !.dialog = x].saving = u.saving
         /\ [u EXCEPT !.title = x].saving = u.saving
         /\ [u EXCEPT !.order = x].saving = u.saving
         /\ [u EXCEPT !.saving = x].saving = x
BY DEF OrderState

LEMMA DetailLoadedFlag ==
  ASSUME NEW t \in Tasks, OrderTask(tasks[t], server), tasks[t].request = DetailRequest,
         tasks[t].answer \in {"ok", "failed", "unauthorized"},
         NEW u, OrderState(u, server), DetailLoaded(t, u).to = Null
  PROVE  DetailLoaded(t, u).saving = u.saving
<1> DEFINE order == tasks[t].data
           dialog == IF u.dialog = "add" /\ order.status # "draft" THEN "none" ELSE u.dialog
           fresh == [u EXCEPT !.order = order, !.title = order.title, !.dialog = dialog]
<1>1. DetailLoaded(t, u) = Loaded(t, u, fresh)
  BY DEF DetailLoaded
<1>2. CASE tasks[t].answer = "ok"
  <2>1. order \in Order /\ <<1, order.title>> \in server.titles
    BY <1>2 DEF OrderTask
  <2>2. order.title \in Nat
    BY <2>1 DEF Order
  <2> DEFINE v == [u EXCEPT !.order = order]
  <2>3. OrderState(v, server) /\ v.saving = u.saving
    BY <2>1, OrderFieldSet, SavingFlag
  <2> DEFINE w == [v EXCEPT !.title = order.title]
  <2> HIDE DEF v
  <2>4. OrderState(w, server) /\ w.saving = u.saving
    BY <2>2, <2>3, OrderFieldSet, SavingFlag
  <2> HIDE DEF w
  <2>5. fresh = [w EXCEPT !.dialog = dialog]
    BY DEF v, w
  <2> HIDE DEF dialog
  <2>6. OrderState([w EXCEPT !.dialog = dialog], server) /\ [w EXCEPT !.dialog = dialog].saving = u.saving
    BY <2>4, OrderFieldSet, SavingFlag
  <2> HIDE DEF fresh
  <2>7. DetailLoaded(t, u) = [fresh EXCEPT !.loading = FALSE]
    BY <1>1, <1>2 DEF Loaded, Ok
  <2> QED
    BY <2>5, <2>6, <2>7, SavingFlag
<1>3. CASE tasks[t].answer = "failed"
  <2>1. DetailLoaded(t, u) = [u EXCEPT !.loading = FALSE]
    BY <1>1, <1>3 DEF Loaded, Ok
  <2> QED
    BY <2>1, SavingFlag
<1>4. CASE tasks[t].answer = "unauthorized"
  <2>1. DetailLoaded(t, u).to = "login"
    BY <1>1, <1>4 DEF Loaded, Ok, Gone
  <2> QED
    BY <2>1, NullIsNoName DEF Destinations
<1> QED
  BY <1>2, <1>3, <1>4

(* A save begins when none is under way.                                   *)
LEMMA SaveBegins ==
  ASSUME WebInv, SavesSound, On("order"), ~ui.saving, NEW kind \in Saving, SaveDraft(kind)
  PROVE  SavesSound'
<1>1. ~Left /\ OrderState(ui, server)
  BY OnOrderPage DEF On, Left
<1>2. \A s \in Tasks : ~Saves(tasks[s])
  BY <1>1 DEF SavesSound
<1>3. CASE HasUnsavedDraft
  <2> DEFINE n == Waiting(kind, "save", Request("title", 1, ui.title), ui.title)
  <2>1. PICK t \in Tasks : tasks' = [tasks EXCEPT ![t] = n]
    BY <1>3 DEF SaveDraft, Begin
  <2>2. ui'.saving = TRUE
    <3>1. ui' = [ui EXCEPT !.saving = TRUE]
      BY <1>3 DEF SaveDraft
    <3> QED
      BY <1>1, <3>1, SavingFlag
  <2>3. ~PastSave(n)
    BY DEF PastSave, Waiting
  <2> HIDE DEF n
  <2>4. \A s \in Tasks : Saves(tasks'[s]) => s = t /\ ~PastSave(tasks'[s])
    BY <1>2, <2>1, <2>3, HandlerReplaced DEF WebInv
  <2> QED
    BY <2>2, <2>4 DEF SavesSound
<1>4. CASE ~HasUnsavedDraft
  <2>1. QuietMove
    <3>1. UNCHANGED tasks \/ Begin(kind, "status", Request("ordered", 1, Null), ui.title)
      BY <1>4 DEF SaveDraft, Saving
    <3> QED
      BY <3>1, BeginQuietly DEF QuietMove
  <2>2. \A s \in Tasks : ~Saves(tasks'[s])
    BY <1>2, <2>1, QuietSaves
  <2> QED
    BY <2>2 DEF SavesSound
<1> QED
  BY <1>3, <1>4

LEMMA OrderPageUserSaves ==
  ASSUME WebInv, SavesSound, ui.page = "order", OrderPageUser
  PROVE  SavesSound'
<1> USE DEF OrderShown, NoDialog
<1>1. On("order")
  BY DEF OrderPageUser, LoadAgain, TypeTitle, EditMetadata, ConfirmMetadataEdit,
     SaveDraftAndLeave, ConfirmOrder, Leave, DiscardAndLeave, OpenDialog, CloseDialog, SubmitDialog, On
<1>2. OrderState(ui, server) /\ ~Left
  BY <1>1, OnOrderPage DEF On, Left
<1>3. CASE ConfirmMetadataEdit \/ SaveDraftAndLeave \/ ConfirmOrder
  BY <1>1, <1>3, SaveBegins DEF ConfirmMetadataEdit, SaveDraftAndLeave, ConfirmOrder, Saving
<1>4. CASE Leave \/ DiscardAndLeave
  <2>1. UNCHANGED server /\ QuietMove
    BY <1>4 DEF Leave, DiscardAndLeave, QuietMove
  <2>2. ui' = [ui EXCEPT !.dialog = "leave"] \/ ui' = Gone("away", Null)
    BY <1>4 DEF Leave, DiscardAndLeave, Push
  <2>3. ~Left' => ui'.saving = ui.saving
    <3>1. CASE ui' = [ui EXCEPT !.dialog = "leave"]
      BY <1>2, <3>1, SavingFlag
    <3>2. CASE ui' = Gone("away", Null)
      BY <3>2, NullIsNoName DEF Gone, Left, Destinations
    <3> QED
      BY <2>2, <3>1, <3>2
  <2> QED
    BY <1>2, <2>1, <2>3, QuietStep
<1>5. CASE LoadAgain \/ TypeTitle \/ EditMetadata \/ OpenDialog \/ CloseDialog \/ SubmitDialog
  <2>1. UNCHANGED server
    BY <1>5 DEF LoadAgain, TypeTitle, EditMetadata, OpenDialog, CloseDialog, SubmitDialog
  <2>2. QuietMove
    BY <1>5, BeginQuietly
       DEF LoadAgain, TypeTitle, EditMetadata, OpenDialog, CloseDialog, SubmitDialog, QuietMove
  <2>3. ui'.saving = ui.saving
    <3>1. CASE LoadAgain
      BY <1>2, <3>1, SavingFlag DEF LoadAgain, Loading
    <3>2. CASE TypeTitle
      BY <1>2, <3>2, SavingFlag DEF TypeTitle
    <3>3. CASE EditMetadata
      <4>1. CASE ui' = [ui EXCEPT !.editing = TRUE]
        BY <1>2, <4>1, SavingFlag
      <4>2. CASE ui' = [ui EXCEPT !.editing = FALSE, !.title = ui.order.title]
        <5> DEFINE u == [ui EXCEPT !.editing = FALSE]
        <5>1. OrderState(u, server) /\ u.saving = ui.saving
          BY <1>2, OrderFieldSet, SavingFlag
        <5>2. ui' = [u EXCEPT !.title = ui.order.title]
          BY <4>2
        <5> HIDE DEF u
        <5> QED
          BY <5>1, <5>2, SavingFlag
      <4> QED
        BY <3>3, <4>1, <4>2 DEF EditMetadata
    <3>4. CASE OpenDialog
      BY <1>2, <3>4, SavingFlag DEF OpenDialog
    <3>5. CASE CloseDialog
      BY <1>2, <3>5, SavingFlag DEF CloseDialog
    <3>6. CASE SubmitDialog
      BY <3>6 DEF SubmitDialog
    <3> QED
      BY <1>5, <3>1, <3>2, <3>3, <3>4, <3>5, <3>6
  <2> QED
    BY <1>2, <2>1, <2>2, <2>3, QuietStep
<1> QED
  BY <1>3, <1>4, <1>5 DEF OrderPageUser

(* A handler of the page that does not save, and shows new in the end.     *)
LEMMA QuietHandler ==
  ASSUME WebInv, SavesSound, UNCHANGED server, QuietMove, NEW new, Show(new) \/ UNCHANGED ui,
         ~Left /\ new.to = Null => new.saving = ui.saving
  PROVE  SavesSound'
<1>1. ~Left' => ~Left /\ ui'.saving = ui.saving
  BY DEF Show, Left
<1> QED
  BY <1>1, QuietStep

LEMMA OrderPageGoesOnSaves ==
  ASSUME WebInv, SavesSound, ui.page = "order", NEW t \in Tasks, OrderPageGoesOn(t)
  PROVE  SavesSound'
<1> DEFINE n == tasks[t]
<1>1. ~Left => OrderState(ui, server)
  BY OnOrderPage DEF On, Left
<1>2. CASE Refreshed(t)
  <2>1. OrderTask(n, server) /\ n.request = DetailRequest
        /\ n.answer \in {"ok", "failed", "unauthorized"}
    BY <1>2, OrderHandler DEF Refreshed, OrderTask
  <2>2. ~Left /\ DetailLoaded(t, ui).to = Null => DetailLoaded(t, ui).saving = ui.saving
    BY <1>1, <2>1, DetailLoadedFlag
  <2>3. QuietMove /\ UNCHANGED server /\ Show(DetailLoaded(t, ui))
    BY <1>2, EndQuietly DEF Refreshed
  <2> QED
    BY <2>2, <2>3, QuietHandler
<1>3. CASE SaveAnswered(t)
  <2>1. Saves(n)
    BY <1>3, OrderHandler DEF SaveAnswered, Saves, Saving
  <2>2. CASE Ok(t)
    <3> DEFINE m == Waiting(n.kind, "reload", DetailRequest, n.text)
    <3>1. tasks' = [tasks EXCEPT ![t] = m] /\ Show(Loading) /\ UNCHANGED server
      BY <1>3, <2>2 DEF SaveAnswered, Send
    <3>2. m.text = n.text /\ PastSave(n)
      BY <2>2 DEF Waiting, PastSave, Ok
    <3> HIDE DEF m
    <3>3. \A s \in Tasks :
            Saves(tasks'[s]) =>
              /\ Saves(tasks[s]) /\ tasks'[s].text = tasks[s].text
              /\ PastSave(tasks'[s]) => PastSave(tasks[s])
      BY <2>1, <3>1, <3>2, HandlerReplaced DEF WebInv
    <3>4. ~Left' => ~Left /\ ui'.saving = ui.saving
      BY <1>1, <3>1, SavingFlag DEF Show, Left, Loading
    <3> QED
      BY <3>1, <3>3, <3>4, SavesKept
  <2>3. CASE ~Ok(t)
    <3>1. tasks' = [tasks EXCEPT ![t] = [NoTask EXCEPT !.kind = "ended"]]
      BY <1>3, <2>3 DEF SaveAnswered, End
    <3>2. ~Saves([NoTask EXCEPT !.kind = "ended"])
      BY DEF NoTask, Saves, Saving
    <3> QED
      BY <2>1, <3>1, <3>2, SaveIsOver
  <2> QED
    BY <2>2, <2>3
<1>4. CASE SaveReloaded(t)
  <2>1. Saves(n) /\ n.kind \in Saving
    BY <1>4, OrderHandler DEF SaveReloaded, Saves, Saving
  <2>2. End(t) \/ Send(t, "status", Request("ordered", 1, Null))
    BY <1>4, <2>1 DEF SaveReloaded, Saving
  <2>3. PICK m : tasks' = [tasks EXCEPT ![t] = m] /\ ~Saves(m)
    BY <2>2 DEF End, Send, Waiting, NoTask, Saves, Saving
  <2> QED
    BY <2>1, <2>3, SaveIsOver
<1>5. CASE UpdateOrderStatus(t)
  <2>1. QuietMove /\ UNCHANGED server /\ (Show(Loading) \/ UNCHANGED ui)
    BY <1>5, SendQuietly, EndQuietly DEF UpdateOrderStatus
  <2>2. ~Left => Loading.saving = ui.saving
    BY <1>1, SavingFlag DEF Loading
  <2> QED
    BY <2>1, <2>2, QuietHandler
<1>6. CASE DialogAnswered(t)
  <2>1. PICK dialog : Show([Loading EXCEPT !.dialog = dialog]) \/ UNCHANGED ui
    BY <1>6 DEF DialogAnswered
  <2>2. QuietMove /\ UNCHANGED server
    BY <1>6, SendQuietly, EndQuietly DEF DialogAnswered
  <2>3. ~Left => OrderState(Loading, server) /\ Loading.saving = ui.saving
    BY <1>1, OrderFieldSet, SavingFlag DEF Loading
  <2>4. ~Left => [Loading EXCEPT !.dialog = dialog].saving = ui.saving
    BY <2>3, SavingFlag
  <2> QED
    BY <2>1, <2>2, <2>4, QuietHandler
<1> QED
  BY <1>2, <1>3, <1>4, <1>5, <1>6 DEF OrderPageGoesOn

(* The server answers one handler, which stays where it is.                *)
LEMMA ServedKeeps ==
  ASSUME WebInv, NEW t \in Tasks, Serve(t)
  PROVE  /\ \A s \in Tasks \ {t} : tasks'[s] = tasks[s]
         /\ tasks'[t].kind = tasks[t].kind /\ tasks'[t].at = tasks[t].at
         /\ tasks'[t].text = tasks[t].text
         /\ tasks'[t].answer = "ok" => server' = After(tasks[t].request)
         /\ UNCHANGED server \/ server' = After(tasks[t].request)
<1> DEFINE n == tasks[t]
<1>1. TaskSound(ui.page, n, server) /\ ~Idle(n)
  BY IdleFields, NullIsNoName DEF WebInv, Serve, Answers
<1>2. n = [kind |-> n.kind, at |-> n.at, request |-> n.request, answer |-> n.answer,
           data |-> n.data, text |-> n.text]
  BY <1>1, SentRequest
<1> QED
  BY <1>2 DEF Serve, WebInv

(* The server stores the title of the one handler that saves, and an       *)
(* answer to any other request leaves it alone.                            *)
LEMMA ServeSaves ==
  ASSUME WebInv, SavesSound, NEW t \in Tasks, Serve(t)
  PROVE  SavesSound'
<1> DEFINE n == tasks[t]
           r == n.request
<1>1. TaskSound(ui.page, n, server) /\ ~Idle(n) /\ n.answer = "awaited" /\ UNCHANGED ui
  BY IdleFields, NullIsNoName DEF WebInv, Serve, Answers
<1>2. RequestSound(r) /\ ServerSound(server)
  BY <1>1, SentRequest DEF WebInv
<1>3. /\ \A s \in Tasks \ {t} : tasks'[s] = tasks[s]
      /\ tasks'[t].kind = n.kind /\ tasks'[t].at = n.at /\ tasks'[t].text = n.text
      /\ tasks'[t].answer = "ok" => server' = After(r)
      /\ UNCHANGED server \/ server' = After(r)
  BY ServedKeeps
<1>4. \A s \in Tasks : Saves(tasks'[s]) => Saves(tasks[s]) /\ tasks'[s].text = tasks[s].text
  BY <1>3 DEF Saves
<1>5. server' = After(r) =>
         server'.orders[1].title = IF r.op = "title" /\ r.id = 1 THEN r.arg ELSE server.orders[1].title
  <2> DEFINE q == r
  <2>1. RequestSound(q) /\ ServerSound(server)
    BY <1>2
  <2> HIDE DEF q
  <2>2. TitlesKept(server, After(q), q)
    BY <2>1, ServedServer
  <2>3. Stored(server, 1)
    BY <2>1 DEF ServerSound, Stored
  <2> DEFINE v == After(q)
  <2> HIDE DEF v
  <2>4. v.orders[1].title = IF q.op = "title" /\ q.id = 1 THEN q.arg ELSE server.orders[1].title
    BY <2>2, <2>3 DEF TitlesKept, v
  <2> QED
    BY <2>4 DEF q, v
<1>6. ~Left' <=> ~Left
  BY <1>1 DEF Left
<1>7. CASE server'.orders[1].title = server.orders[1].title /\ ~(Saves(n) /\ n.at = "save")
  <2>1. \A s \in Tasks : Saves(tasks'[s]) /\ PastSave(tasks'[s]) => PastSave(tasks[s])
    BY <1>3, <1>7 DEF Saves, PastSave
  <2> QED
    BY <1>1, <1>4, <1>6, <1>7, <2>1, SavesKept
<1>8. CASE Saves(n) /\ n.at = "save"
  <2>1. r = Request("title", 1, n.text)
    BY <1>1, <1>8, SavesOnItsPage DEF OrderTask
  <2>2. server' = After(r) => server'.orders[1].title = n.text
    <3>1. r.op = "title" /\ r.id = 1 /\ r.arg = n.text
      BY <2>1 DEF Request
    <3> QED
      BY <1>5, <3>1
  <2>3. \A s \in Tasks : Saves(tasks'[s]) => s = t
    BY <1>4, <1>8 DEF SavesSound
  <2>4. PastSave(tasks'[t]) => server'.orders[1].title = tasks'[t].text
    BY <1>3, <1>8, <2>2 DEF PastSave
  <2> QED
    BY <1>1, <1>6, <1>8, <2>3, <2>4 DEF SavesSound
<1>9. CASE ~(Saves(n) /\ n.at = "save")
  <2>1. CASE ui.page = "order"
    <3>1. r.op # "title"
      BY <1>1, <1>9, <2>1 DEF TaskSound, AccountPageNames, OrderTask, Task, OrderPlaces, Saves,
         Saving, DetailRequest, Request
    <3>2. server' = After(r) => server'.orders[1].title = server.orders[1].title
      BY <1>5, <3>1
    <3> QED
      BY <1>3, <1>7, <1>9, <3>2
  <2>2. CASE ui.page # "order"
    <3>1. WebInv'
      BY ServeInv
    <3> QED
      BY <1>1, <2>2, <3>1, NoSavesElsewhere
  <2> QED
    BY <2>1, <2>2
<1> QED
  BY <1>8, <1>9

LEMMA OthersSaves ==
  ASSUME WebInv, SavesSound, Others
  PROVE  SavesSound'
<1>1. PICK id \in 1 .. Len(server.orders) : \E op \in {"ordered", "receive", "delete"} :
        server' = [After(Request(op, id, Null)) EXCEPT !.others = @ + 1]
  BY DEF Others
<1>2. PICK op \in {"ordered", "receive", "delete"} :
        server' = [After(Request(op, id, Null)) EXCEPT !.others = @ + 1]
  BY <1>1
<1> DEFINE r == Request(op, id, Null)
           s == After(r)
<1>3. RequestSound(r) /\ r.op # "title"
  BY DEF Request, RequestSound
<1>4. server' = [s EXCEPT !.others = @ + 1]
  BY <1>2
<1> HIDE DEF r
<1>5. ServerSound(s) /\ s.orders[1].title = server.orders[1].title
  BY <1>3, ServedServer DEF WebInv, TitlesKept, ServerSound
<1> HIDE DEF s
<1>6. server'.orders = s.orders
  BY <1>4, <1>5 DEF ServerSound
<1>7. UNCHANGED <<tasks, ui>>
  BY DEF Others
<1> QED
  BY <1>5, <1>6, <1>7, SavesKept DEF Left

SavesInv == WebInv /\ SavesSound

LEMMA SavesInvInit == WebInit => SavesInv
<1> SUFFICES ASSUME WebInit PROVE SavesSound
  BY WebInvInit DEF SavesInv
<1>1. \A t \in Tasks : tasks[t] \in {FirstLoad(ui), NoTask}
  BY DEF WebInit
<1>2. ~Saves(FirstLoad(ui)) /\ ~Saves(NoTask)
  BY DEF FirstLoad, Waiting, NoTask, Saves
<1> QED
  BY <1>1, <1>2 DEF SavesSound

LEMMA SavesInvNext == SavesInv /\ [WebNext]_webVars => SavesInv'
<1> SUFFICES ASSUME SavesInv, [WebNext]_webVars PROVE SavesSound'
  BY WebInvNext DEF SavesInv
<1>1. WebInv /\ SavesSound /\ WebInv'
  BY WebInvNext DEF SavesInv
<1>2. CASE User
  BY <1>1, <1>2, UserOnItsPage, OrderPageUserSaves, OrderListUserInv, ItemsUserInv,
     DashboardUserInv, AccountPagesUserInv, NoSavesElsewhere DEF AccountPageNames
<1>3. CASE Prefill
  BY <1>1, <1>3, PrefillInv, NoSavesElsewhere DEF Prefill, ListShown, On
<1>4. CASE Others
  BY <1>1, <1>4, OthersSaves
<1>5. ASSUME NEW t \in Tasks, Serve(t)
      PROVE  SavesSound'
  BY <1>1, <1>5, ServeSaves
<1>6. ASSUME NEW t \in Tasks, GoesOn(t)
      PROVE  SavesSound'
  BY <1>1, <1>6, GoesOnItsPage, OrderPageGoesOnSaves, OrderListGoesOnInv, ItemsGoesOnInv,
     DashboardGoesOnInv, AccountPagesGoesOnInv, NoSavesElsewhere DEF AccountPageNames
<1>7. CASE UNCHANGED webVars
  BY <1>1, <1>7 DEF webVars, SavesSound, Left
<1> QED
  BY <1>2, <1>3, <1>4, <1>5, <1>6, <1>7 DEF WebNext

-----------------------------------------------------------------------------
(* The step that asks for an order to be confirmed.                        *)

AsksToConfirm(t) ==
  ui.page = "order" /\ tasks'[t].kind = "confirm" /\ tasks'[t].at = "status" /\ tasks[t].at # "status"

LEMMA NotAsked ==
  ASSUME WebInv, NEW t \in Tasks, AsksToConfirm(t), NEW s \in Tasks, NEW n,
         tasks' = [tasks EXCEPT ![s] = n]
  PROVE  s = t /\ tasks'[t] = n /\ n.at = "status"
BY HandlerReplaced DEF WebInv, AsksToConfirm

LEMMA UserAsks ==
  ASSUME WebInv, OrderPageUser, NEW t \in Tasks, AsksToConfirm(t)
  PROVE  tasks[t].kind = "none" /\ ~HasUnsavedDraft
<1>1. ASSUME NEW kind, NEW at, NEW r, NEW text, Begin(kind, at, r, text)
      PROVE  at = "status" /\ tasks[t].kind = "none"
  <2> DEFINE n == Waiting(kind, at, r, text)
  <2>1. PICK s \in Tasks : tasks[s].kind = "none" /\ tasks' = [tasks EXCEPT ![s] = n]
    BY <1>1 DEF Begin, Free
  <2>2. n.at = at
    BY DEF Waiting
  <2> HIDE DEF n
  <2> QED
    BY <2>1, <2>2, NotAsked
<1>2. ~UNCHANGED tasks
  BY DEF AsksToConfirm
<1>3. CASE LoadAgain \/ TypeTitle \/ EditMetadata \/ Leave \/ DiscardAndLeave \/ OpenDialog
           \/ CloseDialog \/ SubmitDialog
  BY <1>1, <1>2, <1>3 DEF LoadAgain, TypeTitle, EditMetadata, Leave, DiscardAndLeave, OpenDialog,
     CloseDialog, SubmitDialog
<1>4. ASSUME NEW kind \in Saving, SaveDraft(kind)
      PROVE  tasks[t].kind = "none" /\ ~HasUnsavedDraft
  BY <1>1, <1>2, <1>4 DEF SaveDraft, Saving
<1> QED
  BY <1>3, <1>4 DEF OrderPageUser, ConfirmMetadataEdit, SaveDraftAndLeave, ConfirmOrder, Saving

LEMMA HandlerAsks ==
  ASSUME WebInv, SavesSound, NEW s \in Tasks, OrderPageGoesOn(s), NEW t \in Tasks, AsksToConfirm(t)
  PROVE  server.orders[1].title = tasks'[t].text
<1>1. ~End(s)
  BY NotAsked DEF End, NoTask
<1>2. ASSUME NEW at, NEW r, Send(s, at, r)
      PROVE  at = "status" /\ s = t /\ tasks'[t].text = tasks[s].text
  <2> DEFINE n == Waiting(tasks[s].kind, at, r, tasks[s].text)
  <2>1. tasks' = [tasks EXCEPT ![s] = n]
    BY <1>2 DEF Send
  <2>2. n.at = at /\ n.text = tasks[s].text
    BY DEF Waiting
  <2> HIDE DEF n
  <2> QED
    BY <2>1, <2>2, NotAsked
<1>3. SaveReloaded(s)
  BY <1>1, <1>2 DEF OrderPageGoesOn, Refreshed, SaveAnswered, UpdateOrderStatus, DialogAnswered
<1>4. Saves(tasks[s]) /\ PastSave(tasks[s])
  BY <1>3 DEF SaveReloaded, At, Saves, Saving, PastSave
<1>5. tasks'[t].text = tasks[s].text
  BY <1>1, <1>2, <1>3, <1>4 DEF SaveReloaded, Saves, Saving
<1> QED
  BY <1>4, <1>5 DEF SavesSound

LEMMA AsksAsSaved ==
  ASSUME SavesInv, WebNext, NEW t \in Tasks, AsksToConfirm(t)
  PROVE  \/ server.orders[1].title = tasks'[t].text
         \/ tasks[t].kind = "none" /\ ~HasUnsavedDraft
<1>1. ui.page = "order" /\ ui.page \notin AccountPageNames
  BY DEF AsksToConfirm, AccountPageNames
<1>2. CASE User
  BY <1>1, <1>2, UserOnItsPage, UserAsks DEF SavesInv
<1>3. ~Prefill
  BY <1>1 DEF Prefill, ListShown, On
<1>4. ~Others
  BY DEF Others, AsksToConfirm
<1>5. ASSUME NEW s \in Tasks, Serve(s)
      PROVE  FALSE
  <2>1. tasks'[t].at = tasks[t].at
    BY <1>5, ServedKeeps DEF SavesInv
  <2> QED
    BY <2>1 DEF AsksToConfirm
<1>6. ASSUME NEW s \in Tasks, GoesOn(s)
      PROVE  server.orders[1].title = tasks'[t].text
  BY <1>1, <1>6, GoesOnItsPage, HandlerAsks DEF SavesInv
<1> QED
  BY <1>2, <1>3, <1>4, <1>5, <1>6 DEF WebNext

-----------------------------------------------------------------------------
(* Every step of every page, of the server and of other clients keeps what *)
(* the handlers and the pages know.                                        *)
THEOREM WebInvHolds == WebSpec => []WebInv
BY WebInvInit, WebInvNext, PTL DEF WebSpec

(* saveDraft and the dialog that asks before leaving: a title the user     *)
(* saves on leaving is in the database when the page has gone.             *)
THEOREM TitlesAreSavedBeforeLeaving == WebSpec => []SavedBeforeLeaving
<1>1. WebInv => SavedBeforeLeaving
  BY NullIsNoName
     DEF WebInv, UiSound, OrderUi, ListUi, ItemsUi, DashboardUi, AccountUi, Destinations,
         SavedBeforeLeaving
<1> QED
  BY <1>1, WebInvHolds, PTL

(* handleConfirmOrder: a confirmation that saves the title first is sent   *)
(* while that title is the one stored, though it can be typed on while the *)
(* save is under way; one that saves nothing, with nothing unsaved shown.  *)
THEOREM OrdersAreConfirmedAsSaved == WebSpec => ConfirmedAsSaved
<1>1. SavesInv /\ [WebNext]_webVars =>
        [\A t \in Tasks :
           /\ ui.page = "order" /\ tasks'[t].kind = "confirm" /\ tasks'[t].at = "status"
           /\ tasks[t].at # "status"
           => \/ server.orders[1].title = tasks'[t].text
              \/ tasks[t].kind = "none" /\ ~HasUnsavedDraft]_webVars
  BY AsksAsSaved DEF AsksToConfirm
<1> QED
  BY <1>1, SavesInvInit, SavesInvNext, PTL DEF WebSpec, ConfirmedAsSaved

(* The effect that drafts an order for an alert: one order however often   *)
(* the list loads and whatever fails, and it is opened with its item.      *)
THEOREM AlertsDraftOneOrder == WebSpec => []PrefillDraftsOnce
<1>1. WebInv => PrefillDraftsOnce
  <2> SUFFICES ASSUME WebInv PROVE PrefillDraftsOnce
    OBVIOUS
  <2>1. \A i, j \in Alerts(server) : i = j
    BY DEF WebInv, AlertsSound
  <2>2. ui.to = "prefilled" => Filled(server, ui.result)
    BY NullIsNoName
       DEF WebInv, UiSound, OrderUi, ListUi, ItemsUi, DashboardUi, AccountUi, Destinations
  <2> QED
    BY <2>1, <2>2 DEF PrefillDraftsOnce, Alerts, Filled
<1> QED
  BY <1>1, WebInvHolds, PTL

(* handleSubmit of the quick order: an order it was asked to confirm is    *)
(* opened as such only when it has left the drafts.                        *)
THEOREM QuickOrdersTellTheTruth == WebSpec => []QuickOrderReportsTruth
<1>1. WebInv => QuickOrderReportsTruth
  BY NullIsNoName
     DEF WebInv, UiSound, OrderUi, ListUi, ItemsUi, DashboardUi, AccountUi, Destinations, Placed,
         QuickOrderReportsTruth
<1> QED
  BY <1>1, WebInvHolds, PTL

(* The flags that disable the buttons of the forms: two submissions of one *)
(* form never overlap, and no button stays disabled without a submission.  *)
THEOREM FlagsFollowSubmissions == WebSpec => []FlagsMatchSubmissions
<1>1. WebInv => FlagsMatchSubmissions
  <2> SUFFICES ASSUME WebInv PROVE FlagsMatchSubmissions
    OBVIOUS
  <2>1. \A t, u \in Submissions({"draft", "form", "adjust", "quick", "login", "addUser", "reset"}) :
          tasks[t].kind = tasks[u].kind => t = u
    BY DEF WebInv, SubmittedOnce, Singles, Submissions
  <2>2. \A flag, kind : Flag(flag, kind) => flag = (Submissions({kind}) # {})
    BY DEF Flag, UnderWay, Submissions
  <2>3. /\ ~Left /\ ui.page = "orders" => Flag(ui.creating, "draft")
        /\ ~Left /\ ui.page = "items" =>
             Flag(ui.adjusting, "adjust") /\ Flag(ui.submitting, "form")
        /\ ~Left /\ ui.page = "dashboard" => Flag(ui.submitting, "quick")
    BY DEF WebInv, FlagsSound
  <2> QED
    BY <2>1, <2>2, <2>3 DEF FlagsMatchSubmissions
<1> QED
  BY <1>1, WebInvHolds, PTL
=============================================================================
