----------------------------- MODULE OrderListPage -----------------------------
(***************************************************************************)
(* The list of orders (orders/page.tsx): drafts are created and opened,    *)
(* orders confirmed and deleted, and an alert that leads here has an order *)
(* drafted for its item.                                                   *)
(***************************************************************************)
EXTENDS WebClient

(* wanted: the address carries the item and quantity of an alert, and no   *)
(* order has been drafted for it yet.  Items are loaded with the orders.   *)
OrderListStart(wanted) ==
  [page |-> "orders", to |-> Null, loading |-> TRUE, orders |-> << >>,
   wanted |-> wanted, creating |-> FALSE, dialog |-> "none", target |-> Null]

ListRequest == Request("list", 0, Null)
ListShown == On("orders") /\ ~ui.loading

(* loadOrders: every change of the search and the period asks again.       *)
OrdersLoaded(t, u) == Loaded(t, u, [u EXCEPT !.orders = tasks[t].data])

LoadOrders ==
  /\ On("orders") /\ ui.dialog = "none"
  /\ ui' = Loading
  /\ Begin("load", "refresh", ListRequest, Null)
  /\ UNCHANGED server

Untargeted(u) == [u EXCEPT !.target = Null, !.dialog = IF @ = "delete" THEN "none" ELSE @]

OrdersRefreshed(t) ==
  /\ At(t, {"load", "confirm", "delete"}, "refresh") /\ ui.page = "orders"
  /\ Show(OrdersLoaded(t, IF tasks[t].kind = "delete" THEN Untargeted(ui) ELSE ui))
  /\ End(t)
  /\ UNCHANGED server
-----------------------------------------------------------------------------
(* The effect that drafts an order for an alert: once per mount, when the  *)
(* first load has ended; with the items unknown there is nothing to order. *)
PrefillAgain ==   \* mutant: the effect forgets that it has run
  /\ ListShown /\ ui.wanted
  /\ ui.orders # << >> /\ Begin("prefill", "create", Request("create", 0, NewOrder(1, 0, "alert")), Null)
  /\ UNCHANGED <<server, ui>>

Prefill ==
  /\ ListShown /\ ui.wanted
  /\ ui' = [ui EXCEPT !.wanted = FALSE]
  /\ IF ui.orders # << >> THEN Begin("prefill", "create", Request("create", 0, NewOrder(1, 0, "alert")), Null)
     ELSE UNCHANGED tasks
  /\ UNCHANGED server

PrefillCreated(t) ==
  /\ At(t, {"prefill"}, "create")
  /\ IF Ok(t) THEN Send(t, "add", Request("add", tasks[t].data, Null)) ELSE End(t)
  /\ UNCHANGED <<server, ui>>

PrefillAdded(t) ==
  /\ At(t, {"prefill"}, "add")
  /\ IF Ok(t) THEN Show(Loading) /\ Send(t, "reload", Request("list", tasks[t].request.id, Null))
     ELSE UNCHANGED ui /\ End(t)
  /\ UNCHANGED server

(* The order is opened whether or not the list could be read again.        *)
PrefillOpened(t) ==
  /\ At(t, {"prefill"}, "reload")
  /\ ui' = Gone("prefilled", tasks[t].request.id)
  /\ End(t)
  /\ UNCHANGED server
-----------------------------------------------------------------------------
(* The buttons of a row: confirming is not held back while a request is    *)
(* under way.                                                              *)
ConfirmListed ==
  /\ ListShown /\ ui.dialog = "none"
  /\ \E id \in DOMAIN ui.orders :
       /\ ui.orders[id].status = "draft" /\ ui.orders[id].ordered > 0
       /\ Begin("confirm", "status", Request("ordered", id, Null), Null)
  /\ UNCHANGED <<server, ui>>

ConfirmDelete ==
  /\ ListShown /\ ui.dialog = "none"
  /\ \E id \in DOMAIN ui.orders :
       /\ ui.orders[id].status # "deleted"
       /\ ui' = [ui EXCEPT !.dialog = "delete", !.target = id]
  /\ UNCHANGED <<server, tasks>>

DeleteOrder ==
  /\ On("orders") /\ ui.dialog = "delete"
  /\ ui' = Untargeted(ui)
  /\ \/ Begin("delete", "send", Request("delete", ui.target, Null), Null)
     \/ UNCHANGED tasks
  /\ UNCHANGED server

ListAnswered(t) ==
  /\ At(t, {"confirm"}, "status") \/ At(t, {"delete"}, "send")
  /\ ui.page = "orders"
  /\ IF Ok(t) THEN Show(Loading) /\ Send(t, "refresh", ListRequest)
     ELSE /\ IF tasks[t].kind = "delete" THEN Show(Untargeted(ui)) ELSE UNCHANGED ui
          /\ End(t)
  /\ UNCHANGED server
-----------------------------------------------------------------------------
(* A new draft: one at a time.  Its dialog can be closed while the draft   *)
(* is being created, but not opened.                                       *)
OpenCreateDraft ==
  /\ On("orders")
  /\ \/ ui.dialog = "none" /\ ~ui.creating /\ ui' = [ui EXCEPT !.dialog = "create"]
     \/ ui.dialog = "create" /\ ui' = [ui EXCEPT !.dialog = "none"]
  /\ UNCHANGED <<server, tasks>>

CreateDraft ==
  /\ On("orders") /\ ui.dialog = "create" /\ ~ui.creating
  /\ Begin("draft", "create", Request("create", 0, NewOrder(1, 0, "user")), Null)
  /\ ui' = [ui EXCEPT !.creating = TRUE]
  /\ UNCHANGED server

DraftCreated(t) ==
  /\ At(t, {"draft"}, "create")
  /\ IF Ok(t) THEN Push("draft")
     ELSE Show([ui EXCEPT !.creating = FALSE])
  /\ End(t)
  /\ UNCHANGED server

OpenListed ==
  /\ ListShown /\ ui.dialog = "none" /\ ui.orders # << >>
  /\ Push("order")
  /\ UNCHANGED <<server, tasks>>
-----------------------------------------------------------------------------
OrderListUser ==
  \/ LoadOrders \/ ConfirmListed \/ ConfirmDelete \/ DeleteOrder
  \/ OpenCreateDraft \/ CreateDraft \/ OpenListed

OrderListGoesOn(t) ==
  \/ OrdersRefreshed(t) \/ PrefillCreated(t) \/ PrefillAdded(t) \/ PrefillOpened(t)
  \/ ListAnswered(t) \/ DraftCreated(t)

(* An alert drafts one order at most, however often the page loads, and    *)
(* the order is opened only when it holds the item.                        *)
PrefillDraftsOnce ==
  LET drafted == {id \in DOMAIN server.orders : server.orders[id].origin = "alert"} IN
  /\ \A i, j \in drafted : i = j
  /\ ui.to = "prefilled" => server.orders[ui.result].ordered > 0
=============================================================================
