----------------------------- MODULE DashboardPage -----------------------------
(***************************************************************************)
(* The dashboard (dashboard/page.tsx) and its dialog that orders the items *)
(* that run low at once: one request creates the order with its lines, a   *)
(* second one confirms it when that was asked for.                         *)
(***************************************************************************)
EXTENDS WebClient

DashboardStart ==
  [page |-> "dashboard", to |-> Null, loading |-> TRUE, data |-> FALSE,
   dialog |-> "none", selected |-> TRUE, submitting |-> FALSE]

DashboardRequest == Request("list", 0, Null)

DashboardLoaded(t) == Loaded(t, ui, [ui EXCEPT !.data = TRUE])

LoadDashboard ==
  /\ On("dashboard") /\ ui.dialog = "none"
  /\ ui' = Loading
  /\ Begin("load", "refresh", DashboardRequest, Null)
  /\ UNCHANGED server

DashboardRefreshed(t) ==
  /\ At(t, {"load"}, "refresh") /\ ui.page = "dashboard"
  /\ Show(DashboardLoaded(t))
  /\ End(t)
  /\ UNCHANGED server
-----------------------------------------------------------------------------
(* Opening the dialog selects every item that runs low; it can be closed   *)
(* while its request is under way.                                         *)
QuickOrderDialog ==
  /\ On("dashboard") /\ ui.data
  /\ \/ /\ ui.dialog = "none" /\ ~ui.loading
        /\ ui' = [ui EXCEPT !.dialog = "quick", !.selected = TRUE]
     \/ ui.dialog = "quick" /\ ui' = [ui EXCEPT !.dialog = "none"]
     \/ /\ ui.dialog = "quick" /\ ~ui.submitting
        /\ ui' = [ui EXCEPT !.selected = ~@]
  /\ UNCHANGED <<server, tasks>>

HandleSubmit ==
  /\ On("dashboard") /\ ui.dialog = "quick" /\ ui.selected /\ ~ui.submitting
  /\ ui' = [ui EXCEPT !.submitting = TRUE]
  /\ \E confirm \in BOOLEAN :
       Begin("quick", "create", Request("create", 0, NewOrder(1, 1, "user")), confirm)
  /\ UNCHANGED server

(* onSuccess: the order is opened, from whatever page the user is on.      *)
Opened(t, id) == ui' = Gone(IF tasks[t].text THEN "confirmed" ELSE "draft", id)

QuickCreated(t) ==
  /\ At(t, {"quick"}, "create")
  /\ IF Ok(t) /\ tasks[t].text
     THEN Send(t, "confirm", Request("ordered", tasks[t].data, Null)) /\ UNCHANGED ui
     ELSE /\ End(t)
          /\ IF Ok(t) THEN Opened(t, tasks[t].data)
             ELSE Show([ui EXCEPT !.submitting = FALSE])
  /\ UNCHANGED server

QuickConfirmedAnyhow(t) ==   \* mutant: the answer to the confirmation is not looked at
  /\ At(t, {"quick"}, "confirm")
  /\ Opened(t, tasks[t].request.id)
  /\ End(t)
  /\ UNCHANGED server

(* A confirmation that fails keeps the dialog open, and the order a draft. *)
QuickConfirmed(t) ==
  /\ At(t, {"quick"}, "confirm")
  /\ IF Ok(t) THEN Opened(t, tasks[t].request.id)
     ELSE Show([ui EXCEPT !.submitting = FALSE])
  /\ End(t)
  /\ UNCHANGED server
-----------------------------------------------------------------------------
DashboardUser == LoadDashboard \/ QuickOrderDialog \/ HandleSubmit

DashboardGoesOn(t) == DashboardRefreshed(t) \/ QuickCreated(t) \/ QuickConfirmed(t)

(* An order that was to be confirmed is opened only when it is no draft    *)
(* any more.                                                               *)
QuickOrderReportsTruth ==
  ui.to = "confirmed" => server.orders[ui.result].status # "draft"
=============================================================================
