------------------------------ MODULE WebFrontend ------------------------------
(***************************************************************************)
(* The web front end: one page is mounted, with the handlers of its user   *)
(* and of its effects, against the server that other clients use as well.  *)
(***************************************************************************)
EXTENDS OrderPage, OrderListPage, ItemsPage, DashboardPage, AccountPages

FirstServer(lines) ==
  [orders |-> << NewOrder(1, lines, "user") >>, titles |-> {<<1, 1>>},
   stock |-> [i \in Items |-> 0], others |-> 0]

Pages ==
  {OrderPageStart, OrderListStart(FALSE), OrderListStart(TRUE), ItemsStart, DashboardStart}
  \cup {AccountPageStart(page) : page \in {"login", "settings", "alerts", "shell"}}

FirstLoad(page) ==
  IF page.page = "order" THEN Waiting("load", "refresh", DetailRequest, Null)
  ELSE Waiting("load", "refresh", ListRequest, Null)

WebInit ==
  /\ \E lines \in 0 .. 1 : server = FirstServer(lines)
  /\ ui \in Pages
  /\ tasks = [t \in Tasks |-> IF ui.loading /\ \A s \in Tasks : t <= s THEN FirstLoad(ui)
                              ELSE NoTask]

User == OrderPageUser \/ OrderListUser \/ ItemsUser \/ DashboardUser \/ AccountPagesUser

GoesOn(t) ==
  \/ OrderPageGoesOn(t) \/ OrderListGoesOn(t) \/ ItemsGoesOn(t)
  \/ DashboardGoesOn(t) \/ AccountPagesGoesOn(t)

WebNext == User \/ Prefill \/ Others \/ \E t \in Tasks : Serve(t) \/ GoesOn(t)

(* Every call is answered or fails, and a handler goes on when it is.      *)
WebSpec ==
  /\ WebInit /\ [][WebNext]_webVars
  /\ \A t \in Tasks : WF_webVars(Serve(t)) /\ WF_webVars(GoesOn(t))
-----------------------------------------------------------------------------
Submissions(kinds) == {t \in Tasks : tasks[t].kind \in kinds}

(* The flag that disables a button lasts exactly as long as its submission *)
(* does: two submissions of one form never overlap, and no form stays      *)
(* disabled when its submission is gone.                                   *)
FlagsMatchSubmissions ==
  /\ \A t, u \in Submissions({"draft", "form", "adjust", "quick", "login", "addUser", "reset"}) :
       tasks[t].kind = tasks[u].kind => t = u
  /\ ~Left /\ ui.page = "items" =>
       /\ ui.adjusting = (Submissions({"adjust"}) # {})
       /\ ui.submitting = (Submissions({"form"}) # {})
  /\ ~Left /\ ui.page = "orders" => ui.creating = (Submissions({"draft"}) # {})
  /\ ~Left /\ ui.page = "dashboard" => ui.submitting = (Submissions({"quick"}) # {})

(* A page that shows itself as loading, and an order whose title is being  *)
(* saved, do so only for a while, however their calls end.                 *)
BusyEnds ==
  /\ (~Left /\ ui.loading) ~> (Left \/ ~ui.loading)
  /\ (On("order") /\ ui.saving) ~> ~(On("order") /\ ui.saving)
=============================================================================
