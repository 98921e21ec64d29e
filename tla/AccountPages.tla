------------------------------ MODULE AccountPages ------------------------------
(***************************************************************************)
(* The pages around the catalogue and the orders: the login (login/        *)
(* page.tsx), the accounts (settings/page.tsx), the alerts (alerts/        *)
(* page.tsx), and the shell around every page (components/app-shell.tsx).  *)
(***************************************************************************)
EXTENDS WebClient

AccountPageStart(page) ==
  [page |-> page, to |-> Null, loading |-> page # "login", dialog |-> "none",
   submitting |-> {}]

PageRequest == Request("list", 0, Null)
OnAccountPage == ui.page \in {"login", "settings", "alerts", "shell"} /\ ~Left

(* The settings show the error of an expired session, the others lead to   *)
(* the login.                                                              *)
PageLoaded(t, u) ==
  IF ui.page = "settings" THEN [u EXCEPT !.loading = FALSE] ELSE Loaded(t, u, u)

(* The shell reads its counts again when another page has changed stock.   *)
ReloadPage ==
  /\ OnAccountPage /\ ui.page # "login"
  /\ ui' = Loading
  /\ Begin("load", "refresh", PageRequest, Null)
  /\ UNCHANGED server

PageRefreshed(t) ==
  /\ At(t, {"load", "addUser"}, "refresh") /\ ui.page \in {"settings", "alerts", "shell"}
  /\ Show(PageLoaded(t, [ui EXCEPT !.submitting = @ \ {tasks[t].kind}]))
  /\ End(t)
  /\ UNCHANGED server

(* An alert leads to an order of its item, with the quantity suggested.    *)
GoToOrderDraft ==
  /\ On("alerts") /\ ~ui.loading
  /\ Push("prefill")
  /\ UNCHANGED <<server, tasks>>
-----------------------------------------------------------------------------
SettingsDialog ==
  /\ On("settings")
  /\ \E dialog \in {"none", "addUser", "reset"} :
       (dialog = "none" \/ ui.dialog = "none") /\ ui' = [ui EXCEPT !.dialog = dialog]
  /\ UNCHANGED <<server, tasks>>

(* The forms of the login and of the accounts: each has one submission at  *)
(* a time.                                                                 *)
SubmitAccountForm ==
  /\ OnAccountPage
  /\ \E kind \in {"login", "addUser", "reset"} :
       /\ IF kind = "login" THEN ui.page = "login" ELSE ui.page = "settings" /\ ui.dialog = kind
       /\ kind \notin ui.submitting
       /\ ui' = [ui EXCEPT !.submitting = @ \cup {kind}]
       /\ Begin(kind, "send", Request("submit", 0, Null), Null)
  /\ UNCHANGED server

AccountFormAnswered(t) ==
  /\ At(t, {"login", "addUser", "reset"}, "send")
  /\ CASE Ok(t) /\ tasks[t].kind = "addUser" ->
            /\ Show([Loading EXCEPT !.dialog = IF @ = "addUser" THEN "none" ELSE @])
            /\ Send(t, "refresh", PageRequest)
       [] Ok(t) /\ tasks[t].kind = "login" ->
            Push("dashboard") /\ End(t)
       [] OTHER -> Show([ui EXCEPT !.submitting = @ \ {tasks[t].kind}]) /\ End(t)
  /\ UNCHANGED server

(* The logout leads to the login whatever its answer.                      *)
HandleLogout ==
  /\ On("shell")
  /\ Begin("logout", "send", Request("submit", 0, Null), Null)
  /\ UNCHANGED <<server, ui>>

LoggedOut(t) ==
  /\ At(t, {"logout"}, "send")
  /\ Push("login")
  /\ End(t)
  /\ UNCHANGED server
-----------------------------------------------------------------------------
AccountPagesUser ==
  ReloadPage \/ GoToOrderDraft \/ SettingsDialog \/ SubmitAccountForm \/ HandleLogout

AccountPagesGoesOn(t) == PageRefreshed(t) \/ AccountFormAnswered(t) \/ LoggedOut(t)
=============================================================================
