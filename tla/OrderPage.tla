------------------------------- MODULE OrderPage -------------------------------
(***************************************************************************)
(* The page of one order (orders/[id]/page.tsx): its title is typed here   *)
(* and saved, its items are added, edited and received, and it is          *)
(* confirmed.  Leaving with a title that is not saved asks first.          *)
(***************************************************************************)
EXTENDS WebClient

OrderPageStart ==
  [page |-> "order", to |-> Null, loading |-> TRUE, order |-> Null,
   title |-> Blank, editing |-> FALSE, saving |-> FALSE, dialog |-> "none"]

DetailRequest == Request("detail", 1, Null)

HasUnsavedDraft == ui.order # Null /\ ui.title # ui.order.title

(* The page shows a skeleton while it loads.                               *)
OrderShown == On("order") /\ ~ui.loading /\ ui.order # Null
NoDialog == ui.dialog = "none"

(* The answer to a load; a new order resets the title, and closes the      *)
(* dialog that adds items unless it is a draft.                            *)
DetailLoaded(t, u) ==
  LET order == tasks[t].data IN
  Loaded(t, u, [u EXCEPT !.order = order, !.title = order.title,
                         !.dialog = IF @ = "add" /\ order.status # "draft" THEN "none" ELSE @])

Refreshed(t) ==
  /\ At(t, {"load", "add", "edit", "receive", "confirm"}, "refresh") /\ ui.page = "order"
  /\ Show(DetailLoaded(t, ui))
  /\ End(t)
  /\ UNCHANGED server

LoadAgain ==
  /\ On("order") /\ ~ui.loading /\ NoDialog
  /\ ui' = Loading
  /\ Begin("load", "refresh", DetailRequest, Null)
  /\ UNCHANGED server
-----------------------------------------------------------------------------
(* The title: its inputs stay enabled while it is being saved.             *)
TypeTitle ==
  /\ OrderShown /\ NoDialog /\ ui.editing
  /\ \E title \in Titles \cup {Blank} : ui' = [ui EXCEPT !.title = title]
  /\ UNCHANGED <<server, tasks>>

EditMetadata ==
  /\ OrderShown /\ NoDialog
  /\ \/ ui' = [ui EXCEPT !.editing = TRUE]
     \/ ui.editing /\ ~ui.saving /\ ui' = [ui EXCEPT !.editing = FALSE, !.title = ui.order.title]
  /\ UNCHANGED <<server, tasks>>

(* saveDraft: a blank title is refused, and nothing is sent for one that   *)
(* has not changed.                                                        *)
SaveDraft(kind) ==
  /\ ui.title # Blank
  /\ \/ /\ HasUnsavedDraft
        /\ ui' = [ui EXCEPT !.saving = TRUE]
        /\ Begin(kind, "save", Request("title", 1, ui.title), ui.title)
     \/ /\ ~HasUnsavedDraft
        /\ CASE kind = "metadata" -> ui' = [ui EXCEPT !.editing = FALSE] /\ UNCHANGED tasks
             [] kind = "leave" -> ui' = Gone("saved", ui.title) /\ UNCHANGED tasks
             [] kind = "confirm" ->
                  UNCHANGED ui /\ Begin(kind, "status", Request("ordered", 1, Null), ui.title)
  /\ UNCHANGED server

ConfirmMetadataEdit == OrderShown /\ NoDialog /\ ui.editing /\ ~ui.saving /\ SaveDraft("metadata")

SaveDraftAndLeave == OrderShown /\ ui.dialog = "leave" /\ ~ui.saving /\ SaveDraft("leave")

ConfirmOrderUnsaved ==   \* mutant: the order is confirmed before its title is saved
  /\ OrderShown /\ NoDialog /\ ~ui.editing /\ ~ui.saving
  /\ ui.order.status = "draft" /\ ui.order.ordered > 0
  /\ Begin("confirm", "status", Request("ordered", 1, Null), ui.title)
  /\ UNCHANGED <<server, ui>>

(* The button is there while the title is not being edited; the title may  *)
(* be unsaved all the same, when the reload after a save has failed.       *)
ConfirmOrder ==
  /\ OrderShown /\ NoDialog /\ ~ui.editing /\ ~ui.saving
  /\ ui.order.status = "draft" /\ ui.order.ordered > 0
  /\ SaveDraft("confirm")

SaveAnsweredAnyhow(t) ==   \* mutant: a save that failed counts as done
  /\ At(t, {"metadata", "leave", "confirm"}, "save")
  /\ Show(Loading)
  /\ Send(t, "reload", DetailRequest)
  /\ UNCHANGED server

SaveAnswered(t) ==
  /\ At(t, {"metadata", "leave", "confirm"}, "save")
  /\ IF Ok(t)
     THEN Show(Loading) /\ Send(t, "reload", DetailRequest)
     ELSE Show([ui EXCEPT !.saving = FALSE]) /\ End(t)
  /\ UNCHANGED server

(* A reload that fails shows its error and stops nothing.                  *)
SaveReloaded(t) ==
  /\ At(t, {"metadata", "leave", "confirm"}, "reload")
  /\ CASE tasks[t].kind = "metadata" ->
            Show(DetailLoaded(t, [ui EXCEPT !.saving = FALSE, !.editing = FALSE])) /\ End(t)
       [] tasks[t].kind = "leave" -> ui' = Gone("saved", tasks[t].text) /\ End(t)
       [] tasks[t].kind = "confirm" ->
            /\ Show(DetailLoaded(t, [ui EXCEPT !.saving = FALSE]))
            /\ Send(t, "status", Request("ordered", 1, Null))
  /\ UNCHANGED server

UpdateOrderStatus(t) ==
  /\ At(t, {"confirm"}, "status") /\ ui.page = "order"
  /\ IF Ok(t)
     THEN Show(Loading) /\ Send(t, "refresh", DetailRequest)
     ELSE UNCHANGED ui /\ End(t)
  /\ UNCHANGED server
-----------------------------------------------------------------------------
(* goToList, and any link of the shell around the page.                    *)
Leave ==
  /\ On("order") /\ NoDialog
  /\ ui' = IF HasUnsavedDraft THEN [ui EXCEPT !.dialog = "leave"] ELSE Gone("away", Null)
  /\ UNCHANGED <<server, tasks>>

DiscardAndLeave ==
  /\ OrderShown /\ ui.dialog = "leave"
  /\ Push("away")
  /\ UNCHANGED <<server, tasks>>
-----------------------------------------------------------------------------
(* Items: added and edited in a draft, received once it is confirmed.      *)
MayOpen(dialog) ==
  CASE dialog = "add" -> ui.order.status = "draft"
    [] dialog = "edit" -> ui.order.status = "draft" /\ ui.order.ordered > 0
    [] dialog = "receive" -> ui.order.status # "draft" /\ Remaining(ui.order) > 0

OpenDialog ==
  /\ OrderShown /\ NoDialog
  /\ \E dialog \in {"add", "edit", "receive"} :
       MayOpen(dialog) /\ ui' = [ui EXCEPT !.dialog = dialog]
  /\ UNCHANGED <<server, tasks>>

CloseDialog ==
  /\ OrderShown /\ ~NoDialog
  /\ ui' = [ui EXCEPT !.dialog = "none"]
  /\ UNCHANGED <<server, tasks>>

(* The buttons stay enabled while a request is under way.                  *)
SubmitDialog ==
  /\ OrderShown /\ ui.dialog \in {"add", "edit", "receive"}
  /\ ui.dialog = "add" => ui.order.status = "draft"
  /\ Begin(ui.dialog, "send", Request(ui.dialog, 1, 1), Null)
  /\ UNCHANGED <<server, ui>>

DialogAnswered(t) ==
  /\ At(t, {"add", "edit", "receive"}, "send")
  /\ IF Ok(t)
     THEN /\ Show([Loading EXCEPT !.dialog = IF @ = tasks[t].kind THEN "none" ELSE @])
          /\ Send(t, "refresh", DetailRequest)
     ELSE UNCHANGED ui /\ End(t)
  /\ UNCHANGED server
-----------------------------------------------------------------------------
OrderPageUser ==
  \/ LoadAgain \/ TypeTitle \/ EditMetadata \/ ConfirmMetadataEdit \/ SaveDraftAndLeave
  \/ ConfirmOrder \/ Leave \/ DiscardAndLeave \/ OpenDialog \/ CloseDialog \/ SubmitDialog

OrderPageGoesOn(t) ==
  \/ Refreshed(t) \/ SaveAnswered(t) \/ SaveReloaded(t) \/ UpdateOrderStatus(t)
  \/ DialogAnswered(t)

(* A title that the user saves on leaving has reached the server when the  *)
(* page is left.                                                           *)
SavedBeforeLeaving ==
  ui.to = "saved" => <<1, ui.result>> \in server.titles

(* A confirmation that saves the title first is sent only while that title *)
(* is the one stored, whatever was typed, reloaded or saved meanwhile; one *)
(* that saves nothing is sent only from a page that shows nothing unsaved. *)
ConfirmedAsSaved ==
  [][\A t \in Tasks :
       /\ ui.page = "order" /\ tasks'[t].kind = "confirm" /\ tasks'[t].at = "status"
       /\ tasks[t].at # "status"
       => \/ server.orders[1].title = tasks'[t].text
          \/ tasks[t].kind = "none" /\ ~HasUnsavedDraft]_webVars
=============================================================================
