------------------------------- MODULE ItemsPage -------------------------------
(***************************************************************************)
(* The catalogue (items/page.tsx): items are created, edited and deleted,  *)
(* their stock is adjusted and its ledger shown.                           *)
(***************************************************************************)
EXTENDS WebClient

ItemsStart ==
  [page |-> "items", to |-> Null, loading |-> TRUE, error |-> FALSE, dialog |-> "none",
   item |-> Null, submitting |-> FALSE, adjusting |-> FALSE, reading |-> FALSE]

SeedRequest == Request("list", 0, Null)
ItemsShown == On("items") /\ ~ui.loading /\ ~ui.error

SeedLoading == [Loading EXCEPT !.error = FALSE]

(* loadSeed: every change of the filters asks again.                       *)
LoadSeed ==
  /\ On("items") /\ ui.dialog = "none"
  /\ ui' = SeedLoading
  /\ Begin("load", "refresh", SeedRequest, Null)
  /\ UNCHANGED server

(* The flags of a submission that has ended.                               *)
Released(t) ==
  [ui EXCEPT !.submitting = @ /\ tasks[t].kind # "form",
             !.adjusting = @ /\ tasks[t].kind # "adjust"]

(* A deletion that has reloaded closes whatever deletion is asked for by   *)
(* then.                                                                   *)
Settled(t) ==
  [Released(t) EXCEPT !.dialog = IF tasks[t].kind = "remove" /\ @ = "remove" THEN "none" ELSE @]

SeedRefreshed(t) ==
  /\ At(t, {"load", "form", "remove", "adjust"}, "refresh") /\ ui.page = "items"
  /\ Show(Loaded(t, [Settled(t) EXCEPT !.error = TRUE], Settled(t)))
  /\ End(t)
  /\ UNCHANGED server
-----------------------------------------------------------------------------
(* The dialogs, one at a time; they can be closed while a request is under *)
(* way, and opened again for another item.                                 *)
OpenItemDialog ==
  /\ On("items") /\ ui.dialog = "none"
  /\ \/ ui' = [ui EXCEPT !.dialog = "form"]
     \/ /\ ItemsShown
        /\ \/ ui' = [ui EXCEPT !.dialog = "remove"]
           \/ \E i \in Items : ui' = [ui EXCEPT !.dialog = "stock", !.item = i]
  /\ UNCHANGED <<server, tasks>>

CloseItemDialog ==
  /\ On("items") /\ ui.dialog # "none"
  /\ ui' = [ui EXCEPT !.dialog = "none", !.item = Null]
  /\ UNCHANGED <<server, tasks>>

SubmitForm ==
  /\ On("items") /\ ui.dialog = "form" /\ ~ui.submitting
  /\ ui' = [ui EXCEPT !.submitting = TRUE]
  /\ Begin("form", "send", Request("submit", 0, Null), Null)
  /\ UNCHANGED server

(* The dialog of a deletion closes on the click.                           *)
DeleteItem ==
  /\ On("items") /\ ui.dialog = "remove"
  /\ ui' = [ui EXCEPT !.dialog = "none", !.item = Null]
  /\ Begin("remove", "send", Request("submit", 0, Null), Null)
  /\ UNCHANGED server

SubmitStockAdjustUnguarded ==   \* mutant: a second click is not held back
  /\ On("items") /\ ui.dialog = "stock"
  /\ ui' = [ui EXCEPT !.adjusting = TRUE]
  /\ Begin("adjust", "send", Request("adjust", ui.item, Null), Null)
  /\ UNCHANGED server

SubmitStockAdjust ==
  /\ On("items") /\ ui.dialog = "stock" /\ ~ui.adjusting
  /\ ui' = [ui EXCEPT !.adjusting = TRUE]
  /\ Begin("adjust", "send", Request("adjust", ui.item, Null), Null)
  /\ UNCHANGED server

(* A submission that succeeds closes the dialog, whatever item it shows by *)
(* then; one that fails releases its button.                               *)
Closing(kind) == CASE kind = "form" -> "form" [] kind = "adjust" -> "stock" [] OTHER -> "none"

ItemsAnswered(t) ==
  /\ At(t, {"form", "remove", "adjust"}, "send") /\ ui.page = "items"
  /\ IF Ok(t)
     THEN /\ Show(IF ui.dialog = Closing(tasks[t].kind)
                  THEN [SeedLoading EXCEPT !.dialog = "none", !.item = Null] ELSE SeedLoading)
          /\ Send(t, "refresh", SeedRequest)
     ELSE Show(Released(t)) /\ End(t)
  /\ UNCHANGED server
-----------------------------------------------------------------------------
(* The ledger of an item is read while its dialog is open.                 *)
OpenLedger ==
  /\ ItemsShown /\ ui.dialog = "none"
  /\ ui' = [ui EXCEPT !.dialog = "ledger", !.reading = TRUE]
  /\ Begin("ledger", "read", Request("ledger", 0, Null), Null)
  /\ UNCHANGED server

LedgerRead(t) ==
  /\ At(t, {"ledger"}, "read")
  /\ Show([ui EXCEPT !.reading = FALSE])
  /\ End(t)
  /\ UNCHANGED server
-----------------------------------------------------------------------------
ItemsUser ==
  \/ LoadSeed \/ OpenItemDialog \/ CloseItemDialog \/ SubmitForm \/ DeleteItem
  \/ SubmitStockAdjust \/ OpenLedger

ItemsGoesOn(t) == SeedRefreshed(t) \/ ItemsAnswered(t) \/ LedgerRead(t)
=============================================================================
