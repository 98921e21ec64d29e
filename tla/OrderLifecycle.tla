--------------------------- MODULE OrderLifecycle ---------------------------
(***************************************************************************)
(* What the purchase-order lifecycle promises the café, whatever requests  *)
(* overlap: an order is drafted, its rows may change while it is a draft,  *)
(* and once placed they are fixed and are only received, never beyond what *)
(* was ordered.  A draft, or a placed order nothing of which was received, *)
(* may be canceled; only a draft may be discarded.  A canceled or          *)
(* discarded order never changes again.                                    *)
(*                                                                         *)
(* Whether a placed order counts as ordered, partly or fully received is   *)
(* no state of its own here: it follows from the quantities.               *)
(***************************************************************************)
EXTENDS Integers

CONSTANTS Orders, Items

VARIABLES
  phase,     \* none, draft, placed, canceled or discarded
  ordered,   \* quantity per row, 0 where the order has no row
  received   \* quantity received per row

lifecycleVars == <<phase, ordered, received>>

Phases == {"none", "draft", "placed", "canceled", "discarded"}

Empty == [i \in Items |-> 0]

Init ==
  /\ phase = [o \in Orders |-> "none"]
  /\ ordered = [o \in Orders |-> Empty]
  /\ received = [o \in Orders |-> Empty]

HasRows(o) == \E i \in Items : ordered[o][i] > 0
Untouched(o) == received[o] = Empty

(* The rows of o, and of no other order, become some quantities. *)
Rewrite(o) ==
  /\ ordered' = [ordered EXCEPT ![o] = ordered'[o]]
  /\ ordered'[o] \in [Items -> Nat]

Draft(o) ==
  /\ phase[o] = "none"
  /\ phase' = [phase EXCEPT ![o] = "draft"]
  /\ Rewrite(o)
  /\ UNCHANGED received

(* Rows of a draft come and change; none goes. *)
Amend(o) ==
  /\ phase[o] = "draft"
  /\ Rewrite(o)
  /\ \A i \in Items : ordered[o][i] > 0 => ordered'[o][i] > 0
  /\ UNCHANGED <<phase, received>>

Place(o) ==
  /\ phase[o] = "draft"
  /\ HasRows(o)
  /\ phase' = [phase EXCEPT ![o] = "placed"]
  /\ UNCHANGED <<ordered, received>>

Receive(o) ==
  /\ phase[o] = "placed"
  /\ \E i \in Items :
       \E qty \in 1 .. ordered[o][i] - received[o][i] :
         received' = [received EXCEPT ![o][i] = @ + qty]
  /\ UNCHANGED <<phase, ordered>>

Cancel(o) ==
  /\ phase[o] \in {"draft", "placed"}
  /\ Untouched(o)
  /\ phase' = [phase EXCEPT ![o] = "canceled"]
  /\ UNCHANGED <<ordered, received>>

Discard(o) ==
  /\ phase[o] = "draft"
  /\ phase' = [phase EXCEPT ![o] = "discarded"]
  /\ UNCHANGED <<ordered, received>>

Next ==
  \E o \in Orders :
    Draft(o) \/ Amend(o) \/ Place(o) \/ Receive(o) \/ Cancel(o) \/ Discard(o)

Spec == Init /\ [][Next]_lifecycleVars
=============================================================================
