--------------------------- MODULE IntegrityAudit ---------------------------
(***************************************************************************)
(* The production integrity audit (scripts/audit-order-item-integrity.mjs  *)
(* and its summary SQL) run against the tables of Backend at any moment:   *)
(* the counts that make it answer repair_required.  Rows have ids of their *)
(* own here only through (order, item), so the counts of duplicate rows    *)
(* and of references to rows that were never inserted have no counterpart. *)
(***************************************************************************)
EXTENDS Backend

ASSUME ItemsAssumption == IsFiniteSet(Items)

ActiveRows == {r \in Orders \X Items : LineActive(r[1], r[2])}
RowsOf(o) == {i \in Items : LineActive(o, i)}

(* The sums over the rows of an order, as the number of units in them.     *)
OrderedUnits(o) == UNION {{i} \X (1 .. lines[o][i].ordered) : i \in RowsOf(o)}
ReceivedUnits(o) == UNION {{i} \X (1 .. lines[o][i].received) : i \in RowsOf(o)}

TotalOrdered(o) == Cardinality(OrderedUnits(o))
TotalReceived(o) == Cardinality(ReceivedUnits(o))

(* Orders that the totals call finished although a row has not arrived. *)
MaskedOrders ==
  {o \in Orders : /\ OrderActive(o) /\ HasLines(o)
                  /\ TotalReceived(o) >= TotalOrdered(o)
                  /\ \E i \in RowsOf(o) : lines[o][i].received < lines[o][i].ordered}

AuditedStatus(o) ==
  IF HasLines(o) /\ \A i \in RowsOf(o) : lines[o][i].received >= lines[o][i].ordered
  THEN "fully_received"
  ELSE IF HasReceipts(o) THEN "partially_received" ELSE "ordered"

(* What each count of the summary counts. *)
Counted ==
  [active_overreceived_rows |->
     {r \in ActiveRows : lines[r[1]][r[2]].received > lines[r[1]][r[2]].ordered},
   masked_orders |-> MaskedOrders,
   active_status_mismatch_orders |->
     {o \in Orders : /\ OrderActive(o)
                     /\ orders[o].status \in Placed
                     /\ orders[o].status # AuditedStatus(o)},
   active_nonpositive_ordered_rows |-> {r \in ActiveRows : lines[r[1]][r[2]].ordered <= 0},
   active_receipt_ledger_mismatch_rows |->
     {r \in ActiveRows : lines[r[1]][r[2]].received # receipts[r[1]][r[2]]},
   active_deleted_order_parent_rows |-> {r \in ActiveRows : orders[r[1]].deleted},
   active_deleted_item_parent_rows |-> {r \in ActiveRows : items[r[2]].life = "deleted"}]

RepairFields == {f \in DOMAIN Counted : Counted[f] # {}}

(* Whatever requests overlap, the audit of a database that started sound   *)
(* finds no status, quantity, ledger or parent order to repair.            *)
AuditFindsSoundOrders == RepairFields \subseteq {"active_deleted_item_parent_rows"}

(* The audit's own verdict: a database that only the API wrote needs no    *)
(* repair.                                                                 *)
AuditIsClean == RepairFields = {}
=============================================================================
