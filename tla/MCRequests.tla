------------------------------ MODULE MCRequests ------------------------------
(***************************************************************************)
(* Backend with no symmetry, for TLC: either the requests of one order of  *)
(* two items, or those of two orders that share one item, or drafts of one *)
(* item that is added to them and deleted.                                 *)
(***************************************************************************)
EXTENDS MCBackend

VARIABLE mix

RequestsInit == TablesInit /\ mix \in {"one order", "one item", "drafts"}

Shared == {"createWithItems", "receive", "revise", "deleteItem", "adjustStock"}
Drafting == {"createDraft", "addItems", "revise", "deleteItem"}

OneItem(ops) ==
  \A c \in Clients :
    req'[c].op \in ops \cup {"none"} /\ req'[c].want[i2] = 0 /\ req'[c].item # i2

(* Bound: with one order, a create request is sent while there is none.    *)
Creating(r) == r.op = "createWithItems" /\ r.at # "readBack"
OneOrder ==
  Cardinality({c \in Clients : Creating(req'[c])}) <= IF orders'[o1] = NoOrderYet THEN 1 ELSE 0

(* With one order the second one is never created, and no request is about *)
(* the catalogue; with one item no request is about the second item.       *)
InMix ==
  \/ /\ mix = "one order"
     /\ OneOrder /\ UNCHANGED orders[o2]
     /\ \A c \in Clients : req'[c].order # o2 /\ req'[c].op \notin {"deleteItem", "adjustStock"}
  \/ mix = "one item" /\ OneItem(Shared)
  \/ mix = "drafts" /\ OneItem(Drafting)

RequestsNext == Next /\ InMix /\ UNCHANGED mix

(* Fair are the steps that a mix leaves: were a handler held back by it,   *)
(* its request would never end.                                            *)
MixFairness ==
  \A c \in Clients : WF_<<vars, mix>>(HandlerStep(c) /\ InMix /\ UNCHANGED mix)

RequestsSpec == RequestsInit /\ [][RequestsNext]_<<vars, mix>> /\ MixFairness
=============================================================================
