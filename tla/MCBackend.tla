------------------------------ MODULE MCBackend ------------------------------
(***************************************************************************)
(* Instances of Backend, and of the audit over it, for TLC.                *)
(***************************************************************************)
EXTENDS IntegrityAudit, TLC

CONSTANTS c1, c2, c3, o1, o2, i1, i2, k1, k2

(* Requests, orders, items and categories are interchangeable when all of  *)
(* them start alike.                                                       *)
Symmetry ==
  Permutations(Clients) \cup Permutations(Orders) \cup Permutations(Items)

OrderSymmetry == Permutations(Clients) \cup Permutations(Orders)

ClientSymmetry == Permutations(Clients)
=============================================================================
