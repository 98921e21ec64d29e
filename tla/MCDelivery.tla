------------------------------ MODULE MCDelivery ------------------------------
(***************************************************************************)
(* An instance of Pipeline for TLC: the second commit brings a migration.  *)
(***************************************************************************)
EXTENDS Pipeline

CONSTANTS c1, c2, own, foreign

CommitManifest == [c \in Commits |-> IF c = c1 THEN 1 ELSE 2]
=============================================================================
