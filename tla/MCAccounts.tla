----------------------------- MODULE MCAccounts -----------------------------
(***************************************************************************)
(* Instances of AccountService for TLC.                                    *)
(***************************************************************************)
EXTENDS AccountService, TLC

CONSTANTS c1, c2, r1, r2, admin, clerk, smoke, p1, p2, s1, s2, s3, s4, s5, s6, t1, t2, t3

AccountSymmetry == Permutations(Callers) \cup Permutations(Tokens) \cup Permutations(Passwords)
RunSymmetry == Permutations(Runs) \cup Permutations(Tokens) \cup Permutations(Passwords)
=============================================================================
