----------------------------- MODULE MCOperators -----------------------------
(***************************************************************************)
(* AccountService with two operator runs, for TLC: either lifecycle runs   *)
(* of the smoke identity, or recoveries of the administrator, never both.  *)
(***************************************************************************)
EXTENDS MCAccounts

VARIABLE mix

OperatorsInit ==
  /\ AccountsInit
  /\ mix \in {"smoke", "recovery"}
  /\ accounts[smoke].life = "active" =>
       mix = "smoke" /\ accounts[admin].hash.password = accounts[smoke].hash.password

(* With lifecycle runs only the smoke identity makes calls, and with       *)
(* recoveries only the administrator.                                      *)
InMix ==
  /\ \A r \in Runs :
       run'[r].op \in {"none"} \cup (IF mix = "smoke" THEN SmokeOperations ELSE {"recover"})
  /\ mix = "smoke" => \A c \in Callers : call'[c].user \in {Null, smoke}

OperatorsNext == AccountNext /\ InMix /\ UNCHANGED mix

OperatorsSpec == OperatorsInit /\ [][OperatorsNext]_<<accountVars, mix>>
=============================================================================
