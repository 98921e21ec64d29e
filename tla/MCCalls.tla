------------------------------- MODULE MCCalls -------------------------------
(***************************************************************************)
(* AccountService without operator runs, for TLC: either the calls about   *)
(* the password of one account, or those that create a second one.         *)
(***************************************************************************)
EXTENDS MCAccounts

VARIABLE mix

CallsInit == AccountsInit /\ mix \in {"one account", "new account"}

(* With one account none is created; with a new one its password is reset  *)
(* but not changed by itself, and two sessions are enough.                 *)
InMix ==
  \/ mix = "one account" /\ \A c \in Callers : call'[c].op # "createUser"
  \/ /\ mix = "new account"
     /\ \A c \in Callers : call'[c].op # "changeOwn"
     /\ Cardinality({t \in Tokens : sessions'[t].state # "unused"}) <= 2

CallsNext == AccountNext /\ InMix /\ UNCHANGED mix

CallsSpec == CallsInit /\ [][CallsNext]_<<accountVars, mix>>
=============================================================================
