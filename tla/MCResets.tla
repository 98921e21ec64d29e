------------------------------- MODULE MCResets -------------------------------
(***************************************************************************)
(* AccountService with a history variable, for TLC: the password that an   *)
(* administrator has last set for somebody else, as long as that user has  *)
(* not logged in since.                                                    *)
(***************************************************************************)
EXTENDS MCAccounts

VARIABLE awaited

ResetsInit == AccountsInit /\ awaited = [u \in Usernames |-> Null]

(* The reset of u by another user commits in this step.                    *)
ResetOf(c, u) ==
  /\ CallIs(c, "reset", "commit") /\ call'[c].reply = "ok"
  /\ call[c].target = u /\ call[c].user # u

LoggedIn(u) ==
  \E t \in Tokens : sessions[t].state = "unused" /\ Live(t)' /\ sessions'[t].user = u

Awaited(u) ==
  IF \E c \in Callers : ResetOf(c, u) THEN accounts'[u].hash.password
  ELSE IF LoggedIn(u) THEN Null ELSE awaited[u]

ResetsNext == AccountNext /\ awaited' = [u \in Usernames |-> Awaited(u)]

ResetsSpec == ResetsInit /\ [][ResetsNext]_<<accountVars, awaited>>

(* After a reset the account opens with the password the administrator has *)
(* set: resetPassword ends every session of the user, who has to log in    *)
(* with the new password, and nothing replaces it before that.             *)
ResetsAskForNewPassword ==
  \A u \in Usernames : awaited[u] # Null => accounts[u].hash.password = awaited[u]
=============================================================================
