--------------------------- MODULE AccountService ---------------------------
(***************************************************************************)
(* API calls and operator runs over the same accounts and sessions, and    *)
(* what must hold whatever their interleaving.                             *)
(***************************************************************************)
EXTENDS Identity, AccountOperators

(* Thirty days pass.                                                       *)
Expire(t) ==
  /\ Live(t)
  /\ sessions' = [sessions EXCEPT ![t].state = "expired"]
  /\ UNCHANGED <<accounts, audit, call, run>>

AccountNext ==
  \/ \E c \in Callers : SendCall(c) \/ CallStep(c) \/ DropCall(c)
  \/ \E r \in Runs : RunStep(r)
  \/ \E t \in Tokens : Expire(t)

AccountSpec == AccountsInit /\ [][AccountNext]_accountVars

-----------------------------------------------------------------------------
(* Accounts, sessions, calls and runs have the values that the schema and  *)
(* the code allow.                                                         *)
AccountsWellTyped == AccountsTypeOK

(* Every live session was opened with the password its account has now, or *)
(* by the change that set it: logins that verified an older hash, changes  *)
(* of one's own password, resets and operator runs never leave a session   *)
(* behind that an outdated password opened.                                *)
SessionsHoldCurrentPassword ==
  \A t \in Tokens :
    Live(t) => sessions[t].password = accounts[sessions[t].user].hash.password

(* An account that is switched off has no session row: a login that read   *)
(* it before does not add one after the disable deleted them.              *)
InactiveAccountsHaveNoSessions ==
  \A t \in Tokens : HasRow(t) => Active(sessions[t].user)

(* The login audit counts exactly the sessions that were granted: a login  *)
(* that lost a race leaves no trace of having succeeded.                   *)
LoginsAreAudited ==
  \A u \in Usernames :
    audit[u].logins =
      Cardinality({t \in Tokens : sessions[t].state # "unused" /\ sessions[t].user = u})

(* A run reports success only if its own batch was applied, though another *)
(* run of the same action may have left the same account behind.           *)
ReportsAreTruthful ==
  \A r \in Runs : run[r].outcome = "completed" => run[r].applied

(* What a call carries once its handler has let it past the first read:    *)
(* a verified password is the one behind the hash that was read.           *)
CallSound(r) ==
  /\ r.op # "none" /\ r.at \in {"lookup", "commit"} =>
       /\ r.op = "login" => r.at = "commit"
       /\ r.op \in {"login", "logout", "changeOwn"} => r.user \in Usernames
       /\ r.op \in {"login", "changeOwn"} => r.password \in Passwords
       /\ r.op \in {"createUser", "changeOwn", "reset"} => r.new \in Passwords
       /\ r.op \in {"createUser", "reset"} => r.target \in Usernames
       /\ r.op = "createUser" => r.role \in Roles
       /\ r.op = "logout" => r.token \in Tokens
  /\ r.op = "login" /\ r.at = "commit" =>
       r.hash \in Hash /\ r.hash.password = r.password

CallsSound == \A c \in Callers : CallSound(call[c])

(* What a run has done so far: a batch in transit has not been applied,    *)
(* and the audit trail names only runs whose batch was.                    *)
RunSound(r, n) ==
  /\ n.at \in {"write", "postflight"} \/ n.transit =>
       /\ n.op \in SmokeOperations => n.user = Smoke
       /\ n.op \in RunOperations /\ n.user \in Usernames
       /\ n.op # "disable" => n.hash \in Hash
  /\ n.at \in {"idle", "write"} => ~n.transit
  /\ n.at \in {"idle", "write"} \/ n.transit => ~n.applied
  /\ n.at = "postflight" /\ n.op = "recover" => n.applied
  /\ audit[Smoke].last = r => n.applied

RunsSound == \A r \in Runs : RunSound(r, run[r])

AccountInv ==
  /\ AccountsWellTyped
  /\ CallsSound
  /\ RunsSound
  /\ \A t \in Tokens : HasRow(t) => sessions[t].user \in Usernames
  /\ SessionsHoldCurrentPassword
  /\ InactiveAccountsHaveNoSessions
  /\ ReportsAreTruthful

-----------------------------------------------------------------------------
(* A session ends by logging it out, by expiry, or because the account's   *)
(* hash was replaced or the account switched off; the session that changed *)
(* its own password is kept.                                               *)
ChangesOwnThrough(c, t) ==
  CallIs(c, "changeOwn", "commit") /\ call[c].token = t /\ call'[c].reply = "ok"

SessionsEndForAReason ==
  [][\A t \in Tokens :
       Live(t) /\ ~Live(t)' =>
         \/ sessions'[t].state = "expired"
         \/ \E c \in Callers : CallIs(c, "logout", "commit") /\ call[c].token = t
         \/ /\ accounts'[sessions[t].user] # accounts[sessions[t].user]
            /\ \A c \in Callers : ~ChangesOwnThrough(c, t)]_accountVars

(* A login may replace a hash but not the password behind it, and no hash  *)
(* goes back to the legacy format: what an identity audit once counted as  *)
(* legacy hashes only shrinks.                                             *)
LegacyHashes == {u \in Usernames : accounts[u].hash.scheme = "legacy"}

LoginsKeepPasswords ==
  [][/\ \A c \in Callers, u \in Usernames :
          CallIs(c, "login", "commit") /\ call'[c] # call[c] =>
            accounts'[u].hash.password = accounts[u].hash.password
     /\ LegacyHashes' \subseteq LegacyHashes]_accountVars

(* Only a rotation makes an account that was switched off active again.    *)
OnlyRotationReactivates ==
  [][\A u \in Usernames :
       accounts[u].life = "inactive" /\ accounts'[u].life = "active" =>
         \E r \in Runs : run[r].op = "rotate" /\ ~run[r].applied /\ run'[r].applied]_accountVars

-----------------------------------------------------------------------------
(* The atomic promise that all of this implements: see SessionAuthority.   *)
OpenSession(t) ==
  IF Live(t) THEN [user |-> sessions[t].user, password |-> sessions[t].password]
  ELSE [user |-> Null, password |-> Null]

password == [u \in Usernames |-> accounts[u].hash.password]
active == [u \in Usernames |-> Active(u)]
open == [t \in Tokens |-> OpenSession(t)]

Authority == INSTANCE SessionAuthority

(* Every step of a call or a run is an atomic login, logout, change of a   *)
(* password or deactivation, or changes nothing of these.                  *)
ImplementsAuthority == Authority!Spec
=============================================================================
