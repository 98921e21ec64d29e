------------------------------ MODULE Identity ------------------------------
(***************************************************************************)
(* The Identity module of the API Worker (src/identity/index.ts) with the  *)
(* routes that call it.  Each action is one call to D1: a read, or a batch *)
(* that is one transaction.  Hashing a password takes no part in what      *)
(* other requests see, and belongs to the action that uses the result.     *)
(***************************************************************************)
EXTENDS Accounts

(* A caller with no request in flight starts one the workload allows.      *)
MayCall(c, op) == call[c].at = "idle" /\ op \in Workload

Resolves(t) == Live(t) /\ Active(sessions[t].user)

(* requireAuth: the token of the cookie names a live session of an active  *)
(* account, read once and before the handler, or the reply is 401.         *)
Authenticated(c, op, t, proceed) ==
  /\ MayCall(c, op)
  /\ sessions[t].state # "unused"
  /\ IF Resolves(t) THEN proceed ELSE Reply(c, "refused")
  /\ UNCHANGED <<accountTables, run>>

IsAdmin(t) == accounts[sessions[t].user].role = "admin"

(* What a handler keeps of the request it has let in.                      *)
Admitted(op, at, t) ==
  [NoCall EXCEPT !.op = op, !.at = at, !.token = t, !.user = sessions[t].user]

-----------------------------------------------------------------------------
(* authenticate: the account and its hash are read, and the password is    *)
(* verified against that hash.                                             *)
BeginLogin(c, u, p) ==
  /\ MayCall(c, "login")
  /\ IF Active(u) /\ accounts[u].hash.password = p
     THEN Proceed(c, [NoCall EXCEPT !.op = "login", !.at = "commit", !.user = u,
                                    !.password = p, !.hash = accounts[u].hash])
     ELSE Reply(c, "refused")
  /\ UNCHANGED <<accountTables, run>>

(* Mutants: conditions of the session insert and the upgrade left out.     *)
SessionGuardNoActive(r) == accounts[r.user].hash = r.hash
UpgradeGuardNoHash(r) == Active(r.user)

(* The session is inserted only if the row is still the one verified, and  *)
(* so is the upgraded hash.                                                *)
SessionGuard(r) == Active(r.user) /\ accounts[r.user].hash = r.hash
UpgradeGuard(r) == Active(r.user) /\ accounts[r.user].hash = r.hash

(* Mutant: the login is audited whether or not changes() = 1.              *)
LoginNotedAlways(r, granted) == [audit EXCEPT ![r.user].logins = @ + 1, ![r.user].last = Null]

LoginNoted(r, granted) ==
  IF granted THEN [audit EXCEPT ![r.user].logins = @ + 1, ![r.user].last = Null] ELSE audit

Upgraded(r) ==
  IF r.hash.scheme = "legacy" /\ UpgradeGuard(r)
  THEN [accounts EXCEPT ![r.user].hash = CreatedHash(r.password)]
  ELSE accounts

GrantSession(c, r) ==
  \E t \in Tokens :
    /\ sessions[t].state = "unused"
    /\ sessions' = [sessions EXCEPT ![t] = [state |-> "live", user |-> r.user,
                                            password |-> r.password]]
    /\ Proceed(c, [NoCall EXCEPT !.op = "login", !.at = "cleanup", !.reply = "ok"])

(* One batch: the session, its audit row, the upgrade of a legacy hash.    *)
CommitLogin(c) ==
  LET r == call[c] IN
    /\ CallIs(c, "login", "commit")
    /\ SaltLeft
    /\ IF SessionGuard(r)
       THEN GrantSession(c, r)
       ELSE Reply(c, "refused") /\ UNCHANGED sessions
    /\ audit' = LoginNoted(r, SessionGuard(r))
    /\ accounts' = Upgraded(r)
    /\ UNCHANGED run

(* cleanupExpiredSessions, after the reply of a login or a logout.         *)
Cleanup(c) ==
  /\ call[c].at = "cleanup"
  /\ sessions' = [t \in Tokens |-> IF sessions[t].state = "expired"
                                   THEN [sessions[t] EXCEPT !.state = "gone"]
                                   ELSE sessions[t]]
  /\ Reply(c, call[c].reply)
  /\ UNCHANGED <<accounts, audit, run>>

-----------------------------------------------------------------------------
BeginLogout(c, t) ==
  Authenticated(c, "logout", t, Proceed(c, Admitted("logout", "commit", t)))

CommitLogout(c) ==
  LET r == call[c] IN
    /\ CallIs(c, "logout", "commit")
    /\ sessions' = IF r.token \in SessionRows(r.user)
                   THEN [sessions EXCEPT ![r.token].state = "gone"] ELSE sessions
    /\ audit' = Noted(r.user)
    /\ Proceed(c, [NoCall EXCEPT !.op = "logout", !.at = "cleanup", !.reply = "ok"])
    /\ UNCHANGED <<accounts, run>>

-----------------------------------------------------------------------------
(* createUser: look for the username, then insert it; the UNIQUE index     *)
(* refuses a name that was taken in between, and nothing catches that.     *)
BeginCreateUser(c, t, u, role, p) ==
  Authenticated(c, "createUser", t,
    IF IsAdmin(t)
    THEN Proceed(c, [Admitted("createUser", "lookup", t) EXCEPT
                       !.target = u, !.role = role, !.new = p])
    ELSE Reply(c, "refused"))

LookupNewName(c) ==
  /\ CallIs(c, "createUser", "lookup")
  /\ IF accounts[call[c].target].life = "absent"
     THEN Proceed(c, [call[c] EXCEPT !.at = "commit"])
     ELSE Reply(c, "refused")
  /\ UNCHANGED <<accountTables, run>>

NameIsFree(u) == accounts[u].life = "absent"

CommitCreateUser(c) ==
  LET r == call[c] IN
    /\ CallIs(c, "createUser", "commit")
    /\ SaltLeft
    /\ \/ /\ NameIsFree(r.target)
          /\ accounts' = [accounts EXCEPT ![r.target] =
                            [life |-> "active", role |-> r.role, hash |-> CreatedHash(r.new)]]
          /\ audit' = Noted(r.target)
          /\ Proceed(c, [call[c] EXCEPT !.at = "readBack"])
       \/ /\ ~NameIsFree(r.target)
          /\ Reply(c, "error")
          /\ UNCHANGED <<accounts, audit>>
    /\ UNCHANGED <<sessions, run>>

ReadBackUser(c) ==
  /\ CallIs(c, "createUser", "readBack")
  /\ Reply(c, "ok")
  /\ UNCHANGED <<accountTables, run>>

-----------------------------------------------------------------------------
(* Mutant: setting a password also switches the account on.                *)
PasswordSetActive(u, p) ==
  [accounts EXCEPT ![u].hash = CreatedHash(p), ![u].life = "active"]

(* UPDATE users SET password_hash: no condition on the hash that was read. *)
PasswordSet(u, p) == [accounts EXCEPT ![u].hash = CreatedHash(p)]

(* changeOwnPassword: the caller's password is verified against the hash   *)
(* of that moment; the write does not compare it again.                    *)
BeginChangeOwn(c, t, p, new) ==
  Authenticated(c, "changeOwn", t,
    Proceed(c, [Admitted("changeOwn", "lookup", t) EXCEPT !.password = p, !.new = new]))

VerifyOwnPassword(c) ==
  LET stored == accounts[call[c].user].hash IN
    /\ CallIs(c, "changeOwn", "lookup")
    /\ IF stored.password = call[c].password
       THEN Proceed(c, [call[c] EXCEPT !.at = "commit", !.hash = stored])
       ELSE Reply(c, "refused")
    /\ UNCHANGED <<accountTables, run>>

(* Mutant: a change ends no session.                                       *)
SessionsAfterChangeNone(r) == sessions

(* Every other session of the account goes; the presented one, if it is    *)
(* still there, now belongs to who set the new password.                   *)
SessionsAfterChange(r) ==
  IF r.token \in SessionRows(r.user)
  THEN [Revoked(r.user, r.token) EXCEPT ![r.token].password = r.new]
  ELSE Revoked(r.user, r.token)

CommitChangeOwn(c) ==
  LET r == call[c] IN
    /\ CallIs(c, "changeOwn", "commit")
    /\ SaltLeft
    /\ accounts' = PasswordSet(r.user, r.new)
    /\ sessions' = SessionsAfterChange(r)
    /\ audit' = Noted(r.user)
    /\ Reply(c, "ok")
    /\ UNCHANGED run

-----------------------------------------------------------------------------
(* resetPassword by an administrator, of any account, active or not.       *)
BeginReset(c, t, u, p) ==
  Authenticated(c, "reset", t,
    IF IsAdmin(t)
    THEN Proceed(c, [Admitted("reset", "lookup", t) EXCEPT !.target = u, !.new = p])
    ELSE Reply(c, "refused"))

LookupTarget(c) ==
  /\ CallIs(c, "reset", "lookup")
  /\ IF accounts[call[c].target].life # "absent"
     THEN Proceed(c, [call[c] EXCEPT !.at = "commit"])
     ELSE Reply(c, "refused")
  /\ UNCHANGED <<accountTables, run>>

CommitReset(c) ==
  LET r == call[c] IN
    /\ CallIs(c, "reset", "commit")
    /\ SaltLeft
    /\ accounts' = PasswordSet(r.target, r.new)
    /\ sessions' = Revoked(r.target, Null)
    /\ audit' = Noted(r.target)
    /\ Reply(c, "ok")
    /\ UNCHANGED run

-----------------------------------------------------------------------------
SendCall(c) ==
  \/ \E u \in Usernames, p \in Passwords : BeginLogin(c, u, p)
  \/ \E t \in Tokens :
       \/ BeginLogout(c, t)
       \/ \E p, new \in Passwords : BeginChangeOwn(c, t, p, new)
       \/ \E u \in Usernames, p \in Passwords :
            BeginReset(c, t, u, p) \/ \E role \in Roles : BeginCreateUser(c, t, u, role, p)

CallStep(c) ==
  \/ CommitLogin(c) \/ Cleanup(c) \/ CommitLogout(c)
  \/ LookupNewName(c) \/ CommitCreateUser(c) \/ ReadBackUser(c)
  \/ VerifyOwnPassword(c) \/ CommitChangeOwn(c)
  \/ LookupTarget(c) \/ CommitReset(c)

(* The isolate, D1 or the client goes away: nobody sees a reply.           *)
DropCall(c) ==
  /\ call[c].at # "idle"
  /\ Reply(c, "none")
  /\ UNCHANGED <<accountTables, run>>
=============================================================================
