---------------------------- MODULE AccountProofs ----------------------------
(***************************************************************************)
(* Proofs about AccountService for any set of callers, operator runs,      *)
(* accounts, passwords, salts and tokens.                                  *)
(***************************************************************************)
EXTENDS AccountService, TLAPS

(* A hash has a password behind it, and the placeholder is not a hash.     *)
LEMMA HashHasPassword ==
  /\ \A h \in Hash : h.password \in Passwords /\ h.password # Null
  /\ NoHash \notin Hash /\ NoHash.password = Null
  /\ \A h \in Hash \cup {NoHash} : h.password \in Passwords => h \in Hash
<1>1. Null \notin Passwords
  BY NullAssumption
<1>2. \A h \in Hash : h.password \in Passwords
  BY DEF Hash
<1>3. NoHash.password = Null
  BY DEF NoHash
<1> QED
  BY <1>1, <1>2, <1>3

(* createPasswordHash returns a hash of the password it was given.         *)
LEMMA CreatedHashIsHash ==
  ASSUME NEW p \in Passwords, SaltLeft
  PROVE  CreatedHash(p) \in Hash /\ CreatedHash(p).password = p
<1>1. FreshSalt \in Salts
  BY DEF SaltLeft, FreshSalt
<1> QED
  BY <1>1 DEF CreatedHash, Hash

(* Revoking keeps the type of the sessions, ends those of the account but  *)
(* the kept one, and touches no other.                                     *)
LEMMA RevokedSessions ==
  ASSUME AccountsTypeOK, NEW u, NEW keep
  PROVE  /\ Revoked(u, keep) \in [Tokens -> Session]
         /\ \A t \in Tokens :
              /\ Revoked(u, keep)[t].user = sessions[t].user
              /\ Revoked(u, keep)[t].password = sessions[t].password
              /\ Revoked(u, keep)[t].state \in {"live", "expired"} =>
                   Revoked(u, keep)[t] = sessions[t]
              /\ Revoked(u, keep)[t].state \in {"live", "expired"} /\ t # keep =>
                   sessions[t].user # u
              /\ sessions[t].user # u \/ t = keep => Revoked(u, keep)[t] = sessions[t]
<1>1. sessions \in [Tokens -> Session]
  BY DEF AccountsTypeOK
<1>2. ASSUME NEW t \in Tokens
      PROVE  /\ [sessions[t] EXCEPT !.state = "gone"] \in Session
             /\ sessions[t] \in Session
  BY <1>1 DEF Session
<1> QED
  BY <1>1, <1>2 DEF Revoked, HasRow, Session

-----------------------------------------------------------------------------
(* The invariant holds of the first database.                              *)
LEMMA AccountInitInv == AccountsInit => AccountInv
<1> SUFFICES ASSUME AccountsInit PROVE AccountInv
  OBVIOUS
<1>1. PICK first \in [Usernames -> Passwords], provisioned \in Provisioned :
        accounts = [u \in Usernames |-> FirstAccount(u, first[u], provisioned)]
  BY DEF AccountsInit
<1>2. \A p \in Passwords : LegacyHash(p) \in Hash
  BY DEF LegacyHash, Hash
<1>3. (CHOOSE s \in Salts : TRUE) \in Salts
  BY AccountsAssumption
<1>4. ASSUME NEW u \in Usernames
      PROVE  FirstAccount(u, first[u], provisioned) \in Account
  <2>1. first[u] \in Passwords
    OBVIOUS
  <2>2. [scheme |-> "pbkdf2", password |-> first[u], salt |-> CHOOSE s \in Salts : TRUE] \in Hash
    BY <2>1, <1>3 DEF Hash
  <2> QED
    BY <2>1, <2>2, <1>2 DEF FirstAccount, Account, NoAccount, Roles
<1>5. accounts \in [Usernames -> Account]
  BY <1>1, <1>4
<1>6. NoCall \in Call /\ NoRun \in Run /\ NoSession \in Session
  BY DEF NoCall, Call, NoRun, Run, NoSession, Session, CallReplies
<1>7. AccountsTypeOK
  BY <1>5, <1>6 DEF AccountsInit, AccountsTypeOK, AuditTrail
<1>8. CallsSound
  BY DEF AccountsInit, CallsSound, CallSound, NoCall
<1>9. RunsSound
  BY NullAssumption, AccountsAssumption DEF AccountsInit, RunsSound, RunSound, NoRun
<1>10. \A t \in Tokens : ~HasRow(t) /\ ~Live(t)
  BY DEF AccountsInit, NoSession, HasRow, Live
<1>11. ReportsAreTruthful
  BY DEF AccountsInit, ReportsAreTruthful, NoRun
<1> QED
  BY <1>7, <1>8, <1>9, <1>10, <1>11
  DEF AccountInv, AccountsWellTyped, SessionsHoldCurrentPassword,
      InactiveAccountsHaveNoSessions

-----------------------------------------------------------------------------
(* What the sessions must satisfy, as one predicate of the tables.         *)
SessionsFit ==
  \A t \in Tokens :
    /\ HasRow(t) => sessions[t].user \in Usernames /\ Active(sessions[t].user)
    /\ Live(t) => sessions[t].password = accounts[sessions[t].user].hash.password

(* The invariant in the parts that the steps below preserve.               *)
LEMMA InvParts ==
  AccountInv <=> AccountsTypeOK /\ CallsSound /\ RunsSound /\ SessionsFit /\ ReportsAreTruthful
BY DEF AccountInv, AccountsWellTyped, SessionsFit, SessionsHoldCurrentPassword,
       InactiveAccountsHaveNoSessions, HasRow, Live

(* A reply, or a handler that goes on, changes one call and keeps the      *)
(* calls well-typed and sound if the new one is.                           *)
LEMMA ProceedIsSound ==
  ASSUME AccountInv, NEW c \in Callers, NEW r \in Call, CallSound(r), Proceed(c, r)
  PROVE  call' \in [Callers -> Call] /\ CallsSound'
<1>1. call' \in [Callers -> Call] /\ \A d \in Callers : call'[d] = r \/ call'[d] = call[d]
  BY DEF AccountInv, AccountsWellTyped, AccountsTypeOK, Proceed
<1>2. \A d \in Callers : CallSound(call[d])
  BY DEF AccountInv, CallsSound
<1>3. \A d \in Callers : CallSound(call'[d])
  BY <1>1, <1>2
<1>4. CallsSound'
  BY <1>3 DEF CallsSound, CallSound
<1> QED
  BY <1>1, <1>4

LEMMA ReplyIsSound ==
  ASSUME AccountInv, NEW c \in Callers, NEW reply \in CallReplies, Reply(c, reply)
  PROVE  call' \in [Callers -> Call] /\ CallsSound'
<1>1. [NoCall EXCEPT !.reply = reply] \in Call
  BY DEF NoCall, Call
<1>2. CallSound([NoCall EXCEPT !.reply = reply])
  BY DEF NoCall, CallSound
<1> QED
  BY <1>1, <1>2, ProceedIsSound DEF Reply

(* Steps that read, and change calls only.                                 *)
LEMMA ReadingKeepsInv ==
  ASSUME AccountInv, call' \in [Callers -> Call] /\ CallsSound',
         UNCHANGED <<accountTables, run>>
  PROVE  AccountInv'
<1>1. AccountsTypeOK'
  BY DEF AccountInv, AccountsWellTyped, AccountsTypeOK, accountTables
<1>2. RunsSound'
  BY DEF AccountInv, RunsSound, RunSound, accountTables
<1>3. SessionsFit'
  BY InvParts DEF SessionsFit, HasRow, Live, Active, accountTables
<1>4. ReportsAreTruthful'
  BY DEF AccountInv, ReportsAreTruthful
<1>5. CallsSound'
  OBVIOUS
<1> QED
  BY <1>1, <1>2, <1>3, <1>4, <1>5, InvParts
  DEF AccountInv, AccountsWellTyped, SessionsFit, SessionsHoldCurrentPassword,
      InactiveAccountsHaveNoSessions, HasRow, Live

(* The parts of the invariant, one step later.                             *)
LEMMA Assemble ==
  ASSUME AccountsTypeOK', CallsSound', RunsSound', SessionsFit', ReportsAreTruthful'
  PROVE  AccountInv'
BY DEF AccountInv, AccountsWellTyped, SessionsFit, SessionsHoldCurrentPassword,
       InactiveAccountsHaveNoSessions, HasRow, Live

(* Calls write no operator's audit row, so runs stay as sound as they are. *)
LEMMA CallsKeepRuns ==
  ASSUME AccountInv, UNCHANGED run,
         audit'[Smoke].last \in {audit[Smoke].last, Null}
  PROVE  RunsSound' /\ ReportsAreTruthful'
<1>1. \A r \in Runs : RunSound(r, run[r])
  BY DEF AccountInv, RunsSound
<1>2. \A r \in Runs : r # Null
  BY NullAssumption
<1>3. RunsSound'
  BY <1>1, <1>2 DEF RunsSound, RunSound
<1>4. ReportsAreTruthful'
  BY DEF AccountInv, ReportsAreTruthful
<1> QED
  BY <1>3, <1>4

(* The audit row of a call.                                                *)
LEMMA NotedTrail ==
  ASSUME AccountsTypeOK, NEW u
  PROVE  Noted(u) \in [Usernames -> AuditTrail] /\ Noted(u)[Smoke].last \in {audit[Smoke].last, Null}
BY AccountsAssumption DEF AccountsTypeOK, Noted, AuditTrail

(* An account whose password is set stays what it is otherwise.            *)
LEMMA PasswordSetAccounts ==
  ASSUME AccountsTypeOK, NEW u \in Usernames, NEW p \in Passwords, SaltLeft
  PROVE  /\ PasswordSet(u, p) \in [Usernames -> Account]
         /\ PasswordSet(u, p)[u].hash.password = p
         /\ \A v \in Usernames :
              /\ PasswordSet(u, p)[v].life = accounts[v].life
              /\ v # u => PasswordSet(u, p)[v] = accounts[v]
<1>1. CreatedHash(p) \in Hash /\ CreatedHash(p).password = p
  BY CreatedHashIsHash
<1>2. accounts \in [Usernames -> Account]
  BY DEF AccountsTypeOK
<1>3. [accounts[u] EXCEPT !.hash = CreatedHash(p)] \in Account
  BY <1>1, <1>2 DEF Account
<1>4. PasswordSet(u, p)[u] = [accounts[u] EXCEPT !.hash = CreatedHash(p)]
  BY <1>2 DEF PasswordSet
<1>5. \A v \in Usernames \ {u} : PasswordSet(u, p)[v] = accounts[v]
  BY <1>2 DEF PasswordSet
<1>6. PasswordSet(u, p) \in [Usernames -> Account]
  BY <1>2, <1>3, <1>4, <1>5 DEF PasswordSet
<1>7. PasswordSet(u, p)[u].hash = CreatedHash(p) /\ PasswordSet(u, p)[u].life = accounts[u].life
  BY <1>2, <1>4 DEF Account
<1> QED
  BY <1>1, <1>5, <1>6, <1>7

-----------------------------------------------------------------------------
(* A login grants a session with the password its account has.             *)
LEMMA LoginInv ==
  ASSUME AccountInv, NEW c \in Callers, CommitLogin(c)
  PROVE  AccountInv'
<1> DEFINE r == call[c]
<1> USE DEF CommitLogin
<1>1. AccountsTypeOK /\ SessionsFit
  BY InvParts
<1>2. r \in Call /\ r.user \in Usernames /\ r.password \in Passwords
      /\ r.hash \in Hash /\ r.hash.password = r.password
  BY <1>1 DEF AccountInv, CallsSound, CallSound, CallIs, AccountsTypeOK
<1>3. accounts' \in [Usernames -> Account]
      /\ \A u \in Usernames : /\ accounts'[u].life = accounts[u].life
                              /\ accounts'[u].hash.password = accounts[u].hash.password
  <2>1. CASE r.hash.scheme = "legacy" /\ UpgradeGuard(r)
    <3>1. accounts' = PasswordSet(r.user, r.password)
      BY <2>1 DEF Upgraded, PasswordSet
    <3>2. accounts[r.user].hash.password = r.password
      BY <1>2, <2>1 DEF UpgradeGuard
    <3> QED
      BY <1>1, <1>2, <3>1, <3>2, PasswordSetAccounts
  <2>2. CASE ~(r.hash.scheme = "legacy" /\ UpgradeGuard(r))
    BY <1>1, <2>2 DEF Upgraded, AccountsTypeOK
  <2> QED
    BY <2>1, <2>2
<1>4. audit' \in [Usernames -> AuditTrail] /\ audit'[Smoke].last \in {audit[Smoke].last, Null}
  BY <1>1, <1>2, AccountsAssumption DEF AccountsTypeOK, LoginNoted, AuditTrail
<1>5. /\ sessions' \in [Tokens -> Session]
      /\ \A t \in Tokens :
           \/ sessions'[t] = sessions[t]
           \/ /\ sessions'[t] = [state |-> "live", user |-> r.user, password |-> r.password]
              /\ SessionGuard(r)
  <2>1. CASE SessionGuard(r)
    <3>1. PICK t \in Tokens :
            sessions' = [sessions EXCEPT ![t] = [state |-> "live", user |-> r.user,
                                                 password |-> r.password]]
      BY <2>1 DEF GrantSession
    <3>2. [state |-> "live", user |-> r.user, password |-> r.password] \in Session
      BY <1>2 DEF Session
    <3> QED
      BY <1>1, <2>1, <3>1, <3>2 DEF AccountsTypeOK
  <2>2. CASE ~SessionGuard(r)
    BY <1>1, <2>2 DEF AccountsTypeOK
  <2> QED
    BY <2>1, <2>2
<1>6. call' \in [Callers -> Call] /\ CallsSound'
  <2>1. CASE SessionGuard(r)
    <3>1. Proceed(c, [NoCall EXCEPT !.op = "login", !.at = "cleanup", !.reply = "ok"])
      BY <2>1 DEF GrantSession
    <3>2. [NoCall EXCEPT !.op = "login", !.at = "cleanup", !.reply = "ok"] \in Call
      BY DEF NoCall, Call, CallReplies, CallOperations
    <3>3. CallSound([NoCall EXCEPT !.op = "login", !.at = "cleanup", !.reply = "ok"])
      BY DEF NoCall, CallSound
    <3> QED
      BY <3>1, <3>2, <3>3, ProceedIsSound
  <2>2. CASE ~SessionGuard(r)
    BY <2>2, ReplyIsSound DEF CallReplies
  <2> QED
    BY <2>1, <2>2
<1>7. AccountsTypeOK'
  BY <1>1, <1>3, <1>4, <1>5, <1>6 DEF AccountsTypeOK
<1>8. SessionsFit'
  <2> SUFFICES ASSUME NEW t \in Tokens
               PROVE  /\ sessions'[t].state \in {"live", "expired"} =>
                           /\ sessions'[t].user \in Usernames
                           /\ accounts'[sessions'[t].user].life = "active"
                      /\ sessions'[t].state = "live" =>
                           sessions'[t].password = accounts'[sessions'[t].user].hash.password
    BY DEF SessionsFit, HasRow, Live, Active
  <2>1. CASE sessions'[t] = sessions[t]
    BY <1>1, <1>3, <2>1 DEF SessionsFit, HasRow, Live, Active
  <2>2. CASE /\ sessions'[t] = [state |-> "live", user |-> r.user, password |-> r.password]
             /\ SessionGuard(r)
    BY <1>2, <1>3, <2>2 DEF SessionGuard, Active
  <2> QED
    BY <1>5, <2>1, <2>2
<1> QED
  BY <1>4, <1>6, <1>7, <1>8, Assemble, CallsKeepRuns

(* A password that is set ends the sessions of the account but one.        *)
LEMMA PasswordSetInv ==
  ASSUME AccountInv, NEW c \in Callers, NEW u \in Usernames, NEW p \in Passwords,
         SaltLeft, NEW keep,
         accounts' = PasswordSet(u, p),
         \/ sessions' = Revoked(u, Null)
         \/ /\ keep \in SessionRows(u)
            /\ sessions' = [Revoked(u, keep) EXCEPT ![keep].password = p]
         \/ keep \notin SessionRows(u) /\ sessions' = Revoked(u, keep),
         audit' = Noted(u), Reply(c, "ok"), UNCHANGED run
  PROVE  AccountInv'
<1>1. AccountsTypeOK /\ SessionsFit
  BY InvParts
<1>2. /\ accounts' \in [Usernames -> Account]
      /\ accounts'[u].hash.password = p
      /\ \A v \in Usernames : /\ accounts'[v].life = accounts[v].life
                              /\ v # u => accounts'[v] = accounts[v]
  BY <1>1, PasswordSetAccounts
<1>3. audit' \in [Usernames -> AuditTrail] /\ audit'[Smoke].last \in {audit[Smoke].last, Null}
  BY <1>1, NotedTrail
<1>4. call' \in [Callers -> Call] /\ CallsSound'
  BY ReplyIsSound DEF CallReplies
<1>5. /\ sessions' \in [Tokens -> Session]
      /\ \A t \in Tokens :
           HasRow(t)' =>
             \/ sessions'[t] = sessions[t] /\ sessions[t].user # u
             \/ /\ sessions'[t] = [sessions[t] EXCEPT !.password = p]
                /\ sessions[t].user = u /\ HasRow(t)
  <2>1. CASE sessions' = Revoked(u, Null)
    BY <1>1, <2>1, NullAssumption, RevokedSessions DEF HasRow
  <2>2. CASE /\ keep \in SessionRows(u)
             /\ sessions' = [Revoked(u, keep) EXCEPT ![keep].password = p]
    <3>1. keep \in Tokens /\ HasRow(keep) /\ sessions[keep].user = u
      BY <2>2 DEF SessionRows
    <3>2. Revoked(u, keep) \in [Tokens -> Session] /\ Revoked(u, keep)[keep] = sessions[keep]
      BY <1>1, <3>1, RevokedSessions
    <3>3. sessions'[keep] = [sessions[keep] EXCEPT !.password = p]
      BY <2>2, <3>1, <3>2
    <3>4. [sessions[keep] EXCEPT !.password = p] \in Session
      BY <1>1, <3>1 DEF Session, AccountsTypeOK
    <3>5. sessions' \in [Tokens -> Session]
      BY <2>2, <3>1, <3>2, <3>3, <3>4
    <3>6. ASSUME NEW t \in Tokens \ {keep}
          PROVE  sessions'[t] = Revoked(u, keep)[t]
      BY <2>2, <3>1, <3>2
    <3>7. ASSUME NEW t \in Tokens \ {keep}, HasRow(t)'
          PROVE  sessions'[t] = sessions[t] /\ sessions[t].user # u
      BY <1>1, <3>6, <3>7, RevokedSessions DEF HasRow
    <3> QED
      BY <3>1, <3>3, <3>5, <3>7
  <2>3. CASE keep \notin SessionRows(u) /\ sessions' = Revoked(u, keep)
    BY <1>1, <2>3, RevokedSessions DEF HasRow, SessionRows
  <2> QED
    BY <2>1, <2>2, <2>3
<1>6. AccountsTypeOK'
  BY <1>1, <1>2, <1>3, <1>4, <1>5 DEF AccountsTypeOK
<1>7. SessionsFit'
  <2> SUFFICES ASSUME NEW t \in Tokens, HasRow(t)'
               PROVE  /\ sessions'[t].user \in Usernames
                      /\ accounts'[sessions'[t].user].life = "active"
                      /\ sessions'[t].state = "live" =>
                           sessions'[t].password = accounts'[sessions'[t].user].hash.password
    BY DEF SessionsFit, HasRow, Live, Active
  <2>1. CASE sessions'[t] = sessions[t] /\ sessions[t].user # u
    BY <1>1, <1>2, <2>1 DEF SessionsFit, HasRow, Live, Active
  <2>2. CASE /\ sessions'[t] = [sessions[t] EXCEPT !.password = p]
             /\ sessions[t].user = u /\ HasRow(t)
    <3>1. /\ sessions'[t].user = u /\ sessions'[t].password = p
      BY <1>1, <2>2 DEF AccountsTypeOK, Session
    <3> QED
      BY <1>1, <1>2, <2>2, <3>1 DEF SessionsFit, Active
  <2> QED
    BY <1>5, <2>1, <2>2
<1> QED
  BY <1>3, <1>4, <1>6, <1>7, Assemble, CallsKeepRuns

-----------------------------------------------------------------------------
(* A handler that has only read replies, or goes on with what it has read. *)
LEMMA ReadingCallInv ==
  ASSUME AccountInv, NEW c \in Callers, UNCHANGED <<accountTables, run>>,
         \/ \E reply \in CallReplies : Reply(c, reply)
         \/ \E n \in Call : CallSound(n) /\ Proceed(c, n)
  PROVE  AccountInv'
<1>1. CASE \E reply \in CallReplies : Reply(c, reply)
  BY <1>1, ReplyIsSound, ReadingKeepsInv
<1>2. CASE \E n \in Call : CallSound(n) /\ Proceed(c, n)
  BY <1>2, ProceedIsSound, ReadingKeepsInv
<1> QED
  BY <1>1, <1>2

(* Sessions that only end, by whatever step, leave everything else alone.  *)
LEMMA EndingInv ==
  ASSUME AccountInv, UNCHANGED <<accounts, run>>,
         sessions' \in [Tokens -> Session],
         \A t \in Tokens :
           /\ sessions'[t].user = sessions[t].user
           /\ sessions'[t].password = sessions[t].password
           /\ sessions'[t].state \in {"live", "expired"} => HasRow(t)
           /\ sessions'[t].state = "live" => Live(t),
         audit' \in [Usernames -> AuditTrail],
         audit'[Smoke].last \in {audit[Smoke].last, Null},
         call' \in [Callers -> Call], CallsSound'
  PROVE  AccountInv'
<1>1. AccountsTypeOK /\ SessionsFit
  BY InvParts
<1>2. AccountsTypeOK'
  BY <1>1 DEF AccountsTypeOK
<1>3. SessionsFit'
  <2> SUFFICES ASSUME NEW t \in Tokens
               PROVE  /\ sessions'[t].state \in {"live", "expired"} =>
                           /\ sessions'[t].user \in Usernames
                           /\ accounts'[sessions'[t].user].life = "active"
                      /\ sessions'[t].state = "live" =>
                           sessions'[t].password = accounts'[sessions'[t].user].hash.password
    BY DEF SessionsFit, HasRow, Live, Active
  <2> QED
    BY <1>1 DEF SessionsFit, Active
<1> QED
  BY <1>2, <1>3, Assemble, CallsKeepRuns

LEMMA CleanupInv ==
  ASSUME AccountInv, NEW c \in Callers, Cleanup(c)
  PROVE  AccountInv'
<1>1. AccountsTypeOK
  BY InvParts
<1>2. call' \in [Callers -> Call] /\ CallsSound'
  BY <1>1, ReplyIsSound DEF Cleanup, AccountsTypeOK, Call
<1>3. \A t \in Tokens : [sessions[t] EXCEPT !.state = "gone"] \in Session
  BY <1>1 DEF AccountsTypeOK, Session
<1>4. \A t \in Tokens :
        sessions'[t] = IF sessions[t].state = "expired"
                       THEN [sessions[t] EXCEPT !.state = "gone"] ELSE sessions[t]
  BY DEF Cleanup
<1>5. sessions' \in [Tokens -> Session]
  BY <1>1, <1>3 DEF Cleanup, AccountsTypeOK
<1>6. \A t \in Tokens :
        /\ sessions'[t].user = sessions[t].user
        /\ sessions'[t].password = sessions[t].password
        /\ sessions'[t].state \in {"live", "expired"} => HasRow(t)
        /\ sessions'[t].state = "live" => Live(t)
  BY <1>1, <1>4 DEF AccountsTypeOK, Session, HasRow, Live
<1>7. audit' \in [Usernames -> AuditTrail] /\ audit'[Smoke].last = audit[Smoke].last
  BY <1>1 DEF Cleanup, AccountsTypeOK
<1> QED
  BY <1>2, <1>5, <1>6, <1>7, EndingInv DEF Cleanup

LEMMA CommitLogoutInv ==
  ASSUME AccountInv, NEW c \in Callers, CommitLogout(c)
  PROVE  AccountInv'
<1> DEFINE r == call[c]
           done == [NoCall EXCEPT !.op = "logout", !.at = "cleanup", !.reply = "ok"]
<1>1. AccountsTypeOK
  BY InvParts
<1>2. r.user \in Usernames /\ r.token \in Tokens
  BY DEF AccountInv, CallsSound, CallSound, CommitLogout, CallIs
<1>3. done \in Call /\ CallSound(done)
  BY DEF NoCall, Call, CallReplies, CallOperations, CallSound
<1>4. call' \in [Callers -> Call] /\ CallsSound'
  BY <1>3, ProceedIsSound DEF CommitLogout
<1>5. \A t \in Tokens : [sessions[t] EXCEPT !.state = "gone"] \in Session
  BY <1>1 DEF AccountsTypeOK, Session
<1>6. /\ sessions' \in [Tokens -> Session]
      /\ \A t \in Tokens : \/ sessions'[t] = sessions[t]
                           \/ sessions'[t] = [sessions[t] EXCEPT !.state = "gone"]
  BY <1>1, <1>2, <1>5 DEF CommitLogout, AccountsTypeOK
<1>7. \A t \in Tokens :
        /\ sessions'[t].user = sessions[t].user
        /\ sessions'[t].password = sessions[t].password
        /\ sessions'[t].state \in {"live", "expired"} => HasRow(t)
        /\ sessions'[t].state = "live" => Live(t)
  BY <1>1, <1>6 DEF AccountsTypeOK, Session, HasRow, Live
<1>8. audit' \in [Usernames -> AuditTrail] /\ audit'[Smoke].last \in {audit[Smoke].last, Null}
  BY <1>1, NotedTrail DEF CommitLogout
<1> QED
  BY <1>4, <1>6, <1>7, <1>8, EndingInv DEF CommitLogout

LEMMA ExpireInv ==
  ASSUME AccountInv, NEW t \in Tokens, Expire(t)
  PROVE  AccountInv'
<1>1. AccountsTypeOK
  BY InvParts
<1>2. [sessions[t] EXCEPT !.state = "expired"] \in Session
  BY <1>1 DEF AccountsTypeOK, Session
<1>3. /\ sessions' \in [Tokens -> Session]
      /\ \A s \in Tokens : \/ sessions'[s] = sessions[s]
                           \/ s = t /\ sessions'[s] = [sessions[s] EXCEPT !.state = "expired"]
  BY <1>1, <1>2 DEF Expire, AccountsTypeOK
<1>4. \A s \in Tokens :
        /\ sessions'[s].user = sessions[s].user
        /\ sessions'[s].password = sessions[s].password
        /\ sessions'[s].state \in {"live", "expired"} => HasRow(s)
        /\ sessions'[s].state = "live" => Live(s)
  BY <1>1, <1>3 DEF Expire, AccountsTypeOK, Session, HasRow, Live
<1>5. call' \in [Callers -> Call] /\ CallsSound'
  BY <1>1 DEF Expire, AccountsTypeOK, AccountInv, CallsSound, CallSound
<1>6. audit' \in [Usernames -> AuditTrail] /\ audit'[Smoke].last = audit[Smoke].last
  BY <1>1 DEF Expire, AccountsTypeOK
<1> QED
  BY <1>3, <1>4, <1>5, <1>6, EndingInv DEF Expire

-----------------------------------------------------------------------------
(* An account is created where none was, so no session is its yet.         *)
LEMMA CommitCreateUserInv ==
  ASSUME AccountInv, NEW c \in Callers, CommitCreateUser(c)
  PROVE  AccountInv'
<1> DEFINE r == call[c]
           account == [life |-> "active", role |-> r.role, hash |-> CreatedHash(r.new)]
<1>1. AccountsTypeOK /\ SessionsFit
  BY InvParts
<1>2. r \in Call /\ r.target \in Usernames /\ r.role \in Roles /\ r.new \in Passwords
  BY <1>1 DEF AccountInv, CallsSound, CallSound, CommitCreateUser, CallIs, AccountsTypeOK
<1>3. account \in Account
  BY <1>2, CreatedHashIsHash DEF CommitCreateUser, Account
<1>4. UNCHANGED <<sessions, run>>
  BY DEF CommitCreateUser
<1>5. CASE /\ NameIsFree(r.target)
           /\ accounts' = [accounts EXCEPT ![r.target] = account]
           /\ audit' = Noted(r.target)
           /\ Proceed(c, [r EXCEPT !.at = "readBack"])
  <2>1. [r EXCEPT !.at = "readBack"] \in Call /\ CallSound([r EXCEPT !.at = "readBack"])
    BY <1>2 DEF Call, CallSound
  <2>2. call' \in [Callers -> Call] /\ CallsSound'
    BY <1>5, <2>1, ProceedIsSound
  <2>3. audit' \in [Usernames -> AuditTrail] /\ audit'[Smoke].last \in {audit[Smoke].last, Null}
    BY <1>1, <1>5, NotedTrail
  <2>4. AccountsTypeOK'
    BY <1>1, <1>2, <1>3, <1>4, <1>5, <2>2, <2>3 DEF AccountsTypeOK
  <2>5. ASSUME NEW u \in Usernames, accounts[u].life = "active"
        PROVE  accounts'[u] = accounts[u]
    BY <1>1, <1>5, <2>5 DEF NameIsFree, AccountsTypeOK
  <2>6. SessionsFit'
    <3> SUFFICES ASSUME NEW t \in Tokens
                 PROVE  /\ sessions[t].state \in {"live", "expired"} =>
                             /\ sessions[t].user \in Usernames
                             /\ accounts'[sessions[t].user].life = "active"
                        /\ sessions[t].state = "live" =>
                             sessions[t].password = accounts'[sessions[t].user].hash.password
      BY <1>4 DEF SessionsFit, HasRow, Live, Active
    <3> QED
      BY <1>1, <2>5 DEF SessionsFit, HasRow, Live, Active
  <2> QED
    BY <1>4, <2>2, <2>3, <2>4, <2>6, Assemble, CallsKeepRuns
<1>6. CASE Reply(c, "error") /\ UNCHANGED <<accounts, audit>>
  BY <1>4, <1>6, ReadingCallInv DEF accountTables, CallReplies
<1> QED
  BY <1>5, <1>6 DEF CommitCreateUser

LEMMA CommitChangeOwnInv ==
  ASSUME AccountInv, NEW c \in Callers, CommitChangeOwn(c)
  PROVE  AccountInv'
<1> DEFINE r == call[c]
<1>1. r.user \in Usernames /\ r.new \in Passwords
  BY DEF AccountInv, CallsSound, CallSound, CommitChangeOwn, CallIs
<1>2. \/ /\ r.token \in SessionRows(r.user)
         /\ sessions' = [Revoked(r.user, r.token) EXCEPT ![r.token].password = r.new]
      \/ r.token \notin SessionRows(r.user) /\ sessions' = Revoked(r.user, r.token)
  BY DEF CommitChangeOwn, SessionsAfterChange
<1>3. /\ SaltLeft /\ accounts' = PasswordSet(r.user, r.new)
      /\ audit' = Noted(r.user) /\ Reply(c, "ok") /\ UNCHANGED run
  BY DEF CommitChangeOwn
<1> QED
  BY <1>1, <1>2, <1>3, PasswordSetInv

LEMMA CommitResetInv ==
  ASSUME AccountInv, NEW c \in Callers, CommitReset(c)
  PROVE  AccountInv'
<1> DEFINE r == call[c]
<1>1. r.target \in Usernames /\ r.new \in Passwords
  BY DEF AccountInv, CallsSound, CallSound, CommitReset, CallIs
<1>2. /\ SaltLeft /\ accounts' = PasswordSet(r.target, r.new)
      /\ sessions' = Revoked(r.target, Null)
      /\ audit' = Noted(r.target) /\ Reply(c, "ok") /\ UNCHANGED run
  BY DEF CommitReset
<1> QED
  BY <1>1, <1>2, PasswordSetInv

-----------------------------------------------------------------------------
(* The first step of a request: what requireAuth lets in is sound.         *)
LEMMA AuthenticatedInv ==
  ASSUME AccountInv, NEW c \in Callers, NEW t \in Tokens, NEW op, NEW proceed,
         Authenticated(c, op, t, proceed),
         Resolves(t) /\ proceed =>
           \/ \E reply \in CallReplies : Reply(c, reply)
           \/ \E n \in Call : CallSound(n) /\ Proceed(c, n)
  PROVE  AccountInv'
<1>1. CASE Resolves(t)
  BY <1>1, ReadingCallInv DEF Authenticated
<1>2. CASE ~Resolves(t)
  BY <1>2, ReadingCallInv DEF Authenticated, CallReplies
<1> QED
  BY <1>1, <1>2

LEMMA ResolvedUser ==
  ASSUME AccountInv, NEW t \in Tokens, Resolves(t)
  PROVE  sessions[t].user \in Usernames
BY InvParts DEF Resolves, SessionsFit, HasRow, Live

LEMMA SendCallInv ==
  ASSUME AccountInv, NEW c \in Callers, SendCall(c)
  PROVE  AccountInv'
<1>1. AccountsTypeOK
  BY InvParts
<1>2. ASSUME NEW u \in Usernames, NEW p \in Passwords, BeginLogin(c, u, p)
      PROVE  AccountInv'
  <2> DEFINE n == [NoCall EXCEPT !.op = "login", !.at = "commit", !.user = u,
                                 !.password = p, !.hash = accounts[u].hash]
  <2>1. accounts[u].hash \in Hash \cup {NoHash}
    BY <1>1 DEF AccountsTypeOK, Account
  <2>2. n \in Call
    BY <2>1 DEF NoCall, Call, CallOperations, CallReplies
  <2>3. accounts[u].hash.password = p => CallSound(n)
    BY <2>1, HashHasPassword DEF NoCall, CallSound
  <2> QED
    BY <1>2, <2>2, <2>3, ReadingCallInv DEF BeginLogin, CallReplies
<1>3. ASSUME NEW t \in Tokens, BeginLogout(c, t)
      PROVE  AccountInv'
  <2>1. Resolves(t) => /\ Admitted("logout", "commit", t) \in Call
                       /\ CallSound(Admitted("logout", "commit", t))
    BY ResolvedUser DEF Admitted, NoCall, Call, CallOperations, CallReplies, CallSound
  <2> QED
    BY <1>3, <2>1, AuthenticatedInv DEF BeginLogout
<1>4. ASSUME NEW t \in Tokens, NEW p \in Passwords, NEW new \in Passwords,
             BeginChangeOwn(c, t, p, new)
      PROVE  AccountInv'
  <2> DEFINE n == [Admitted("changeOwn", "lookup", t) EXCEPT !.password = p, !.new = new]
  <2>1. Resolves(t) => n \in Call /\ CallSound(n)
    BY ResolvedUser DEF Admitted, NoCall, Call, CallOperations, CallReplies, CallSound
  <2> QED
    BY <1>4, <2>1, AuthenticatedInv DEF BeginChangeOwn
<1>5. ASSUME NEW t \in Tokens, NEW u \in Usernames, NEW p \in Passwords, BeginReset(c, t, u, p)
      PROVE  AccountInv'
  <2> DEFINE n == [Admitted("reset", "lookup", t) EXCEPT !.target = u, !.new = p]
             reply == IF IsAdmin(t) THEN Proceed(c, n) ELSE Reply(c, "refused")
  <2>1. Resolves(t) => n \in Call /\ CallSound(n)
    BY ResolvedUser DEF Admitted, NoCall, Call, CallOperations, CallReplies, CallSound
  <2>2. Authenticated(c, "reset", t, reply)
    BY <1>5 DEF BeginReset
  <2>3. Resolves(t) /\ reply => \/ \E d \in CallReplies : Reply(c, d)
                               \/ \E m \in Call : CallSound(m) /\ Proceed(c, m)
    BY <2>1 DEF CallReplies
  <2> QED
    BY <2>2, <2>3, AuthenticatedInv
<1>6. ASSUME NEW t \in Tokens, NEW u \in Usernames, NEW p \in Passwords, NEW role \in Roles,
             BeginCreateUser(c, t, u, role, p)
      PROVE  AccountInv'
  <2> DEFINE n == [Admitted("createUser", "lookup", t) EXCEPT
                     !.target = u, !.role = role, !.new = p]
             reply == IF IsAdmin(t) THEN Proceed(c, n) ELSE Reply(c, "refused")
  <2>1. Resolves(t) => n \in Call /\ CallSound(n)
    BY ResolvedUser DEF Admitted, NoCall, Call, CallOperations, CallReplies, CallSound
  <2>2. Authenticated(c, "createUser", t, reply)
    BY <1>6 DEF BeginCreateUser
  <2>3. Resolves(t) /\ reply => \/ \E d \in CallReplies : Reply(c, d)
                               \/ \E m \in Call : CallSound(m) /\ Proceed(c, m)
    BY <2>1 DEF CallReplies
  <2> QED
    BY <2>2, <2>3, AuthenticatedInv
<1> QED
  BY <1>2, <1>3, <1>4, <1>5, <1>6 DEF SendCall

LEMMA CallStepInv ==
  ASSUME AccountInv, NEW c \in Callers, CallStep(c)
  PROVE  AccountInv'
<1>1. AccountsTypeOK
  BY InvParts
<1>2. call[c] \in Call /\ CallSound(call[c])
  BY <1>1 DEF AccountInv, CallsSound, AccountsTypeOK
<1>3. \A h \in Hash \cup {NoHash} :
        /\ [call[c] EXCEPT !.at = "commit"] \in Call
        /\ [call[c] EXCEPT !.at = "commit", !.hash = h] \in Call
  BY <1>2 DEF Call
<1>4. call[c].op \in {"createUser", "reset"} /\ call[c].at = "lookup" =>
        CallSound([call[c] EXCEPT !.at = "commit"])
  BY <1>2 DEF CallSound, Call
<1>5. ASSUME NEW h \in Hash \cup {NoHash}, call[c].op = "changeOwn", call[c].at = "lookup"
      PROVE  CallSound([call[c] EXCEPT !.at = "commit", !.hash = h])
  BY <1>2, <1>5 DEF CallSound, Call
<1>6. CASE LookupNewName(c)
  BY <1>3, <1>4, <1>6, HashHasPassword, ReadingCallInv DEF LookupNewName, CallIs, CallReplies
<1>7. CASE LookupTarget(c)
  BY <1>3, <1>4, <1>7, ReadingCallInv DEF LookupTarget, CallIs, CallReplies
<1>8. CASE ReadBackUser(c)
  BY <1>8, ReadingCallInv DEF ReadBackUser, CallReplies
<1>9. CASE VerifyOwnPassword(c)
  <2>1. call[c].user \in Usernames /\ call[c].op = "changeOwn" /\ call[c].at = "lookup"
    BY <1>2, <1>9 DEF VerifyOwnPassword, CallIs, CallSound
  <2>2. accounts[call[c].user].hash \in Hash \cup {NoHash}
    BY <1>1, <2>1 DEF AccountsTypeOK, Account
  <2>3. UNCHANGED <<accountTables, run>>
    BY <1>9 DEF VerifyOwnPassword
  <2>4. \/ Proceed(c, [call[c] EXCEPT !.at = "commit", !.hash = accounts[call[c].user].hash])
        \/ Reply(c, "refused")
    BY <1>9 DEF VerifyOwnPassword
  <2> QED
    BY <1>3, <1>5, <2>1, <2>2, <2>3, <2>4, ReadingCallInv DEF CallReplies
<1> QED
  BY <1>6, <1>7, <1>8, <1>9, LoginInv, CleanupInv, CommitLogoutInv, CommitCreateUserInv,
     CommitChangeOwnInv, CommitResetInv
  DEF CallStep

-----------------------------------------------------------------------------
(* A step of a run changes one run, and names no other in the audit trail. *)
LEMMA ContinueIsSound ==
  ASSUME AccountInv, NEW r \in Runs, NEW n \in Run, Continue(r, n), RunSound(r, n)',
         n.outcome = "completed" => n.applied,
         audit'[Smoke].last \in {audit[Smoke].last, Null, r}
  PROVE  run' \in [Runs -> Run] /\ RunsSound' /\ ReportsAreTruthful'
<1>1. run \in [Runs -> Run]
  BY DEF AccountInv, AccountsWellTyped, AccountsTypeOK
<1>2. run' \in [Runs -> Run] /\ run'[r] = n /\ \A s \in Runs \ {r} : run'[s] = run[s]
  BY <1>1 DEF Continue
<1>3. ASSUME NEW s \in Runs
      PROVE  RunSound(s, run[s])'
  <2>1. CASE s = r
    BY <1>2, <2>1 DEF RunSound
  <2>2. CASE s # r
    <3>1. s # Null
      BY NullAssumption
    <3>2. RunSound(s, run[s])
      BY DEF AccountInv, RunsSound
    <3> QED
      BY <1>2, <2>2, <3>1, <3>2 DEF RunSound
  <2> QED
    BY <2>1, <2>2
<1>4. ReportsAreTruthful'
  BY <1>2 DEF AccountInv, ReportsAreTruthful
<1> QED
  BY <1>2, <1>3, <1>4 DEF RunsSound

(* A run that reads, or whose batch comes to nothing.                      *)
LEMMA ReadingRunInv ==
  ASSUME AccountInv, NEW r \in Runs, NEW n \in Run, Continue(r, n), RunSound(r, n),
         n.outcome = "completed" => n.applied, UNCHANGED <<accountTables, call>>
  PROVE  AccountInv'
<1>1. AccountsTypeOK /\ SessionsFit /\ CallsSound
  BY InvParts
<1>2. UNCHANGED <<accounts, sessions, audit>>
  BY DEF accountTables
<1>3. RunSound(r, n)'
  BY <1>2 DEF RunSound
<1>4. run' \in [Runs -> Run] /\ RunsSound' /\ ReportsAreTruthful'
  BY <1>2, <1>3, ContinueIsSound
<1>5. AccountsTypeOK'
  BY <1>1, <1>2, <1>4 DEF AccountsTypeOK
<1>6. CallsSound'
  BY <1>1 DEF CallsSound, CallSound
<1>7. SessionsFit'
  BY <1>1, <1>2 DEF SessionsFit, HasRow, Live, Active
<1> QED
  BY <1>4, <1>5, <1>6, <1>7, Assemble

LEMMA BeginInv ==
  ASSUME AccountInv, NEW r \in Runs, NEW op \in RunOperations, NEW u \in Usernames,
         NEW hash \in Hash \cup {NoHash}, NEW accepted \in BOOLEAN,
         op \in SmokeOperations => u = Smoke, op # "disable" => hash \in Hash,
         Begin(r, op, u, hash, accepted)
  PROVE  AccountInv'
<1> DEFINE started == Start(op, u, hash)
           refused == [started EXCEPT !.at = "done", !.outcome = "failed"]
<1>1. AccountsTypeOK
  BY InvParts
<1>2. accounts[u].life \in {"absent", "active", "inactive"}
  BY <1>1 DEF AccountsTypeOK, Account
<1>3. audit[Smoke].last # r
  BY DEF AccountInv, RunsSound, RunSound, Begin, RunIs
<1>4. started \in Run /\ refused \in Run
  BY <1>2 DEF Start, NoRun, Run
<1>5. RunSound(r, started) /\ RunSound(r, refused)
  BY <1>3 DEF Start, NoRun, RunSound
<1>6. started.outcome # "completed" /\ refused.outcome # "completed"
  BY DEF Start, NoRun
<1>7. UNCHANGED <<accountTables, call>> /\ (Continue(r, started) \/ Continue(r, refused))
  BY DEF Begin
<1> QED
  BY <1>4, <1>5, <1>6, <1>7, ReadingRunInv

(* What the batch of a run leaves behind.                                  *)
LEMMA ApplyWriteTables ==
  ASSUME AccountInv, NEW r \in Runs, WriteApplies(r), ApplyWrite(r),
         run[r].at = "write" \/ run[r].transit
  PROVE  /\ accounts' \in [Usernames -> Account]
         /\ sessions' \in [Tokens -> Session]
         /\ audit' \in [Usernames -> AuditTrail]
         /\ audit'[Smoke].last \in {audit[Smoke].last, Null, r}
         /\ SessionsFit'
<1> DEFINE u == run[r].user
<1>1. AccountsTypeOK /\ SessionsFit
  BY InvParts
<1>2. /\ run[r].op \in RunOperations /\ u \in Usernames
      /\ run[r].op \in SmokeOperations => u = Smoke
      /\ run[r].op # "disable" => run[r].hash \in Hash
  BY DEF AccountInv, RunsSound, RunSound
<1>3. WrittenAccount(r) \in Account
  <2>1. accounts[u] \in Account /\ accounts[Smoke] \in Account
    BY <1>1, <1>2, AccountsAssumption DEF AccountsTypeOK
  <2>2. CASE run[r].op = "provision"
    BY <1>2, <2>2 DEF WrittenAccount, Account, Roles
  <2>3. CASE run[r].op = "rotate"
    BY <1>2, <2>1, <2>3 DEF WrittenAccount, Account
  <2>4. CASE run[r].op = "disable"
    BY <2>1, <2>4 DEF WrittenAccount, Account
  <2>5. CASE run[r].op = "recover"
    BY <1>2, <2>1, <2>5 DEF WrittenAccount, Account
  <2> QED
    BY <1>2, <2>2, <2>3, <2>4, <2>5 DEF RunOperations
<1>4. accounts' \in [Usernames -> Account] /\ \A v \in Usernames \ {u} : accounts'[v] = accounts[v]
  BY <1>1, <1>2, <1>3 DEF ApplyWrite, AccountsTypeOK
<1>5. sessions' = Revoked(u, Null)
  BY DEF ApplyWrite, SessionsAfterWrite
<1>6. /\ sessions' \in [Tokens -> Session]
      /\ \A t \in Tokens : sessions'[t].state \in {"live", "expired"} =>
           sessions'[t] = sessions[t] /\ sessions[t].user # u
  BY <1>1, <1>5, NullAssumption, RevokedSessions
<1>7. /\ WrittenTrail(r) \in AuditTrail
      /\ u = Smoke => WrittenTrail(r).last \in {Null, r}
  <2>1. audit[u] \in AuditTrail /\ audit[Smoke] \in AuditTrail
    BY <1>1, <1>2, AccountsAssumption DEF AccountsTypeOK
  <2>2. CASE run[r].op = "recover"
    <3>1. WrittenTrail(r) = [audit[u] EXCEPT !.recovered = TRUE, !.last = Null]
      BY <2>2 DEF WrittenTrail
    <3> QED
      BY <2>1, <3>1 DEF AuditTrail
  <2>3. CASE run[r].op # "recover"
    <3>1. WrittenTrail(r) = [audit[Smoke] EXCEPT !.last = r]
      BY <2>3 DEF WrittenTrail
    <3> QED
      BY <2>1, <3>1 DEF AuditTrail
  <2> QED
    BY <2>2, <2>3
<1>8. audit' \in [Usernames -> AuditTrail] /\ audit'[Smoke].last \in {audit[Smoke].last, Null, r}
  BY <1>1, <1>2, <1>7, AccountsAssumption DEF ApplyWrite, AccountsTypeOK
<1>9. SessionsFit'
  <2> SUFFICES ASSUME NEW t \in Tokens, sessions'[t].state \in {"live", "expired"}
               PROVE  /\ sessions'[t].user \in Usernames
                      /\ accounts'[sessions'[t].user].life = "active"
                      /\ sessions'[t].state = "live" =>
                           sessions'[t].password = accounts'[sessions'[t].user].hash.password
    BY DEF SessionsFit, HasRow, Live, Active
  <2> QED
    BY <1>1, <1>4, <1>6 DEF SessionsFit, HasRow, Live, Active
<1> QED
  BY <1>4, <1>6, <1>8, <1>9

(* A batch that is applied, answered or late.                              *)
LEMMA AppliedInv ==
  ASSUME AccountInv, NEW r \in Runs, WriteApplies(r), ApplyWrite(r), UNCHANGED call,
         run[r].at = "write" \/ run[r].transit,
         NEW n \in Run, Continue(r, n), n.applied, ~n.transit, n.at \notin {"idle", "write"},
         n.op = run[r].op, n.user = run[r].user, n.hash = run[r].hash
  PROVE  AccountInv'
<1>1. AccountsTypeOK /\ CallsSound
  BY InvParts
<1>2. RunSound(r, run[r])
  BY DEF AccountInv, RunsSound
<1>3. RunSound(r, n)'
  BY <1>2 DEF RunSound
<1>4. /\ accounts' \in [Usernames -> Account]
      /\ sessions' \in [Tokens -> Session]
      /\ audit' \in [Usernames -> AuditTrail]
      /\ audit'[Smoke].last \in {audit[Smoke].last, Null, r}
      /\ SessionsFit'
  BY ApplyWriteTables
<1>5. run' \in [Runs -> Run] /\ RunsSound' /\ ReportsAreTruthful'
  BY <1>3, <1>4, ContinueIsSound
<1>6. AccountsTypeOK'
  BY <1>1, <1>4, <1>5 DEF AccountsTypeOK
<1>7. CallsSound'
  BY <1>1 DEF CallsSound, CallSound
<1> QED
  BY <1>4, <1>5, <1>6, <1>7, Assemble

LEMMA WriteAnsweredInv ==
  ASSUME AccountInv, NEW r \in Runs, WriteAnswered(r)
  PROVE  AccountInv'
<1> DEFINE n1 == [run[r] EXCEPT !.applied = TRUE, !.at = "postflight"]
           n2 == [run[r] EXCEPT !.applied = TRUE, !.at = "done", !.outcome = "failed"]
<1>1. run[r] \in Run /\ RunSound(r, run[r]) /\ run[r].at = "write"
  BY DEF AccountInv, AccountsWellTyped, AccountsTypeOK, RunsSound, WriteAnswered, RunIs
<1>2. ~run[r].transit
  BY <1>1 DEF RunSound
<1>3. ASSUME NEW n \in {n1, n2}
      PROVE  /\ n \in Run /\ n.applied /\ ~n.transit /\ n.at \notin {"idle", "write"}
             /\ n.op = run[r].op /\ n.user = run[r].user /\ n.hash = run[r].hash
  BY <1>1, <1>2 DEF Run
<1>4. \E n \in {n1, n2} : Continue(r, n)
  BY DEF WriteAnswered
<1>5. WriteApplies(r) /\ ApplyWrite(r) /\ UNCHANGED call
  BY DEF WriteAnswered
<1> QED
  BY <1>1, <1>3, <1>4, <1>5, AppliedInv

LEMMA LateWriteInv ==
  ASSUME AccountInv, NEW r \in Runs, LateWrite(r)
  PROVE  AccountInv'
<1> DEFINE n == [run[r] EXCEPT !.transit = FALSE, !.applied = WriteApplies(r)]
<1>1. run[r] \in Run /\ RunSound(r, run[r]) /\ run[r].transit
  BY DEF AccountInv, AccountsWellTyped, AccountsTypeOK, RunsSound, LateWrite
<1>2. WriteApplies(r) \in BOOLEAN
  BY <1>1 DEF WriteApplies, RunSound, RunOperations, RecoverableAdmin, Active
<1>3. /\ n \in Run /\ n.transit = FALSE /\ n.applied = WriteApplies(r) /\ n.at = run[r].at
      /\ n.op = run[r].op /\ n.user = run[r].user /\ n.hash = run[r].hash
      /\ n.outcome = run[r].outcome
  BY <1>1, <1>2 DEF Run
<1>4. run[r].at \notin {"idle", "write"} /\ ~run[r].applied /\ audit[Smoke].last # r
  BY <1>1 DEF RunSound
<1>5. run[r].outcome # "completed"
  BY <1>4 DEF AccountInv, ReportsAreTruthful
<1>6. Continue(r, n) /\ UNCHANGED call
  BY DEF LateWrite
<1>7. CASE WriteApplies(r)
  BY <1>1, <1>3, <1>4, <1>6, <1>7, AppliedInv DEF LateWrite
<1>8. CASE ~WriteApplies(r)
  <2>1. RunSound(r, n)
    BY <1>1, <1>3, <1>4, <1>8 DEF RunSound
  <2>2. UNCHANGED accountTables
    BY <1>8 DEF LateWrite
  <2> QED
    BY <1>3, <1>5, <1>6, <2>1, <2>2, ReadingRunInv
<1> QED
  BY <1>7, <1>8

LEMMA RunStepInv ==
  ASSUME AccountInv, NEW r \in Runs, RunStep(r)
  PROVE  AccountInv'
<1>1. AccountsTypeOK
  BY InvParts
<1>2. run[r] \in Run /\ RunSound(r, run[r])
  BY <1>1 DEF AccountInv, AccountsTypeOK, RunsSound
<1>3. ASSUME NEW op \in SmokeOperations, NEW p \in Passwords, BeginSmoke(r, op, p)
      PROVE  AccountInv'
  <2> DEFINE hash == IF op = "disable" THEN NoHash ELSE CreatedHash(p)
  <2>1. SaltLeft
    BY <1>3 DEF BeginSmoke, Begin
  <2>2. hash \in Hash \cup {NoHash} /\ (op # "disable" => hash \in Hash)
    BY <2>1, CreatedHashIsHash
  <2>3. SmokeAccepted(op) \in BOOLEAN
    BY DEF SmokeAccepted, SmokeOperations, Active
  <2>4. op \in RunOperations
    BY DEF SmokeOperations, RunOperations
  <2>5. Begin(r, op, Smoke, hash, SmokeAccepted(op))
    BY <1>3 DEF BeginSmoke
  <2> QED
    BY <2>2, <2>3, <2>4, <2>5, AccountsAssumption, BeginInv
<1>4. ASSUME NEW u \in Usernames, NEW p \in Passwords, BeginRecovery(r, u, p)
      PROVE  AccountInv'
  <2>1. SaltLeft
    BY <1>4 DEF BeginRecovery, Begin
  <2>2. CreatedHash(p) \in Hash
    BY <2>1, CreatedHashIsHash
  <2>3. RecoverableAdmin(u) \in BOOLEAN
    BY DEF RecoverableAdmin, Active
  <2>4. Begin(r, "recover", u, CreatedHash(p), RecoverableAdmin(u))
    BY <1>4 DEF BeginRecovery
  <2> QED
    BY <2>2, <2>3, <2>4, BeginInv DEF SmokeOperations, RunOperations
<1>5. CASE WriteUnanswered(r)
  <2>1. PICK late \in BOOLEAN :
          \/ /\ run[r].op \in SmokeOperations
             /\ Continue(r, [run[r] EXCEPT !.transit = late, !.at = "postflight"])
          \/ Continue(r, [run[r] EXCEPT !.at = "done", !.outcome = "failed"])
          \/ Continue(r, [run[r] EXCEPT !.transit = late, !.at = "done", !.outcome = "failed"])
    BY <1>5 DEF WriteUnanswered
  <2> DEFINE n1 == [run[r] EXCEPT !.transit = late, !.at = "postflight"]
             n2 == [run[r] EXCEPT !.at = "done", !.outcome = "failed"]
             n3 == [run[r] EXCEPT !.transit = late, !.at = "done", !.outcome = "failed"]
             Same(n) == /\ n \in Run
                        /\ n.op = run[r].op /\ n.user = run[r].user /\ n.hash = run[r].hash
                        /\ n.applied = run[r].applied
  <2>2. /\ Same(n1) /\ n1.at = "postflight" /\ n1.outcome = run[r].outcome
        /\ Same(n2) /\ n2.at = "done" /\ n2.outcome = "failed"
        /\ Same(n3) /\ n3.at = "done" /\ n3.outcome = "failed"
    BY <1>2 DEF Run
  <2>3. run[r].at = "write" /\ ~run[r].applied /\ UNCHANGED <<accountTables, call>>
    BY <1>2, <1>5 DEF WriteUnanswered, RunIs, RunSound
  <2>4. run[r].op \in SmokeOperations => RunSound(r, n1)
    BY <1>2, <2>2, <2>3 DEF RunSound, SmokeOperations
  <2>5. RunSound(r, n2) /\ RunSound(r, n3)
    BY <1>2, <2>2, <2>3 DEF RunSound
  <2>6. run[r].outcome # "completed"
    BY <2>3 DEF AccountInv, ReportsAreTruthful
  <2>7. CASE run[r].op \in SmokeOperations /\ Continue(r, n1)
    BY <2>2, <2>3, <2>4, <2>6, <2>7, ReadingRunInv
  <2>8. CASE Continue(r, n2)
    BY <2>2, <2>3, <2>5, <2>8, ReadingRunInv
  <2>9. CASE Continue(r, n3)
    BY <2>2, <2>3, <2>5, <2>9, ReadingRunInv
  <2> QED
    BY <2>1, <2>7, <2>8, <2>9
<1>6. CASE Postflight(r) \/ GiveUp(r)
  <2>1. PICK outcome \in {"completed", "failed"} :
          /\ Continue(r, [run[r] EXCEPT !.at = "done", !.outcome = outcome])
          /\ run[r].at \in {"write", "postflight"}
          /\ outcome = "completed" =>
               /\ run[r].at = "postflight"
               /\ IF run[r].op = "recover" THEN RecoveryVerified(r) ELSE SmokeVerified(r)
    BY <1>6 DEF Postflight, GiveUp, Finish, RunIs
  <2>2. outcome = "completed" => run[r].applied
    BY <1>2, <2>1 DEF RunSound, SmokeVerified, AuditedAsIntended
  <2> DEFINE n == [run[r] EXCEPT !.at = "done", !.outcome = outcome]
  <2>3. /\ n \in Run
        /\ n.op = run[r].op /\ n.user = run[r].user /\ n.hash = run[r].hash
        /\ n.applied = run[r].applied /\ n.transit = run[r].transit
        /\ n.at = "done" /\ n.outcome = outcome
    BY <1>2 DEF Run
  <2>4. RunSound(r, n)
    BY <1>2, <2>1, <2>3 DEF RunSound
  <2>5. UNCHANGED <<accountTables, call>>
    BY <1>6 DEF Postflight, GiveUp
  <2> QED
    BY <2>1, <2>2, <2>3, <2>4, <2>5, ReadingRunInv
<1> QED
  BY <1>3, <1>4, <1>5, <1>6, WriteAnsweredInv, LateWriteInv DEF RunStep

-----------------------------------------------------------------------------
LEMMA AccountStepInv ==
  ASSUME AccountInv, [AccountNext]_accountVars
  PROVE  AccountInv'
<1>1. CASE UNCHANGED accountVars
  BY <1>1, InvParts, Assemble
  DEF accountVars, accountTables, AccountsTypeOK, CallsSound, CallSound, RunsSound, RunSound,
      SessionsFit, HasRow, Live, Active, ReportsAreTruthful
<1>2. ASSUME NEW c \in Callers, SendCall(c) \/ CallStep(c) \/ DropCall(c)
      PROVE  AccountInv'
  BY <1>2, SendCallInv, CallStepInv, ReadingCallInv DEF DropCall, CallReplies
<1> QED
  BY <1>1, <1>2, RunStepInv, ExpireInv DEF AccountNext

(* The inductive invariant holds of every behaviour of the account service. *)
THEOREM AccountInvariance == AccountSpec => []AccountInv
<1>1. AccountsInit => AccountInv
  BY AccountInitInv
<1>2. AccountInv /\ [AccountNext]_accountVars => AccountInv'
  BY AccountStepInv
<1> QED
  BY <1>1, <1>2, PTL DEF AccountSpec

(* Accounts, sessions, calls and runs keep the values of the schema.       *)
THEOREM AccountTypeSafety == AccountSpec => []AccountsWellTyped
<1>1. AccountInv => AccountsWellTyped
  BY DEF AccountInv
<1> QED
  BY <1>1, AccountInvariance, PTL

(* authenticate, changeOwnPassword, resetPassword and the operator         *)
(* batches, in any order: no session outlives the password it stands on.   *)
THEOREM SessionSafety == AccountSpec => []SessionsHoldCurrentPassword
<1>1. AccountInv => SessionsHoldCurrentPassword
  BY DEF AccountInv
<1> QED
  BY <1>1, AccountInvariance, PTL

(* An account that a disable run switched off has no session left.         *)
THEOREM DisableSafety == AccountSpec => []InactiveAccountsHaveNoSessions
<1>1. AccountInv => InactiveAccountsHaveNoSessions
  BY DEF AccountInv
<1> QED
  BY <1>1, AccountInvariance, PTL

(* A script that says it completed has had its own batch applied.          *)
THEOREM ReportSafety == AccountSpec => []ReportsAreTruthful
<1>1. AccountInv => ReportsAreTruthful
  BY DEF AccountInv
<1> QED
  BY <1>1, AccountInvariance, PTL
=============================================================================
