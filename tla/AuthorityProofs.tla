--------------------------- MODULE AuthorityProofs ---------------------------
(***************************************************************************)
(* The account service implements SessionAuthority, for any set of         *)
(* callers, operator runs, accounts, passwords, salts and tokens.          *)
(***************************************************************************)
EXTENDS AccountProofs

(* The abstract variables have the values that the specification expects.  *)
LEMMA AuthorityTypes ==
  ASSUME AccountInv
  PROVE  /\ DOMAIN password = Usernames /\ DOMAIN active = Usernames /\ DOMAIN open = Tokens
         /\ \A t \in Tokens : open[t].user \in Usernames =>
              /\ Live(t) /\ open[t].user = sessions[t].user
              /\ Active(open[t].user)
<1>1. SessionsFit
  BY InvParts
<1> QED
  BY <1>1, NullAssumption DEF password, active, open, OpenSession, SessionsFit, HasRow, Live

(* The first accounts are initial states of the abstract specification.    *)
LEMMA AuthorityInitMaps == AccountsInit => Authority!Init
<1> SUFFICES ASSUME AccountsInit PROVE Authority!Init
  OBVIOUS
<1>1. PICK first \in [Usernames -> Passwords], provisioned \in Provisioned :
        accounts = [u \in Usernames |-> FirstAccount(u, first[u], provisioned)]
  BY DEF AccountsInit
<1>2. ASSUME NEW u \in Usernames
      PROVE  /\ accounts[u].hash.password \in Passwords \cup {Null}
             /\ Active(u) <=> accounts[u].hash.password # Null
  <2>1. accounts[u] = FirstAccount(u, first[u], provisioned) /\ first[u] \in Passwords
    BY <1>1
  <2>2. first[u] # Null
    BY <2>1, NullAssumption
  <2> QED
    BY <2>1, <2>2 DEF FirstAccount, LegacyHash, NoAccount, NoHash, Active
<1>3. \A t \in Tokens : OpenSession(t) = [user |-> Null, password |-> Null]
  BY DEF AccountsInit, OpenSession, Live, NoSession
<1>4. password \in [Usernames -> Passwords \cup {Null}]
  BY <1>2 DEF password
<1>5. active = [u \in Usernames |-> password[u] # Null]
  <2>1. \A u \in Usernames : Active(u) = (password[u] # Null)
    BY <1>2 DEF Active, password
  <2> QED
    BY <2>1 DEF active
<1>6. open = [t \in Tokens |-> Authority!Closed]
  BY <1>3 DEF open, Authority!Closed
<1> QED
  BY <1>4, <1>5, <1>6 DEF Authority!Init

(* A step that touches neither a password, an account's life nor a live    *)
(* session is a stutter.                                                   *)
LEMMA QuietStep ==
  ASSUME \A u \in Usernames : /\ accounts'[u].hash.password = accounts[u].hash.password
                              /\ accounts'[u].life = accounts[u].life,
         \A t \in Tokens : OpenSession(t)' = OpenSession(t)
  PROVE  UNCHANGED Authority!vars
<1>1. UNCHANGED <<password, active>>
  BY DEF password, active, Active
<1>2. UNCHANGED open
  BY DEF open
<1> QED
  BY <1>1, <1>2 DEF Authority!vars

(* A session of which only its end is seen.                                *)
LEMMA EndedSession ==
  ASSUME NEW t \in Tokens, UNCHANGED accounts,
         sessions'[t].state # "live",
         \A s \in Tokens \ {t} : sessions'[s] = sessions[s]
  PROVE  Authority!Close(t)
<1>1. OpenSession(t)' = Authority!Closed
  BY DEF OpenSession, Live, Authority!Closed
<1>2. \A s \in Tokens \ {t} : OpenSession(s)' = OpenSession(s)
  BY DEF OpenSession, Live
<1>3. open' = [open EXCEPT ![t] = Authority!Closed]
  BY <1>1, <1>2 DEF open
<1>4. UNCHANGED <<password, active>>
  BY DEF password, active, Active
<1> QED
  BY <1>3, <1>4 DEF Authority!Close

(* Revoking the sessions of an account closes them and no other.           *)
LEMMA RevokedIsRekeyed ==
  ASSUME AccountInv, NEW u \in Usernames, NEW p, sessions' = Revoked(u, Null)
  PROVE  open' = Authority!Rekeyed(u, {}, p)
<1>1. AccountsTypeOK
  BY InvParts
<1>2. ASSUME NEW t \in Tokens
      PROVE  open'[t] = IF open[t].user # u THEN open[t] ELSE Authority!Closed
  <2>1. /\ sessions'[t].state = "live" => sessions'[t] = sessions[t] /\ sessions[t].user # u
        /\ sessions[t].user # u => sessions'[t] = sessions[t]
    BY <1>1, NullAssumption, RevokedSessions
  <2>2. open'[t] = OpenSession(t)' /\ open[t] = OpenSession(t)
    BY DEF open
  <2>3. Null # u
    BY NullAssumption
  <2> QED
    BY <2>1, <2>2, <2>3 DEF OpenSession, Live, Authority!Closed
<1>3. open' = [t \in Tokens |-> IF open[t].user # u THEN open[t] ELSE Authority!Closed]
  <2>1. open' = [t \in Tokens |-> open'[t]]
    BY DEF open
  <2> QED
    BY <1>2, <2>1
<1> QED
  BY <1>3 DEF Authority!Rekeyed

-----------------------------------------------------------------------------
(* A login that is granted is one atomic login.                            *)
LEMMA CommitLoginMaps ==
  ASSUME AccountInv, NEW c \in Callers, CommitLogin(c)
  PROVE  [Authority!Next]_(Authority!vars)
<1> DEFINE r == call[c]
<1>1. AccountsTypeOK
  BY InvParts
<1>2. r.user \in Usernames /\ r.password \in Passwords /\ r.hash.password = r.password
  BY DEF AccountInv, CallsSound, CallSound, CallIs, CommitLogin
<1>3. \A u \in Usernames : /\ accounts'[u].hash.password = accounts[u].hash.password
                           /\ accounts'[u].life = accounts[u].life
  <2>1. CASE r.hash.scheme = "legacy" /\ UpgradeGuard(r)
    <3>1. accounts' = PasswordSet(r.user, r.password) /\ SaltLeft
      BY <2>1 DEF CommitLogin, Upgraded, PasswordSet
    <3>2. accounts[r.user].hash.password = r.password
      BY <1>2, <2>1 DEF UpgradeGuard
    <3> QED
      BY <1>1, <1>2, <3>1, <3>2, PasswordSetAccounts
  <2>2. CASE ~(r.hash.scheme = "legacy" /\ UpgradeGuard(r))
    BY <2>2 DEF CommitLogin, Upgraded
  <2> QED
    BY <2>1, <2>2
<1>4. CASE SessionGuard(r)
  <2>1. PICK t \in Tokens :
          /\ sessions[t].state = "unused"
          /\ sessions' = [sessions EXCEPT ![t] = [state |-> "live", user |-> r.user,
                                                  password |-> r.password]]
    BY <1>4 DEF CommitLogin, GrantSession
  <2>2. open[t] = Authority!Closed
    BY <2>1 DEF open, OpenSession, Live, Authority!Closed
  <2>3. OpenSession(t)' = [user |-> r.user, password |-> r.password]
    BY <1>1, <2>1 DEF OpenSession, Live, AccountsTypeOK
  <2>4. \A s \in Tokens \ {t} : OpenSession(s)' = OpenSession(s)
    BY <1>1, <2>1 DEF OpenSession, Live, AccountsTypeOK
  <2>5. open' = [open EXCEPT ![t] = [user |-> r.user, password |-> r.password]]
    BY <2>3, <2>4 DEF open
  <2>6. UNCHANGED <<password, active>>
    BY <1>3 DEF password, active, Active
  <2>7. active[r.user] /\ r.password = password[r.user]
    BY <1>2, <1>4 DEF SessionGuard, active, password
  <2>8. Authority!Login(t, r.user, r.password)
    BY <2>2, <2>5, <2>6, <2>7 DEF Authority!Login
  <2> QED
    BY <1>2, <2>1, <2>8 DEF Authority!Next
<1>5. CASE ~SessionGuard(r)
  <2>1. UNCHANGED sessions
    BY <1>5 DEF CommitLogin
  <2> QED
    BY <1>3, <2>1, QuietStep DEF OpenSession, Live
<1> QED
  BY <1>4, <1>5

(* Logout and expiry close one session.                                    *)
LEMMA EndingMaps ==
  ASSUME AccountInv,
         \/ \E c \in Callers : CommitLogout(c)
         \/ \E t \in Tokens : Expire(t)
  PROVE  [Authority!Next]_(Authority!vars)
<1>1. AccountsTypeOK
  BY InvParts
<1>2. ASSUME NEW c \in Callers, CommitLogout(c)
      PROVE  [Authority!Next]_(Authority!vars)
  <2> DEFINE t == call[c].token
  <2>1. UNCHANGED accounts
    BY <1>2 DEF CommitLogout
  <2>2. CASE t \in SessionRows(call[c].user)
    <3>1. t \in Tokens /\ sessions' = [sessions EXCEPT ![t].state = "gone"]
      BY <1>2, <2>2 DEF CommitLogout, SessionRows
    <3>2. sessions'[t].state = "gone" /\ \A s \in Tokens \ {t} : sessions'[s] = sessions[s]
      BY <1>1, <3>1 DEF AccountsTypeOK, Session
    <3>3. Authority!Close(t)
      BY <2>1, <3>1, <3>2, EndedSession
    <3> QED
      BY <3>1, <3>3 DEF Authority!Next
  <2>3. CASE t \notin SessionRows(call[c].user)
    <3>1. UNCHANGED sessions
      BY <1>2, <2>3 DEF CommitLogout
    <3> QED
      BY <2>1, <3>1, QuietStep DEF OpenSession, Live
  <2> QED
    BY <2>2, <2>3
<1>3. ASSUME NEW t \in Tokens, Expire(t)
      PROVE  [Authority!Next]_(Authority!vars)
  <2>1. sessions'[t].state = "expired" /\ \A s \in Tokens \ {t} : sessions'[s] = sessions[s]
    BY <1>1, <1>3 DEF Expire, AccountsTypeOK, Session
  <2>2. Authority!Close(t)
    BY <1>3, <2>1, EndedSession DEF Expire
  <2> QED
    BY <2>2 DEF Authority!Next
<1> QED
  BY <1>2, <1>3

LEMMA CleanupMaps ==
  ASSUME AccountInv, NEW c \in Callers, Cleanup(c)
  PROVE  UNCHANGED Authority!vars
<1>1. AccountsTypeOK
  BY InvParts
<1>2. ASSUME NEW t \in Tokens
      PROVE  OpenSession(t)' = OpenSession(t)
  <2>1. sessions'[t] = IF sessions[t].state = "expired"
                       THEN [sessions[t] EXCEPT !.state = "gone"] ELSE sessions[t]
    BY <1>2 DEF Cleanup
  <2>2. sessions[t] \in Session
    BY <1>1 DEF AccountsTypeOK
  <2> QED
    BY <2>1, <2>2 DEF Session, OpenSession, Live
<1>3. UNCHANGED accounts
  BY DEF Cleanup
<1> QED
  BY <1>2, <1>3, QuietStep

(* An account whose record is replaced, and whose sessions were revoked.   *)
LEMMA AccountWritten ==
  ASSUME AccountInv, NEW u \in Usernames, NEW account \in Account,
         accounts' = [accounts EXCEPT ![u] = account]
  PROVE  /\ password' = [password EXCEPT ![u] = account.hash.password]
         /\ active' = [active EXCEPT ![u] = (account.life = "active")]
<1>1. accounts \in [Usernames -> Account]
  BY InvParts DEF AccountsTypeOK
<1>2. accounts'[u] = account /\ \A v \in Usernames \ {u} : accounts'[v] = accounts[v]
  BY <1>1
<1>3. password' = [password EXCEPT ![u] = account.hash.password]
  <2>1. DOMAIN password = Usernames /\ password' = [v \in Usernames |-> password'[v]]
    BY DEF password
  <2>2. \A v \in Usernames : password[v] = accounts[v].hash.password
                           /\ password'[v] = accounts'[v].hash.password
    BY DEF password
  <2>3. password'[u] = account.hash.password
    BY <1>2, <2>2
  <2>4. \A v \in Usernames \ {u} : password'[v] = password[v]
    BY <1>2, <2>2
  <2> QED
    BY <2>1, <2>3, <2>4
<1>4. active' = [active EXCEPT ![u] = (account.life = "active")]
  <2>1. Active(u)' = (account.life = "active")
    BY <1>2 DEF Active
  <2>2. \A v \in Usernames \ {u} : Active(v)' = Active(v)
    BY <1>2 DEF Active
  <2> QED
    BY <2>1, <2>2 DEF active
<1> QED
  BY <1>3, <1>4

(* A created account has no session yet, so none is closed.                *)
LEMMA CommitCreateUserMaps ==
  ASSUME AccountInv, NEW c \in Callers, CommitCreateUser(c)
  PROVE  [Authority!Next]_(Authority!vars)
<1> DEFINE r == call[c]
           u == r.target
           account == [life |-> "active", role |-> r.role, hash |-> CreatedHash(r.new)]
<1>1. u \in Usernames /\ r.role \in Roles /\ r.new \in Passwords /\ SaltLeft
  BY DEF AccountInv, CallsSound, CallSound, CommitCreateUser, CallIs
<1>2. CreatedHash(r.new) \in Hash /\ CreatedHash(r.new).password = r.new
  BY <1>1, CreatedHashIsHash
<1>3. account \in Account
  BY <1>1, <1>2 DEF Account
<1>4. UNCHANGED open
  BY DEF CommitCreateUser, open, OpenSession, Live
<1>5. CASE NameIsFree(u) /\ accounts' = [accounts EXCEPT ![u] = account]
  <2>1. ~Active(u)
    BY <1>5 DEF NameIsFree, Active
  <2>2. \A t \in Tokens : open[t].user # u
    BY <1>1, <2>1, AuthorityTypes
  <2>3. open = [t \in Tokens |-> open[t]]
    BY DEF open
  <2>4. open' = Authority!Rekeyed(u, {}, r.new)
    BY <1>4, <2>2, <2>3 DEF Authority!Rekeyed
  <2>5. /\ password' = [password EXCEPT ![u] = r.new]
        /\ active' = [active EXCEPT ![u] = TRUE]
    BY <1>1, <1>2, <1>3, <1>5, AccountWritten
  <2>6. Authority!SetPassword(u, r.new, TRUE)
    BY <2>4, <2>5 DEF Authority!SetPassword
  <2> QED
    BY <1>1, <2>6 DEF Authority!Next
<1>6. CASE UNCHANGED accounts
  BY <1>4, <1>6 DEF Authority!vars, password, active, Active
<1> QED
  BY <1>5, <1>6 DEF CommitCreateUser

(* A password that is set, by its owner or by an administrator.            *)
LEMMA PasswordSetMaps ==
  ASSUME AccountInv, NEW u \in Usernames, NEW p \in Passwords, SaltLeft,
         accounts' = PasswordSet(u, p),
         \/ open' = Authority!Rekeyed(u, {}, p)
         \/ \E t \in Tokens : open' = Authority!Rekeyed(u, {t}, p)
  PROVE  Authority!Next
<1>1. /\ accounts'[u].hash.password = p
      /\ \A v \in Usernames : /\ accounts'[v].life = accounts[v].life
                              /\ v # u => accounts'[v] = accounts[v]
  BY InvParts, PasswordSetAccounts
<1>2. password' = [password EXCEPT ![u] = p]
  BY <1>1 DEF password
<1>3. active' = [active EXCEPT ![u] = active[u]]
  BY <1>1 DEF active, Active
<1>4. Authority!SetPassword(u, p, active[u])
  BY <1>2, <1>3 DEF Authority!SetPassword
<1>5. active[u] \in BOOLEAN
  BY DEF active, Active
<1> QED
  BY <1>4, <1>5 DEF Authority!Next

LEMMA CommitResetMaps ==
  ASSUME AccountInv, NEW c \in Callers, CommitReset(c)
  PROVE  Authority!Next
<1> DEFINE r == call[c]
<1>1. r.target \in Usernames /\ r.new \in Passwords
  BY DEF AccountInv, CallsSound, CallSound, CommitReset, CallIs
<1>2. /\ SaltLeft /\ accounts' = PasswordSet(r.target, r.new)
      /\ sessions' = Revoked(r.target, Null)
  BY DEF CommitReset
<1>3. open' = Authority!Rekeyed(r.target, {}, r.new)
  BY <1>1, <1>2, RevokedIsRekeyed
<1> QED
  BY <1>1, <1>2, <1>3, PasswordSetMaps

(* The session that presents the change goes on, if it is still there.     *)
LEMMA CommitChangeOwnMaps ==
  ASSUME AccountInv, NEW c \in Callers, CommitChangeOwn(c)
  PROVE  Authority!Next
<1> DEFINE r == call[c]
           u == r.user
           keep == r.token
<1>1. u \in Usernames /\ r.new \in Passwords
  BY DEF AccountInv, CallsSound, CallSound, CommitChangeOwn, CallIs
<1>2. SaltLeft /\ accounts' = PasswordSet(u, r.new) /\ sessions' = SessionsAfterChange(r)
  BY DEF CommitChangeOwn
<1>3. AccountsTypeOK
  BY InvParts
<1>4. CASE keep \in SessionRows(u)
  <2>1. keep \in Tokens /\ HasRow(keep) /\ sessions[keep].user = u
    BY <1>4 DEF SessionRows
  <2>2. sessions' = [Revoked(u, keep) EXCEPT ![keep].password = r.new]
    BY <1>2, <1>4 DEF SessionsAfterChange
  <2>3. /\ Revoked(u, keep) \in [Tokens -> Session]
        /\ Revoked(u, keep)[keep] = sessions[keep]
        /\ \A t \in Tokens \ {keep} :
             /\ Revoked(u, keep)[t].state = "live" =>
                  Revoked(u, keep)[t] = sessions[t] /\ sessions[t].user # u
             /\ sessions[t].user # u => Revoked(u, keep)[t] = sessions[t]
    BY <1>3, <2>1, RevokedSessions
  <2>4. /\ sessions'[keep] = [sessions[keep] EXCEPT !.password = r.new]
        /\ \A t \in Tokens \ {keep} : sessions'[t] = Revoked(u, keep)[t]
    BY <2>1, <2>2, <2>3
  <2>5. sessions[keep] \in Session /\ Null # u
    BY <1>1, <1>3, <2>1, NullAssumption DEF AccountsTypeOK
  <2>6. open'[keep] = IF open[keep].user # u THEN open[keep]
                      ELSE [user |-> u, password |-> r.new]
    BY <2>1, <2>4, <2>5 DEF open, OpenSession, Live, Session
  <2>7. ASSUME NEW t \in Tokens \ {keep}
        PROVE  open'[t] = IF open[t].user # u THEN open[t] ELSE Authority!Closed
    BY <2>3, <2>4, <2>5 DEF open, OpenSession, Live, Authority!Closed
  <2>8. open' = [t \in Tokens |-> IF open[t].user # u THEN open[t]
                                  ELSE IF t \in {keep} THEN [user |-> u, password |-> r.new]
                                       ELSE Authority!Closed]
    <3>1. open' = [t \in Tokens |-> open'[t]]
      BY DEF open
    <3> QED
      BY <2>6, <2>7, <3>1
  <2>9. open' = Authority!Rekeyed(u, {keep}, r.new)
    BY <2>8 DEF Authority!Rekeyed
  <2> QED
    BY <1>1, <1>2, <2>1, <2>9, PasswordSetMaps
<1>5. CASE keep \notin SessionRows(u)
  <2>1. sessions' = Revoked(u, Null)
    BY <1>2, <1>5, NullAssumption DEF SessionsAfterChange, Revoked, SessionRows
  <2>2. open' = Authority!Rekeyed(u, {}, r.new)
    BY <1>1, <2>1, RevokedIsRekeyed
  <2> QED
    BY <1>1, <1>2, <2>2, PasswordSetMaps
<1> QED
  BY <1>4, <1>5

-----------------------------------------------------------------------------
(* The batch of an operator run sets a password or switches an account off. *)
LEMMA ApplyWriteMaps ==
  ASSUME AccountInv, NEW r \in Runs, WriteApplies(r), ApplyWrite(r),
         run[r].at = "write" \/ run[r].transit
  PROVE  Authority!Next
<1> DEFINE u == run[r].user
           account == WrittenAccount(r)
           p == account.hash.password
<1>1. AccountsTypeOK
  BY InvParts
<1>2. /\ run[r].op \in RunOperations /\ u \in Usernames
      /\ run[r].op \in SmokeOperations => u = Smoke
      /\ run[r].op # "disable" => run[r].hash \in Hash
  BY DEF AccountInv, RunsSound, RunSound
<1>3. accounts[u] \in Account
  BY <1>1, <1>2 DEF AccountsTypeOK
<1>4. /\ account \in Account
      /\ run[r].op # "disable" => account.life = "active" /\ p \in Passwords
      /\ run[r].op = "disable" =>
           account.life = "inactive" /\ account.hash = accounts[u].hash
  <2>1. CASE run[r].op = "provision"
    BY <1>2, <2>1, HashHasPassword DEF WrittenAccount, Account, Roles
  <2>2. CASE run[r].op = "rotate"
    BY <1>2, <1>3, <2>2, HashHasPassword DEF WrittenAccount, Account, SmokeOperations
  <2>3. CASE run[r].op = "disable"
    BY <1>2, <1>3, <2>3 DEF WrittenAccount, Account, SmokeOperations
  <2>4. CASE run[r].op = "recover"
    BY <1>2, <1>3, <2>4, HashHasPassword
       DEF WrittenAccount, Account, WriteApplies, RecoverableAdmin, Active
  <2> QED
    BY <1>2, <2>1, <2>2, <2>3, <2>4 DEF RunOperations
<1>5. accounts' = [accounts EXCEPT ![u] = account] /\ sessions' = Revoked(u, Null)
  BY DEF ApplyWrite, SessionsAfterWrite
<1> HIDE DEF account
<1>6. /\ password' = [password EXCEPT ![u] = p]
      /\ active' = [active EXCEPT ![u] = (account.life = "active")]
  BY <1>2, <1>4, <1>5, AccountWritten
<1>7. CASE run[r].op # "disable"
  <2>1. open' = Authority!Rekeyed(u, {}, p)
    BY <1>2, <1>5, RevokedIsRekeyed
  <2>2. active' = [active EXCEPT ![u] = TRUE]
    BY <1>4, <1>6, <1>7
  <2>3. Authority!SetPassword(u, p, TRUE)
    BY <1>6, <2>1, <2>2 DEF Authority!SetPassword
  <2> QED
    BY <1>2, <1>4, <1>7, <2>3 DEF Authority!Next
<1>8. CASE run[r].op = "disable"
  <2>1. open' = Authority!Rekeyed(u, {}, password[u])
    BY <1>2, <1>5, RevokedIsRekeyed
  <2>2. active' = [active EXCEPT ![u] = FALSE]
    BY <1>4, <1>6, <1>8
  <2>3. UNCHANGED password
    BY <1>2, <1>4, <1>6, <1>8 DEF password
  <2>4. Authority!Deactivate(u)
    BY <2>1, <2>2, <2>3 DEF Authority!Deactivate
  <2> QED
    BY <1>2, <2>4 DEF Authority!Next
<1> QED
  BY <1>7, <1>8

(* Steps that write no table are stutters.                                 *)
LEMMA UntouchedTablesStutter ==
  ASSUME UNCHANGED accountTables
  PROVE  UNCHANGED Authority!vars
BY QuietStep DEF accountTables, OpenSession, Live

-----------------------------------------------------------------------------
(* Every step is one of the abstract specification, or a stutter.          *)
LEMMA AccountNextMaps ==
  ASSUME AccountInv, [AccountNext]_accountVars
  PROVE  [Authority!Next]_(Authority!vars)
<1>1. CASE UNCHANGED accountVars
  BY <1>1, UntouchedTablesStutter DEF accountVars
<1>2. ASSUME NEW c \in Callers, SendCall(c) \/ DropCall(c)
      PROVE  [Authority!Next]_(Authority!vars)
  BY <1>2, UntouchedTablesStutter
     DEF SendCall, DropCall, BeginLogin, BeginLogout, BeginChangeOwn, BeginReset,
         BeginCreateUser, Authenticated
<1>3. ASSUME NEW c \in Callers, CallStep(c)
      PROVE  [Authority!Next]_(Authority!vars)
  <2>1. CASE LookupNewName(c) \/ ReadBackUser(c) \/ VerifyOwnPassword(c) \/ LookupTarget(c)
    BY <2>1, UntouchedTablesStutter
       DEF LookupNewName, ReadBackUser, VerifyOwnPassword, LookupTarget
  <2>2. CASE ~(LookupNewName(c) \/ ReadBackUser(c) \/ VerifyOwnPassword(c) \/ LookupTarget(c))
    BY <1>3, <2>2, CommitLoginMaps, CleanupMaps, EndingMaps, CommitCreateUserMaps,
       CommitChangeOwnMaps, CommitResetMaps
       DEF CallStep
  <2> QED
    BY <2>1, <2>2
<1>4. ASSUME NEW r \in Runs, RunStep(r)
      PROVE  [Authority!Next]_(Authority!vars)
  <2>1. CASE WriteAnswered(r) \/ (LateWrite(r) /\ WriteApplies(r))
    BY <2>1, ApplyWriteMaps DEF WriteAnswered, LateWrite, RunIs
  <2>2. CASE ~(WriteAnswered(r) \/ (LateWrite(r) /\ WriteApplies(r)))
    BY <1>4, <2>2, UntouchedTablesStutter
       DEF RunStep, BeginSmoke, BeginRecovery, Begin, WriteUnanswered, LateWrite, Postflight,
           GiveUp
  <2> QED
    BY <2>1, <2>2
<1>5. ASSUME NEW t \in Tokens, Expire(t)
      PROVE  [Authority!Next]_(Authority!vars)
  BY <1>5, EndingMaps
<1> QED
  BY <1>1, <1>2, <1>3, <1>4, <1>5 DEF AccountNext

(* Whatever calls and runs overlap, a session opens only with the password *)
(* of that moment, and a password that is set, or an account switched off, *)
(* ends every session but at most the one that set it.                     *)
THEOREM AuthorityRefinement == AccountSpec => ImplementsAuthority
<1>1. AccountInv /\ [AccountNext]_accountVars => [Authority!Next]_(Authority!vars)
  BY AccountNextMaps
<1> QED
  BY <1>1, AuthorityInitMaps, AccountInvariance, PTL
  DEF AccountSpec, ImplementsAuthority, Authority!Spec
=============================================================================
