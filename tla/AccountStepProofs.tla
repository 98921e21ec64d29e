-------------------------- MODULE AccountStepProofs --------------------------
(***************************************************************************)
(* What a step of the account service may never do: end a session for no   *)
(* reason of its account, change a password by a login, bring a legacy     *)
(* hash back, or revive an account other than by a rotation.               *)
(***************************************************************************)
EXTENDS AccountProofs, FiniteSetTheorems

(* A run whose batch can still be applied.                                 *)
Pending(r) == RunIs(r, "write") \/ run[r].transit

(* The hash that a pending run brings is salted, and nobody else's.        *)
HashIsOwn(r) ==
  /\ run[r].hash.scheme # "legacy"
  /\ Pending(r) /\ run[r].op # "disable" =>
       /\ \A u \in Usernames : accounts[u].hash.salt # run[r].hash.salt
       /\ \A q \in Runs \ {r} : run[q].hash.salt # run[r].hash.salt

HashesAreOwn == \A r \in Runs : HashIsOwn(r)

(* Only a call that has committed has a reply of success.                  *)
RepliesComeLast ==
  \A c \in Callers : call[c].at \in {"lookup", "commit"} => call[c].reply # "ok"

StepInv == AccountInv /\ HashesAreOwn /\ RepliesComeLast

-----------------------------------------------------------------------------
(* The steps in terms of accounts, calls and runs.                         *)

FreshlySalted(h) == h.scheme = "pbkdf2" /\ h.salt = FreshSalt

LEMMA FreshSaltIsUnused ==
  ASSUME SaltLeft
  PROVE  /\ \A u \in Usernames : accounts[u].hash.salt # FreshSalt
         /\ \A r \in Runs : run[r].hash.salt # FreshSalt
<1>1. FreshSalt \notin SaltsInUse
  BY DEF SaltLeft, FreshSalt
<1> QED
  BY <1>1 DEF SaltsInUse

LEMMA CreatedHashIsFresh ==
  ASSUME NEW p
  PROVE  FreshlySalted(CreatedHash(p))
BY DEF CreatedHash, FreshlySalted

LEMMA PasswordSetIsFresh ==
  ASSUME AccountsTypeOK, NEW u \in Usernames, NEW p
  PROVE  /\ FreshlySalted(PasswordSet(u, p)[u].hash)
         /\ PasswordSet(u, p)[u].life = accounts[u].life
         /\ \A v \in Usernames \ {u} : PasswordSet(u, p)[v] = accounts[v]
<1>1. accounts[u] \in Account
  BY DEF AccountsTypeOK
<1>2. PasswordSet(u, p)[u] = [accounts[u] EXCEPT !.hash = CreatedHash(p)]
  BY DEF PasswordSet, AccountsTypeOK
<1>3. PasswordSet(u, p)[u].hash = CreatedHash(p) /\ PasswordSet(u, p)[u].life = accounts[u].life
  BY <1>1, <1>2 DEF Account
<1>4. \A v \in Usernames \ {u} : PasswordSet(u, p)[v] = accounts[v]
  BY DEF PasswordSet, AccountsTypeOK
<1> QED
  BY <1>3, <1>4, CreatedHashIsFresh

(* What a step of a call makes of an account.                              *)
WrittenByCall(u) ==
  \/ accounts'[u] = accounts[u]
  \/ /\ SaltLeft /\ FreshlySalted(accounts'[u].hash)
     /\ accounts[u].life # "absent" => accounts'[u].life = accounts[u].life

LEMMA CallEffects ==
  ASSUME AccountInv, NEW c \in Callers, SendCall(c) \/ CallStep(c) \/ DropCall(c)
  PROVE  /\ UNCHANGED run
         /\ \A d \in Callers \ {c} : call'[d] = call[d]
         /\ \A u \in Usernames : WrittenByCall(u)
<1>1. AccountsTypeOK /\ CallSound(call[c])
  BY InvParts DEF CallsSound
<1>2. UNCHANGED run
  BY DEF SendCall, CallStep, DropCall, BeginLogin, BeginLogout, BeginChangeOwn, BeginReset,
     BeginCreateUser, Authenticated, CommitLogin, Cleanup, CommitLogout, LookupNewName,
     CommitCreateUser, ReadBackUser, VerifyOwnPassword, CommitChangeOwn, LookupTarget, CommitReset
<1>3. \E n : Proceed(c, n)
  BY DEF SendCall, CallStep, DropCall, BeginLogin, BeginLogout, BeginChangeOwn, BeginReset,
     BeginCreateUser, Authenticated, CommitLogin, GrantSession, Cleanup, CommitLogout,
     LookupNewName, CommitCreateUser, ReadBackUser, VerifyOwnPassword, CommitChangeOwn,
     LookupTarget, CommitReset, Reply
<1>4. \A d \in Callers \ {c} : call'[d] = call[d]
  BY <1>1, <1>3 DEF Proceed, AccountsTypeOK
<1>5. ASSUME NEW u \in Usernames PROVE WrittenByCall(u)
  <2>1. CASE CommitLogin(c)
    <3>1. call[c].user \in Usernames
      BY <1>1, <2>1 DEF CommitLogin, CallIs, CallSound
    <3>2. SaltLeft /\ (UNCHANGED accounts \/ accounts' = PasswordSet(call[c].user, call[c].password))
      BY <2>1 DEF CommitLogin, Upgraded, PasswordSet
    <3> QED
      BY <1>1, <3>1, <3>2, PasswordSetIsFresh DEF WrittenByCall
  <2>2. CASE CommitCreateUser(c)
    <3> DEFINE new == [life |-> "active", role |-> call[c].role, hash |-> CreatedHash(call[c].new)]
    <3>1. CASE UNCHANGED accounts
      BY <3>1 DEF WrittenByCall
    <3>2. CASE /\ NameIsFree(call[c].target)
               /\ accounts' = [accounts EXCEPT ![call[c].target] = new]
      <4>1. accounts'[u] = accounts[u] \/ (u = call[c].target /\ accounts'[u] = new)
        BY <1>1, <3>2 DEF AccountsTypeOK
      <4>2. new.hash = CreatedHash(call[c].new) /\ SaltLeft
        BY <2>2 DEF CommitCreateUser
      <4> QED
        BY <3>2, <4>1, <4>2, CreatedHashIsFresh DEF WrittenByCall, NameIsFree
    <3> QED
      BY <2>2, <3>1, <3>2 DEF CommitCreateUser
  <2>3. CASE CommitChangeOwn(c)
    <3>1. call[c].user \in Usernames
      BY <1>1, <2>3 DEF CommitChangeOwn, CallIs, CallSound
    <3> QED
      BY <1>1, <2>3, <3>1, PasswordSetIsFresh DEF CommitChangeOwn, WrittenByCall
  <2>4. CASE CommitReset(c)
    <3>1. call[c].target \in Usernames
      BY <1>1, <2>4 DEF CommitReset, CallIs, CallSound
    <3> QED
      BY <1>1, <2>4, <3>1, PasswordSetIsFresh DEF CommitReset, WrittenByCall
  <2>5. CASE ~(CommitLogin(c) \/ CommitCreateUser(c) \/ CommitChangeOwn(c) \/ CommitReset(c))
    <3>1. UNCHANGED accounts
      BY <2>5 DEF SendCall, CallStep, DropCall, BeginLogin, BeginLogout, BeginChangeOwn,
         BeginReset, BeginCreateUser, Authenticated, Cleanup, CommitLogout, LookupNewName,
         ReadBackUser, VerifyOwnPassword, LookupTarget, accountTables
    <3> QED
      BY <3>1 DEF WrittenByCall
  <2> QED
    BY <2>1, <2>2, <2>3, <2>4, <2>5
<1> QED
  BY <1>2, <1>4, <1>5

(* A step of a run begins it, or keeps what it brings, and either writes   *)
(* nothing or applies its batch, which can be applied once only.           *)
Begins(r) ==
  /\ UNCHANGED accountTables /\ SaltLeft
  /\ \/ run'[r].hash = NoHash /\ run'[r].op = "disable"
     \/ FreshlySalted(run'[r].hash)

GoesOn(r) ==
  /\ run'[r].hash = run[r].hash /\ run'[r].op = run[r].op
  /\ Pending(r)' => Pending(r)
  /\ \/ UNCHANGED accountTables
     \/ /\ Pending(r) /\ ~Pending(r)' /\ ~run[r].applied /\ run'[r].applied
        /\ WriteApplies(r) /\ ApplyWrite(r)

LEMMA BeginEffect ==
  ASSUME AccountInv, NEW r \in Runs, NEW op, NEW u, NEW hash, NEW accepted,
         Begin(r, op, u, hash, accepted), (hash = NoHash /\ op = "disable") \/ FreshlySalted(hash)
  PROVE  Begins(r)
<1> DEFINE started == Start(op, u, hash)
           refused == [started EXCEPT !.at = "done", !.outcome = "failed"]
<1>1. run \in [Runs -> Run]
  BY InvParts DEF AccountsTypeOK
<1>2. run'[r] \in {started, refused}
  BY <1>1 DEF Begin, Continue
<1>3. started.hash = hash /\ started.op = op /\ refused.hash = hash /\ refused.op = op
  BY DEF Start, NoRun
<1> QED
  BY <1>2, <1>3 DEF Begin, Begins

LEMMA RunEffects ==
  ASSUME AccountInv, NEW r \in Runs, RunStep(r)
  PROVE  /\ UNCHANGED call
         /\ \A q \in Runs \ {r} : run'[q] = run[q]
         /\ Begins(r) \/ GoesOn(r)
<1>1. run \in [Runs -> Run] /\ RunSound(r, run[r])
  BY InvParts DEF AccountsTypeOK, RunsSound
<1>2. UNCHANGED call /\ \E n : Continue(r, n)
  BY DEF RunStep, BeginSmoke, BeginRecovery, Begin, WriteAnswered, WriteUnanswered, LateWrite,
     Postflight, GiveUp, Finish
<1>3. \A q \in Runs \ {r} : run'[q] = run[q]
  BY <1>1, <1>2 DEF Continue
<1>4. ASSUME NEW op \in SmokeOperations, NEW p, BeginSmoke(r, op, p) PROVE Begins(r)
  BY <1>4, BeginEffect, CreatedHashIsFresh DEF BeginSmoke
<1>5. ASSUME NEW u, NEW p, BeginRecovery(r, u, p) PROVE Begins(r)
  BY <1>5, BeginEffect, CreatedHashIsFresh DEF BeginRecovery
<1>6. ASSUME WriteAnswered(r) PROVE GoesOn(r)
  <2> DEFINE n1 == [run[r] EXCEPT !.applied = TRUE, !.at = "postflight"]
             n2 == [run[r] EXCEPT !.applied = TRUE, !.at = "done", !.outcome = "failed"]
  <2>1. run'[r] \in {n1, n2} /\ RunIs(r, "write") /\ WriteApplies(r) /\ ApplyWrite(r)
    BY <1>1, <1>6 DEF WriteAnswered, Continue
  <2>2. ~run[r].transit /\ ~run[r].applied
    BY <1>1, <2>1 DEF RunSound, RunIs
  <2>3. \A n \in {n1, n2} : /\ n.hash = run[r].hash /\ n.op = run[r].op /\ n.applied
                           /\ n.at # "write" /\ n.transit = run[r].transit
    BY <1>1 DEF Run
  <2> QED
    BY <2>1, <2>2, <2>3 DEF GoesOn, Pending, RunIs
<1>7. ASSUME WriteUnanswered(r) PROVE GoesOn(r)
  <2>1. PICK late \in BOOLEAN :
          run'[r] \in {[run[r] EXCEPT !.transit = late, !.at = "postflight"],
                       [run[r] EXCEPT !.at = "done", !.outcome = "failed"],
                       [run[r] EXCEPT !.transit = late, !.at = "done", !.outcome = "failed"]}
    BY <1>1, <1>7 DEF WriteUnanswered, Continue
  <2>2. run'[r].hash = run[r].hash /\ run'[r].op = run[r].op
    BY <1>1, <2>1 DEF Run
  <2> QED
    BY <1>7, <2>2 DEF WriteUnanswered, GoesOn, Pending
<1>8. ASSUME LateWrite(r) PROVE GoesOn(r)
  <2>1. /\ run[r].transit
        /\ run'[r] = [run[r] EXCEPT !.transit = FALSE, !.applied = WriteApplies(r)]
    BY <1>1, <1>8 DEF LateWrite, Continue
  <2>2. /\ run'[r].hash = run[r].hash /\ run'[r].op = run[r].op /\ run'[r].at = run[r].at
        /\ ~run'[r].transit /\ run'[r].applied = WriteApplies(r)
    BY <1>1, <2>1 DEF Run
  <2>3. run[r].at # "write" /\ ~run[r].applied
    BY <1>1, <2>1 DEF RunSound
  <2> QED
    BY <1>8, <2>1, <2>2, <2>3 DEF LateWrite, GoesOn, Pending, RunIs
<1>9. ASSUME Postflight(r) \/ GiveUp(r) PROVE GoesOn(r)
  <2>1. PICK outcome : run'[r] = [run[r] EXCEPT !.at = "done", !.outcome = outcome]
    BY <1>1, <1>9 DEF Postflight, GiveUp, Finish, Continue
  <2>2. /\ run'[r].hash = run[r].hash /\ run'[r].op = run[r].op /\ run'[r].at = "done"
        /\ run'[r].transit = run[r].transit
    BY <1>1, <2>1 DEF Run
  <2> QED
    BY <1>9, <2>2 DEF Postflight, GiveUp, GoesOn, Pending, RunIs
<1> QED
  BY <1>2, <1>3, <1>4, <1>5, <1>6, <1>7, <1>8, <1>9 DEF RunStep

(* The batch of a run that is applied.                                     *)
LEMMA WrittenFields ==
  ASSUME AccountInv, NEW r \in Runs, Pending(r), WriteApplies(r), ApplyWrite(r)
  PROVE  LET u == run[r].user IN
         /\ u \in Usernames /\ run[r].op \in RunOperations
         /\ sessions' = Revoked(u, Null)
         /\ \A v \in Usernames \ {u} : accounts'[v] = accounts[v]
         /\ run[r].op # "disable" => accounts'[u].hash = run[r].hash
         /\ run[r].op = "disable" =>
              /\ accounts'[u].hash = accounts[u].hash
              /\ accounts[u].life = "active" /\ accounts'[u].life = "inactive"
         /\ run[r].op = "provision" => accounts[u].life = "absent"
         /\ run[r].op = "recover" => accounts[u].life = "active"
<1> DEFINE u == run[r].user
<1>1. /\ run[r].op \in RunOperations /\ u \in Usernames
      /\ run[r].op \in SmokeOperations => u = Smoke
  BY DEF AccountInv, RunsSound, RunSound, Pending, RunIs
<1>2. accounts \in [Usernames -> Account] /\ accounts[u] \in Account
  BY <1>1, InvParts DEF AccountsTypeOK
<1>3. /\ accounts'[u] = WrittenAccount(r) /\ sessions' = Revoked(u, Null)
      /\ \A v \in Usernames \ {u} : accounts'[v] = accounts[v]
  BY <1>1, <1>2 DEF ApplyWrite, SessionsAfterWrite
<1>4. CASE run[r].op = "provision"
  BY <1>1, <1>3, <1>4 DEF WrittenAccount, WriteApplies, SmokeOperations
<1>5. CASE run[r].op = "rotate"
  <2>1. accounts'[u] = [accounts[u] EXCEPT !.hash = run[r].hash, !.life = "active"]
    BY <1>1, <1>3, <1>5 DEF WrittenAccount, SmokeOperations
  <2>2. accounts'[u].hash = run[r].hash
    BY <1>2, <2>1 DEF Account
  <2> QED
    BY <1>1, <1>3, <1>5, <2>2
<1>6. CASE run[r].op = "disable"
  <2>1. accounts'[u] = [accounts[u] EXCEPT !.life = "inactive"]
    BY <1>1, <1>3, <1>6 DEF WrittenAccount, SmokeOperations
  <2>2. accounts'[u].hash = accounts[u].hash /\ accounts'[u].life = "inactive"
    BY <1>2, <2>1 DEF Account
  <2>3. accounts[u].life = "active"
    BY <1>1, <1>6 DEF WriteApplies, Active, SmokeOperations
  <2> QED
    BY <1>1, <1>3, <1>6, <2>2, <2>3
<1>7. CASE run[r].op = "recover"
  <2>1. accounts'[u] = [accounts[u] EXCEPT !.hash = run[r].hash]
    BY <1>3, <1>7 DEF WrittenAccount
  <2>2. accounts'[u].hash = run[r].hash
    BY <1>2, <2>1 DEF Account
  <2>3. accounts[u].life = "active"
    BY <1>7 DEF WriteApplies, RecoverableAdmin, Active
  <2> QED
    BY <1>1, <1>3, <1>7, <2>2, <2>3
<1> QED
  BY <1>1, <1>4, <1>5, <1>6, <1>7 DEF RunOperations

-----------------------------------------------------------------------------
(* The invariant.                                                          *)

LEMMA StepInitially == AccountsInit => StepInv
<1> SUFFICES ASSUME AccountsInit PROVE StepInv
  OBVIOUS
<1>1. AccountInv
  BY AccountInitInv
<1>2. \A r \in Runs : run[r] = NoRun
  BY DEF AccountsInit
<1>3. \A c \in Callers : call[c] = NoCall
  BY DEF AccountsInit
<1>4. HashesAreOwn
  BY <1>2 DEF HashesAreOwn, HashIsOwn, Pending, RunIs, NoRun, NoHash
<1>5. RepliesComeLast
  BY <1>3 DEF RepliesComeLast, NoCall
<1> QED
  BY <1>1, <1>4, <1>5 DEF StepInv

(* A hash that is still to be written has a salt.                          *)
LEMMA PendingHashIsSalted ==
  ASSUME AccountInv, HashesAreOwn, NEW r \in Runs, Pending(r), run[r].op # "disable"
  PROVE  run[r].hash.salt # Null
<1>1. run[r].hash \in Hash /\ run[r].hash.scheme # "legacy"
  BY DEF AccountInv, RunsSound, RunSound, Pending, RunIs, HashesAreOwn, HashIsOwn
<1> QED
  BY <1>1, NullAssumption DEF Hash

LEMMA CallsKeepHashes ==
  ASSUME StepInv, UNCHANGED run, \A u \in Usernames : WrittenByCall(u)
  PROVE  HashesAreOwn'
<1>1. \A u \in Usernames, r \in Runs :
        accounts[u].hash.salt # run[r].hash.salt => accounts'[u].hash.salt # run[r].hash.salt
  BY FreshSaltIsUnused DEF WrittenByCall, FreshlySalted
<1> QED
  BY <1>1 DEF StepInv, HashesAreOwn, HashIsOwn, Pending, RunIs

LEMMA RunsKeepHashes ==
  ASSUME StepInv, NEW r \in Runs, RunStep(r)
  PROVE  HashesAreOwn'
<1>1. AccountInv /\ HashesAreOwn
  BY DEF StepInv
<1>2. \A q \in Runs \ {r} : run'[q] = run[q]
  BY <1>1, RunEffects
<1>3. CASE Begins(r)
  <2>1. UNCHANGED accounts /\ SaltLeft
    BY <1>3 DEF Begins, accountTables
  <2>2. HashIsOwn(r)'
    BY <1>2, <1>3, <2>1, FreshSaltIsUnused DEF Begins, FreshlySalted, HashIsOwn, NoHash
  <2>3. ASSUME NEW q \in Runs \ {r} PROVE HashIsOwn(q)'
    <3>1. CASE Pending(q) /\ run[q].op # "disable"
      <4>1. run'[r].hash.salt # run[q].hash.salt
        BY <1>1, <1>3, <2>1, <3>1, PendingHashIsSalted, FreshSaltIsUnused
           DEF Begins, FreshlySalted, NoHash
      <4> QED
        BY <1>1, <1>2, <2>1, <4>1 DEF HashesAreOwn, HashIsOwn, Pending, RunIs
    <3>2. CASE ~(Pending(q) /\ run[q].op # "disable")
      BY <1>1, <1>2, <3>2 DEF HashesAreOwn, HashIsOwn, Pending, RunIs
    <3> QED
      BY <3>1, <3>2
  <2> QED
    BY <2>2, <2>3 DEF HashesAreOwn
<1>4. CASE GoesOn(r)
  <2>1. ASSUME NEW q \in Runs
        PROVE  run'[q].hash = run[q].hash /\ run'[q].op = run[q].op /\ (Pending(q)' => Pending(q))
    BY <1>2, <1>4 DEF GoesOn, Pending, RunIs
  <2>2. CASE UNCHANGED accountTables
    BY <1>1, <2>1, <2>2 DEF HashesAreOwn, HashIsOwn, accountTables
  <2>3. CASE Pending(r) /\ ~Pending(r)' /\ WriteApplies(r) /\ ApplyWrite(r)
    <3>1. \A u \in Usernames : \/ accounts'[u].hash = accounts[u].hash
                               \/ run[r].op # "disable" /\ accounts'[u].hash = run[r].hash
      BY <1>1, <2>3, WrittenFields
    <3>2. ASSUME NEW q \in Runs PROVE HashIsOwn(q)'
      <4>1. CASE q = r
        BY <1>1, <2>1, <2>3, <4>1 DEF HashesAreOwn, HashIsOwn
      <4>2. CASE q # r
        BY <1>1, <2>1, <3>1, <4>2 DEF HashesAreOwn, HashIsOwn
      <4> QED
        BY <4>1, <4>2
    <3> QED
      BY <3>2 DEF HashesAreOwn
  <2> QED
    BY <1>4, <2>2, <2>3 DEF GoesOn
<1> QED
  BY <1>1, <1>3, <1>4, RunEffects

LEMMA CallsKeepReplies ==
  ASSUME StepInv, NEW c \in Callers, SendCall(c) \/ CallStep(c) \/ DropCall(c)
  PROVE  RepliesComeLast'
<1>1. AccountInv /\ call \in [Callers -> Call] /\ call[c] \in Call
  BY InvParts DEF StepInv, AccountsTypeOK
<1>2. \A n : Proceed(c, n) => call'[c] = n
  BY <1>1 DEF Proceed
<1>3. \A reply : [NoCall EXCEPT !.reply = reply].at = "idle"
  BY DEF NoCall
<1>4. ASSUME Reply(c, "ok") \/ Reply(c, "refused") \/ Reply(c, "error") \/ Reply(c, "none")
             \/ Reply(c, call[c].reply)
      PROVE  call'[c].at = "idle"
  BY <1>2, <1>3, <1>4 DEF Reply
<1>5. ASSUME NEW op, NEW at, NEW t PROVE Admitted(op, at, t).reply = "none"
  BY DEF Admitted, NoCall
<1>6. ASSUME SendCall(c) PROVE call'[c].reply # "ok"
  <2>1. \A reply \in {"refused"} : [NoCall EXCEPT !.reply = reply].reply # "ok"
    BY DEF NoCall
  <2>2. Reply(c, "refused") => call'[c].reply # "ok"
    BY <1>2, <2>1 DEF Reply
  <2>3. ASSUME NEW u \in Usernames, NEW p \in Passwords, BeginLogin(c, u, p)
        PROVE  call'[c].reply # "ok"
    <3>1. [NoCall EXCEPT !.op = "login", !.at = "commit", !.user = u,
                         !.password = p, !.hash = accounts[u].hash].reply = "none"
      BY DEF NoCall
    <3> QED
      BY <1>2, <2>2, <2>3, <3>1 DEF BeginLogin
  <2>4. ASSUME NEW t \in Tokens, BeginLogout(c, t) PROVE call'[c].reply # "ok"
    BY <1>2, <1>5, <2>2, <2>4 DEF BeginLogout, Authenticated
  <2>5. ASSUME NEW t \in Tokens, NEW p \in Passwords, NEW new \in Passwords,
               BeginChangeOwn(c, t, p, new)
        PROVE  call'[c].reply # "ok"
    <3>1. [Admitted("changeOwn", "lookup", t) EXCEPT !.password = p, !.new = new].reply = "none"
      BY DEF Admitted, NoCall
    <3> QED
      BY <1>2, <2>2, <2>5, <3>1 DEF BeginChangeOwn, Authenticated
  <2>6. ASSUME NEW t \in Tokens, NEW u \in Usernames, NEW p \in Passwords, BeginReset(c, t, u, p)
        PROVE  call'[c].reply # "ok"
    <3>1. [Admitted("reset", "lookup", t) EXCEPT !.target = u, !.new = p].reply = "none"
      BY DEF Admitted, NoCall
    <3> QED
      BY <1>2, <2>2, <2>6, <3>1 DEF BeginReset, Authenticated
  <2>7. ASSUME NEW t \in Tokens, NEW u \in Usernames, NEW p \in Passwords, NEW role \in Roles,
               BeginCreateUser(c, t, u, role, p)
        PROVE  call'[c].reply # "ok"
    <3>1. [Admitted("createUser", "lookup", t) EXCEPT
             !.target = u, !.role = role, !.new = p].reply = "none"
      BY DEF Admitted, NoCall
    <3> QED
      BY <1>2, <2>2, <2>7, <3>1 DEF BeginCreateUser, Authenticated
  <2> QED
    BY <1>6, <2>3, <2>4, <2>5, <2>6, <2>7 DEF SendCall
<1>7. ASSUME LookupNewName(c) \/ VerifyOwnPassword(c) \/ LookupTarget(c)
      PROVE  call'[c].reply # "ok" \/ call'[c].at = "idle"
  <2>1. call[c].reply # "ok"
    BY <1>7 DEF LookupNewName, VerifyOwnPassword, LookupTarget, CallIs, StepInv, RepliesComeLast
  <2>2. \A h : /\ [call[c] EXCEPT !.at = "commit"].reply = call[c].reply
               /\ [call[c] EXCEPT !.at = "commit", !.hash = h].reply = call[c].reply
    BY <1>1 DEF Call
  <2> QED
    BY <1>2, <1>4, <1>7, <2>1, <2>2 DEF LookupNewName, VerifyOwnPassword, LookupTarget
<1>8. ASSUME CommitLogin(c) \/ CommitLogout(c) \/ CommitCreateUser(c)
      PROVE  call'[c].at \in {"idle", "cleanup", "readBack"}
  <2>1. [call[c] EXCEPT !.at = "readBack"].at = "readBack"
    BY <1>1 DEF Call
  <2>2. \A op : [NoCall EXCEPT !.op = op, !.at = "cleanup", !.reply = "ok"].at = "cleanup"
    BY DEF NoCall
  <2>3. CASE CommitLogin(c)
    BY <1>2, <1>4, <2>2, <2>3 DEF CommitLogin, GrantSession
  <2>4. CASE CommitLogout(c)
    BY <1>2, <2>2, <2>4 DEF CommitLogout
  <2>5. CASE CommitCreateUser(c)
    BY <1>2, <1>4, <2>1, <2>5 DEF CommitCreateUser
  <2> QED
    BY <1>8, <2>3, <2>4, <2>5
<1>9. ASSUME Cleanup(c) \/ ReadBackUser(c) \/ CommitChangeOwn(c) \/ CommitReset(c) \/ DropCall(c)
      PROVE  call'[c].at = "idle"
  BY <1>4, <1>9 DEF Cleanup, ReadBackUser, CommitChangeOwn, CommitReset, DropCall
<1>10. call'[c].at \in {"lookup", "commit"} => call'[c].reply # "ok"
  BY <1>6, <1>7, <1>8, <1>9 DEF CallStep
<1> QED
  BY <1>1, <1>10, CallEffects DEF StepInv, RepliesComeLast

LEMMA StepInvStays == StepInv /\ [AccountNext]_accountVars => StepInv'
<1> SUFFICES ASSUME StepInv, [AccountNext]_accountVars PROVE StepInv'
  OBVIOUS
<1>1. AccountInv /\ AccountInv'
  BY AccountStepInv DEF StepInv
<1>2. ASSUME NEW c \in Callers, SendCall(c) \/ CallStep(c) \/ DropCall(c)
      PROVE  HashesAreOwn' /\ RepliesComeLast'
  BY <1>1, <1>2, CallEffects, CallsKeepHashes, CallsKeepReplies
<1>3. ASSUME NEW r \in Runs, RunStep(r)
      PROVE  HashesAreOwn' /\ RepliesComeLast'
  <2>1. RepliesComeLast'
    BY <1>1, <1>3, RunEffects DEF StepInv, RepliesComeLast
  <2> QED
    BY <1>3, <2>1, RunsKeepHashes
<1>4. ASSUME UNCHANGED <<accounts, call, run>>
      PROVE  HashesAreOwn' /\ RepliesComeLast'
  BY <1>4 DEF StepInv, HashesAreOwn, HashIsOwn, Pending, RunIs, RepliesComeLast
<1>5. \/ \E c \in Callers : SendCall(c) \/ CallStep(c) \/ DropCall(c)
      \/ \E r \in Runs : RunStep(r)
      \/ UNCHANGED <<accounts, call, run>>
  BY DEF AccountNext, Expire, accountVars, accountTables
<1> QED
  BY <1>1, <1>2, <1>3, <1>4, <1>5 DEF StepInv

LEMMA StepInvariance == AccountSpec => []StepInv
  BY StepInitially, StepInvStays, PTL DEF AccountSpec

-----------------------------------------------------------------------------
(* An account that was switched off comes back by a rotation only, also    *)
(* when one is applied late.                                               *)
THEOREM RotationSafety == AccountSpec => OnlyRotationReactivates
<1>1. StepInv /\ [AccountNext]_accountVars =>
        [\A u \in Usernames :
           accounts[u].life = "inactive" /\ accounts'[u].life = "active" =>
             \E r \in Runs : run[r].op = "rotate" /\ ~run[r].applied /\ run'[r].applied]_accountVars
  <2> SUFFICES ASSUME StepInv, AccountNext, NEW u \in Usernames,
                      accounts[u].life = "inactive", accounts'[u].life = "active"
               PROVE  \E r \in Runs : run[r].op = "rotate" /\ ~run[r].applied /\ run'[r].applied
    OBVIOUS
  <2>1. AccountInv
    BY DEF StepInv
  <2>2. ASSUME NEW c \in Callers, SendCall(c) \/ CallStep(c) \/ DropCall(c) PROVE FALSE
    BY <2>1, <2>2, CallEffects DEF WrittenByCall
  <2>3. PICK r \in Runs : RunStep(r)
    BY <2>2 DEF AccountNext, Expire
  <2>4. accounts' # accounts
    OBVIOUS
  <2>5. /\ Pending(r) /\ ~run[r].applied /\ run'[r].applied
        /\ WriteApplies(r) /\ ApplyWrite(r)
    BY <2>1, <2>3, <2>4, RunEffects DEF Begins, GoesOn, accountTables
  <2>6. run[r].op = "rotate"
    BY <2>1, <2>5, WrittenFields DEF RunOperations
  <2> QED
    BY <2>5, <2>6
<1> QED
  BY <1>1, StepInvariance, PTL DEF AccountSpec, OnlyRotationReactivates

-----------------------------------------------------------------------------
(* A login keeps the password it has verified, upgraded hash or not.       *)
LEMMA LoginKeepsPassword ==
  ASSUME AccountInv, NEW c \in Callers, CommitLogin(c), NEW u \in Usernames
  PROVE  accounts'[u].hash.password = accounts[u].hash.password
<1> DEFINE r == call[c]
<1>1. AccountsTypeOK
  BY InvParts
<1>2. r.user \in Usernames /\ r.password \in Passwords /\ r.hash.password = r.password
  BY DEF AccountInv, CallsSound, CallSound, CallIs, CommitLogin
<1>3. CASE r.hash.scheme = "legacy" /\ UpgradeGuard(r)
  <2>1. accounts' = PasswordSet(r.user, r.password) /\ SaltLeft
    BY <1>3 DEF CommitLogin, Upgraded, PasswordSet
  <2>2. accounts[r.user].hash.password = r.password
    BY <1>2, <1>3 DEF UpgradeGuard
  <2> QED
    BY <1>1, <1>2, <2>1, <2>2, PasswordSetAccounts
<1>4. CASE ~(r.hash.scheme = "legacy" /\ UpgradeGuard(r))
  BY <1>4 DEF CommitLogin, Upgraded
<1> QED
  BY <1>3, <1>4

LEMMA LegacyShrinks ==
  ASSUME StepInv, [AccountNext]_accountVars
  PROVE  LegacyHashes' \subseteq LegacyHashes
<1>1. AccountInv /\ HashesAreOwn
  BY DEF StepInv
<1>2. ASSUME NEW c \in Callers, SendCall(c) \/ CallStep(c) \/ DropCall(c)
      PROVE  LegacyHashes' \subseteq LegacyHashes
  BY <1>1, <1>2, CallEffects DEF WrittenByCall, FreshlySalted, LegacyHashes
<1>3. ASSUME NEW r \in Runs, RunStep(r)
      PROVE  LegacyHashes' \subseteq LegacyHashes
  <2>1. CASE UNCHANGED accountTables
    BY <2>1 DEF accountTables, LegacyHashes
  <2>2. CASE Pending(r) /\ WriteApplies(r) /\ ApplyWrite(r)
    <3>1. \A u \in Usernames : accounts'[u].hash \in {accounts[u].hash, run[r].hash}
      BY <1>1, <2>2, WrittenFields
    <3> QED
      BY <1>1, <3>1 DEF HashesAreOwn, HashIsOwn, LegacyHashes
  <2> QED
    BY <1>1, <1>3, <2>1, <2>2, RunEffects DEF Begins, GoesOn
<1>4. CASE UNCHANGED accounts
  BY <1>4 DEF LegacyHashes
<1> QED
  BY <1>2, <1>3, <1>4 DEF AccountNext, Expire, accountVars, accountTables

(* A login never changes the password it has verified, and a hash that was *)
(* upgraded, set or recovered never becomes a legacy one again.            *)
THEOREM LoginSafety == AccountSpec => LoginsKeepPasswords
<1>1. ASSUME StepInv, AccountNext, NEW c \in Callers, NEW u \in Usernames,
             CallIs(c, "login", "commit"), call'[c] # call[c]
      PROVE  accounts'[u].hash.password = accounts[u].hash.password
  <2>1. AccountInv
    BY <1>1 DEF StepInv
  <2>2. SendCall(c) \/ CallStep(c) \/ DropCall(c)
    BY <1>1, <2>1, CallEffects, RunEffects DEF AccountNext, Expire
  <2>3. ~SendCall(c)
    BY <1>1 DEF SendCall, BeginLogin, BeginLogout, BeginChangeOwn, BeginReset, BeginCreateUser,
       Authenticated, MayCall, CallIs
  <2>4. CommitLogin(c) \/ DropCall(c)
    BY <1>1, <2>2, <2>3 DEF CallStep, Cleanup, CommitLogout, LookupNewName, CommitCreateUser,
       ReadBackUser, VerifyOwnPassword, CommitChangeOwn, LookupTarget, CommitReset, CallIs
  <2> QED
    BY <2>1, <2>4, LoginKeepsPassword DEF DropCall, accountTables
<1>2. StepInv /\ [AccountNext]_accountVars =>
        [/\ \A c \in Callers, u \in Usernames :
              CallIs(c, "login", "commit") /\ call'[c] # call[c] =>
                accounts'[u].hash.password = accounts[u].hash.password
         /\ LegacyHashes' \subseteq LegacyHashes]_accountVars
  BY <1>1, LegacyShrinks
<1> QED
  BY <1>2, StepInvariance, PTL DEF AccountSpec, LoginsKeepPasswords

-----------------------------------------------------------------------------
(* The sessions that a revocation ends.                                    *)
LEMMA RevokedEnds ==
  ASSUME AccountsTypeOK, NEW u, NEW keep, NEW t \in Tokens,
         Live(t), Revoked(u, keep)[t].state # "live"
  PROVE  sessions[t].user = u /\ t # keep
BY RevokedSessions DEF Live

(* A reply of success is one of this step.                                 *)
LEMMA OnlyOneReplies ==
  ASSUME StepInv, NEW c \in Callers, NEW t, ChangesOwnThrough(c, t)
  PROVE  call'[c] # call[c]
BY DEF StepInv, RepliesComeLast, ChangesOwnThrough, CallIs

(* A password that is set makes another hash than the account had.         *)
LEMMA PasswordSetChanges ==
  ASSUME AccountsTypeOK, SaltLeft, NEW u \in Usernames, NEW p, accounts' = PasswordSet(u, p)
  PROVE  accounts'[u] # accounts[u]
<1>1. accounts'[u].hash.salt = FreshSalt /\ accounts[u].hash.salt # FreshSalt
  BY PasswordSetIsFresh, FreshSaltIsUnused DEF FreshlySalted
<1> QED
  BY <1>1

LEMMA EndsByItsReason ==
  ASSUME StepInv, AccountNext, NEW t \in Tokens, Live(t), ~Live(t)'
  PROVE  \/ sessions'[t].state = "expired"
         \/ \E c \in Callers : CallIs(c, "logout", "commit") /\ call[c].token = t
         \/ /\ accounts'[sessions[t].user] # accounts[sessions[t].user]
            /\ \A c \in Callers : ~ChangesOwnThrough(c, t)
<1> DEFINE Reason == /\ accounts'[sessions[t].user] # accounts[sessions[t].user]
                     /\ \A c \in Callers : ~ChangesOwnThrough(c, t)
<1>1. AccountInv /\ AccountsTypeOK
  BY InvParts DEF StepInv
<1>2. ASSUME NEW s \in Tokens, Expire(s) PROVE sessions'[t].state = "expired"
  BY <1>1, <1>2 DEF Expire, Live, AccountsTypeOK, Session
<1>3. ASSUME NEW c \in Callers, CommitLogout(c)
      PROVE  CallIs(c, "logout", "commit") /\ call[c].token = t
  BY <1>1, <1>3 DEF CommitLogout, Live, AccountsTypeOK
<1>4. ASSUME NEW c \in Callers, CommitReset(c) PROVE Reason
  <2>1. /\ call[c].target \in Usernames /\ SaltLeft
        /\ accounts' = PasswordSet(call[c].target, call[c].new)
        /\ sessions' = Revoked(call[c].target, Null)
    BY <1>1, <1>4 DEF CommitReset, AccountInv, CallsSound, CallSound, CallIs
  <2>2. sessions[t].user = call[c].target
    BY <1>1, <2>1, RevokedEnds DEF Live
  <2>3. ASSUME NEW d \in Callers, ChangesOwnThrough(d, t) PROVE FALSE
    <3>1. d # c
      BY <1>4, <2>3 DEF CommitReset, CallIs, ChangesOwnThrough
    <3>2. call'[d] = call[d]
      BY <1>1, <1>4, <3>1, CallEffects DEF CallStep
    <3> QED
      BY <2>3, <3>2, OnlyOneReplies
  <2> QED
    BY <1>1, <2>1, <2>2, <2>3, PasswordSetChanges
<1>5. ASSUME NEW c \in Callers, CommitChangeOwn(c) PROVE Reason
  <2> DEFINE r == call[c]
  <2>1. /\ r.user \in Usernames /\ SaltLeft
        /\ accounts' = PasswordSet(r.user, r.new)
        /\ sessions' = SessionsAfterChange(r)
    BY <1>1, <1>5 DEF CommitChangeOwn, AccountInv, CallsSound, CallSound, CallIs
  <2>2. sessions'[t].state = Revoked(r.user, r.token)[t].state
    <3>1. Revoked(r.user, r.token) \in [Tokens -> Session]
      BY <1>1, RevokedSessions
    <3> QED
      BY <2>1, <3>1 DEF SessionsAfterChange, Session
  <2>3. sessions[t].user = r.user /\ t # r.token
    BY <1>1, <2>2, RevokedEnds DEF Live
  <2>4. ASSUME NEW d \in Callers, ChangesOwnThrough(d, t) PROVE FALSE
    <3>1. d # c
      BY <2>3, <2>4 DEF ChangesOwnThrough
    <3>2. call'[d] = call[d]
      BY <1>1, <1>5, <3>1, CallEffects DEF CallStep
    <3> QED
      BY <2>4, <3>2, OnlyOneReplies
  <2> QED
    BY <1>1, <2>1, <2>3, <2>4, PasswordSetChanges
<1>6. ASSUME NEW r \in Runs, RunStep(r) PROVE Reason
  <2> DEFINE u == run[r].user
  <2>1. UNCHANGED call
    BY <1>1, <1>6, RunEffects
  <2>2. \A c \in Callers : ~ChangesOwnThrough(c, t)
    BY <2>1, OnlyOneReplies
  <2>3. sessions' # sessions
    BY DEF Live
  <2>4. Pending(r) /\ WriteApplies(r) /\ ApplyWrite(r)
    BY <1>1, <1>6, <2>3, RunEffects DEF Begins, GoesOn, accountTables
  <2>5. sessions[t].user = u
    BY <1>1, <2>4, WrittenFields, RevokedEnds DEF Live
  <2>6. u \in Usernames
    BY <1>1, <2>4, WrittenFields
  <2>7. CASE run[r].op = "disable"
    BY <1>1, <2>2, <2>4, <2>5, <2>7, WrittenFields
  <2>8. CASE run[r].op # "disable"
    <3>1. accounts'[u].hash = run[r].hash
      BY <1>1, <2>4, <2>8, WrittenFields
    <3>2. accounts[u].hash.salt # run[r].hash.salt
      BY <2>4, <2>6, <2>8 DEF StepInv, HashesAreOwn, HashIsOwn
    <3> QED
      BY <2>2, <2>5, <3>1, <3>2
  <2> QED
    BY <2>7, <2>8
<1>7. ASSUME NEW c \in Callers, SendCall(c) \/ CallStep(c) \/ DropCall(c)
      PROVE  CommitLogout(c) \/ CommitReset(c) \/ CommitChangeOwn(c)
  <2>1. UNCHANGED sessions => FALSE
    BY DEF Live
  <2>2. ~CommitLogin(c)
    <3>1. CommitLogin(c) => UNCHANGED sessions \/ \E s \in Tokens :
            /\ sessions[s].state = "unused"
            /\ sessions' = [sessions EXCEPT ![s] = [state |-> "live", user |-> call[c].user,
                                                    password |-> call[c].password]]
      BY DEF CommitLogin, GrantSession
    <3> QED
      BY <1>1, <2>1, <3>1 DEF Live, AccountsTypeOK
  <2>3. ~Cleanup(c)
    BY DEF Cleanup, Live
  <2>4. SendCall(c) \/ DropCall(c) \/ LookupNewName(c) \/ CommitCreateUser(c) \/ ReadBackUser(c)
          \/ VerifyOwnPassword(c) \/ LookupTarget(c) => UNCHANGED sessions
    BY DEF SendCall, DropCall, BeginLogin, BeginLogout, BeginChangeOwn, BeginReset,
       BeginCreateUser, Authenticated, LookupNewName, CommitCreateUser, ReadBackUser,
       VerifyOwnPassword, LookupTarget, accountTables
  <2> QED
    BY <1>7, <2>1, <2>2, <2>3, <2>4 DEF CallStep
<1> QED
  BY <1>2, <1>3, <1>4, <1>5, <1>6, <1>7 DEF AccountNext

(* A session ends by its logout, by expiry, or with the password or the    *)
(* life of its own account, and a change never ends the one it came by.    *)
THEOREM SessionEndSafety == AccountSpec => SessionsEndForAReason
<1>1. StepInv /\ [AccountNext]_accountVars =>
        [\A t \in Tokens :
           Live(t) /\ ~Live(t)' =>
             \/ sessions'[t].state = "expired"
             \/ \E c \in Callers : CallIs(c, "logout", "commit") /\ call[c].token = t
             \/ /\ accounts'[sessions[t].user] # accounts[sessions[t].user]
                /\ \A c \in Callers : ~ChangesOwnThrough(c, t)]_accountVars
  BY EndsByItsReason
<1> QED
  BY <1>1, StepInvariance, PTL DEF AccountSpec, SessionsEndForAReason

-----------------------------------------------------------------------------
(* The sessions that logins have granted, ended or not, and their audit    *)
(* rows: a step other than a login that is granted leaves both alone.      *)
Granted(u) == {t \in Tokens : sessions[t].state # "unused" /\ sessions[t].user = u}

GrantsCounted ==
  \A u \in Usernames :
    IsFiniteSet(Granted(u)) /\ audit[u].logins = Cardinality(Granted(u))

CountInv == AccountInv /\ GrantsCounted

GrantsKept ==
  /\ \A t \in Tokens :
       /\ sessions'[t].user = sessions[t].user
       /\ sessions'[t].state = "unused" <=> sessions[t].state = "unused"
  /\ \A u \in Usernames : audit'[u].logins = audit[u].logins

LEMMA GrantsStayCounted ==
  ASSUME GrantsCounted, GrantsKept
  PROVE  GrantsCounted'
<1>1. \A u \in Usernames : Granted(u)' = Granted(u)
  BY DEF Granted, GrantsKept
<1> QED
  BY <1>1 DEF GrantsCounted, GrantsKept

LEMMA RevokedGrants ==
  ASSUME AccountsTypeOK, NEW u, NEW keep, NEW t \in Tokens
  PROVE  /\ Revoked(u, keep)[t] \in Session
         /\ Revoked(u, keep)[t].user = sessions[t].user
         /\ Revoked(u, keep)[t].state = "unused" <=> sessions[t].state = "unused"
<1>1. sessions[t] \in Session /\ Revoked(u, keep)[t] \in Session
  BY RevokedSessions DEF AccountsTypeOK
<1> QED
  BY <1>1 DEF Revoked, HasRow, Session

LEMMA NotedLogins ==
  ASSUME AccountsTypeOK, NEW u
  PROVE  \A v \in Usernames : Noted(u)[v].logins = audit[v].logins
BY DEF AccountsTypeOK, AuditTrail, Noted

(* A login that is granted adds one session and one audit row.             *)
LEMMA LoginIsCounted ==
  ASSUME CountInv, NEW c \in Callers, CommitLogin(c)
  PROVE  GrantsCounted'
<1> DEFINE r == call[c]
<1>1. AccountsTypeOK /\ GrantsCounted /\ r.user \in Usernames
  BY InvParts DEF CountInv, CallsSound, CallSound, CommitLogin, CallIs
<1>2. CASE ~SessionGuard(r)
  <2>1. UNCHANGED <<sessions, audit>>
    BY <1>2 DEF CommitLogin, LoginNoted
  <2> QED
    BY <1>1, <2>1, GrantsStayCounted DEF GrantsKept
<1>3. CASE SessionGuard(r)
  <2>1. PICK u \in Usernames : r.user = u
    BY <1>1
  <2>2. PICK t \in Tokens :
          \E opened :
            /\ sessions[t].state = "unused" /\ sessions' = [sessions EXCEPT ![t] = opened]
            /\ opened.state = "live" /\ opened.user = u
    BY <1>3, <2>1 DEF CommitLogin, GrantSession
  <2>3. PICK opened :
          /\ sessions[t].state = "unused" /\ sessions' = [sessions EXCEPT ![t] = opened]
          /\ opened.state = "live" /\ opened.user = u
    BY <2>2
  <2>4. /\ sessions'[t] = opened
        /\ \A s \in Tokens \ {t} : sessions'[s] = sessions[s]
    BY <1>1, <2>3 DEF AccountsTypeOK
  <2>5. Granted(u)' = Granted(u) \cup {t} /\ t \notin Granted(u)
    BY <2>3, <2>4 DEF Granted
  <2>6. \A v \in Usernames \ {u} : Granted(v)' = Granted(v)
    BY <2>3, <2>4 DEF Granted
  <2>7. /\ audit'[u].logins = audit[u].logins + 1
        /\ \A v \in Usernames \ {u} : audit'[v] = audit[v]
    <3>1. audit' = [audit EXCEPT ![u].logins = @ + 1, ![u].last = Null]
      BY <1>3, <2>1 DEF CommitLogin, LoginNoted
    <3>2. /\ audit'[u] = [[audit[u] EXCEPT !.logins = @ + 1] EXCEPT !.last = Null]
          /\ \A v \in Usernames \ {u} : audit'[v] = audit[v]
      BY <1>1, <3>1 DEF AccountsTypeOK
    <3>3. audit[u] \in AuditTrail
      BY <1>1 DEF AccountsTypeOK
    <3> QED
      BY <3>2, <3>3 DEF AuditTrail
  <2>8. IsFiniteSet(Granted(u)) /\ audit[u].logins = Cardinality(Granted(u))
    BY <1>1 DEF GrantsCounted
  <2>9. IsFiniteSet(Granted(u)') /\ Cardinality(Granted(u)') = Cardinality(Granted(u)) + 1
    BY <2>5, <2>8, FS_AddElement
  <2> QED
    BY <1>1, <2>6, <2>7, <2>8, <2>9 DEF GrantsCounted
<1> QED
  BY <1>2, <1>3

LEMMA CallsKeepCounts ==
  ASSUME CountInv, NEW c \in Callers, SendCall(c) \/ CallStep(c) \/ DropCall(c)
  PROVE  GrantsCounted'
<1>1. AccountsTypeOK /\ GrantsCounted /\ CallSound(call[c])
  BY InvParts DEF CountInv, CallsSound
<1>2. CASE CommitLogin(c)
  BY <1>2, LoginIsCounted
<1>3. CASE Cleanup(c)
  <2>1. ASSUME NEW t \in Tokens
        PROVE  /\ sessions'[t].user = sessions[t].user
               /\ sessions'[t].state = "unused" <=> sessions[t].state = "unused"
    <3>1. sessions'[t] = IF sessions[t].state = "expired"
                         THEN [sessions[t] EXCEPT !.state = "gone"] ELSE sessions[t]
      BY <1>3 DEF Cleanup
    <3>2. sessions[t] \in Session
      BY <1>1 DEF AccountsTypeOK
    <3> QED
      BY <3>1, <3>2 DEF Session
  <2> QED
    BY <1>1, <1>3, <2>1, GrantsStayCounted DEF Cleanup, GrantsKept
<1>4. CASE CommitLogout(c)
  <2>1. ASSUME NEW t \in Tokens
        PROVE  /\ sessions'[t].user = sessions[t].user
               /\ sessions'[t].state = "unused" <=> sessions[t].state = "unused"
    <3>1. sessions[t] \in Session
      BY <1>1 DEF AccountsTypeOK
    <3>2. \/ sessions'[t] = sessions[t]
          \/ HasRow(t) /\ sessions'[t] = [sessions[t] EXCEPT !.state = "gone"]
      BY <1>1, <1>4 DEF CommitLogout, AccountsTypeOK, SessionRows
    <3> QED
      BY <3>1, <3>2 DEF Session, HasRow
  <2> QED
    BY <1>1, <1>4, <2>1, NotedLogins, GrantsStayCounted DEF CommitLogout, GrantsKept
<1>5. CASE CommitChangeOwn(c)
  <2>1. ASSUME NEW t \in Tokens
        PROVE  /\ sessions'[t].user = sessions[t].user
               /\ sessions'[t].state = "unused" <=> sessions[t].state = "unused"
    <3> DEFINE revoked == Revoked(call[c].user, call[c].token)
    <3>1. revoked \in [Tokens -> Session]
      BY <1>1, RevokedSessions
    <3>2. /\ revoked[t] \in Session /\ revoked[t].user = sessions[t].user
          /\ revoked[t].state = "unused" <=> sessions[t].state = "unused"
      BY <1>1, RevokedGrants
    <3>3. sessions' = revoked \/ sessions' = [revoked EXCEPT ![call[c].token].password = call[c].new]
      BY <1>5 DEF CommitChangeOwn, SessionsAfterChange
    <3> HIDE DEF revoked
    <3>4. sessions'[t] = revoked[t] \/ sessions'[t] = [revoked[t] EXCEPT !.password = call[c].new]
      BY <3>1, <3>3
    <3> QED
      BY <3>2, <3>4 DEF Session
  <2> QED
    BY <1>1, <1>5, <2>1, NotedLogins, GrantsStayCounted DEF CommitChangeOwn, GrantsKept
<1>6. CASE CommitReset(c)
  BY <1>1, <1>6, RevokedGrants, NotedLogins, GrantsStayCounted DEF CommitReset, GrantsKept
<1>7. CASE CommitCreateUser(c)
  <2>1. UNCHANGED sessions /\ (UNCHANGED audit \/ audit' = Noted(call[c].target))
    BY <1>7 DEF CommitCreateUser
  <2> QED
    BY <1>1, <2>1, NotedLogins, GrantsStayCounted DEF GrantsKept
<1>8. CASE ~(CommitLogin(c) \/ Cleanup(c) \/ CommitLogout(c) \/ CommitChangeOwn(c)
             \/ CommitReset(c) \/ CommitCreateUser(c))
  <2>1. UNCHANGED accountTables
    BY <1>8 DEF SendCall, CallStep, DropCall, BeginLogin, BeginLogout, BeginChangeOwn,
       BeginReset, BeginCreateUser, Authenticated, LookupNewName, ReadBackUser,
       VerifyOwnPassword, LookupTarget
  <2> QED
    BY <1>1, <2>1, GrantsStayCounted DEF GrantsKept, accountTables
<1> QED
  BY <1>2, <1>3, <1>4, <1>5, <1>6, <1>7, <1>8

LEMMA RunsKeepCounts ==
  ASSUME CountInv, NEW r \in Runs, RunStep(r)
  PROVE  GrantsCounted'
<1>1. AccountInv /\ AccountsTypeOK /\ GrantsCounted
  BY InvParts DEF CountInv
<1>2. CASE UNCHANGED accountTables
  BY <1>1, <1>2, GrantsStayCounted DEF GrantsKept, accountTables
<1>3. CASE Pending(r) /\ WriteApplies(r) /\ ApplyWrite(r)
  <2> DEFINE u == run[r].user
  <2>1. /\ u \in Usernames /\ sessions' = Revoked(u, Null) /\ run[r].op \in RunOperations
        /\ run[r].op # "recover" => u = Smoke
    BY <1>1, <1>3, WrittenFields
       DEF AccountInv, RunsSound, RunSound, Pending, RunIs, RunOperations, SmokeOperations
  <2>2. /\ WrittenTrail(r).logins = audit[u].logins
    <3>1. audit[u] \in AuditTrail
      BY <1>1, <2>1 DEF AccountsTypeOK
    <3>2. CASE run[r].op = "recover"
      <4>1. WrittenTrail(r) = [[audit[u] EXCEPT !.recovered = TRUE] EXCEPT !.last = Null]
        BY <3>2 DEF WrittenTrail
      <4> QED
        BY <3>1, <4>1 DEF AuditTrail
    <3>3. CASE run[r].op # "recover"
      <4>1. WrittenTrail(r) = [audit[u] EXCEPT !.last = r]
        BY <2>1, <3>3 DEF WrittenTrail
      <4> QED
        BY <3>1, <4>1 DEF AuditTrail
    <3> QED
      BY <3>2, <3>3
  <2>3. \A v \in Usernames : audit'[v].logins = audit[v].logins
    BY <1>1, <1>3, <2>1, <2>2 DEF ApplyWrite, AccountsTypeOK
  <2> QED
    BY <1>1, <2>1, <2>3, RevokedGrants, GrantsStayCounted DEF GrantsKept
<1> QED
  BY <1>1, <1>2, <1>3, RunEffects DEF Begins, GoesOn

LEMMA CountInvStays == CountInv /\ [AccountNext]_accountVars => CountInv'
<1> SUFFICES ASSUME CountInv, [AccountNext]_accountVars PROVE CountInv'
  OBVIOUS
<1>1. AccountInv' /\ AccountsTypeOK /\ GrantsCounted
  BY AccountStepInv, InvParts DEF CountInv
<1>2. ASSUME NEW t \in Tokens, Expire(t)
      PROVE  GrantsCounted'
  <2>1. ASSUME NEW s \in Tokens
        PROVE  /\ sessions'[s].user = sessions[s].user
               /\ sessions'[s].state = "unused" <=> sessions[s].state = "unused"
    <3>1. sessions[s] \in Session /\ sessions \in [Tokens -> Session]
      BY <1>1 DEF AccountsTypeOK
    <3>2. \/ sessions'[s] = sessions[s]
          \/ Live(s) /\ sessions'[s] = [sessions[s] EXCEPT !.state = "expired"]
      BY <1>2, <3>1 DEF Expire
    <3> QED
      BY <3>1, <3>2 DEF Session, Live
  <2> QED
    BY <1>1, <1>2, <2>1, GrantsStayCounted DEF Expire, GrantsKept
<1>3. ASSUME UNCHANGED accountVars
      PROVE  GrantsCounted'
  <2>1. UNCHANGED <<sessions, audit>>
    BY <1>3 DEF accountVars, accountTables
  <2> QED
    BY <1>1, <2>1, GrantsStayCounted DEF GrantsKept
<1>4. ASSUME NEW c \in Callers, SendCall(c) \/ CallStep(c) \/ DropCall(c)
      PROVE  GrantsCounted'
  BY <1>4, CallsKeepCounts
<1>5. ASSUME NEW r \in Runs, RunStep(r)
      PROVE  GrantsCounted'
  BY <1>5, RunsKeepCounts
<1>6. GrantsCounted'
  BY <1>2, <1>3, <1>4, <1>5 DEF AccountNext
<1> QED
  BY <1>1, <1>6 DEF CountInv

LEMMA CountInvInitially == AccountsInit => CountInv
<1> SUFFICES ASSUME AccountsInit PROVE CountInv
  OBVIOUS
<1>1. \A u \in Usernames : Granted(u) = {}
  BY DEF AccountsInit, NoSession, Granted
<1>2. \A u \in Usernames : audit[u].logins = 0
  BY DEF AccountsInit
<1> QED
  BY <1>1, <1>2, AccountInitInv, FS_EmptySet DEF CountInv, GrantsCounted

(* The batch of a login writes its session and its audit row together or   *)
(* not at all, so the audit counts the sessions that were granted, however *)
(* they have ended since.                                                  *)
THEOREM LoginAuditSafety == AccountSpec => []LoginsAreAudited
<1>1. CountInv => LoginsAreAudited
  BY DEF CountInv, GrantsCounted, Granted, LoginsAreAudited
<1> QED
  BY <1>1, CountInvInitially, CountInvStays, PTL DEF AccountSpec
=============================================================================
