-------------------------- MODULE AccountOperators --------------------------
(***************************************************************************)
(* The operator scripts that write accounts over the Cloudflare D1 REST    *)
(* API: the lifecycle of the smoke identity (smoke-identity-lifecycle.mjs) *)
(* and password recovery (recover-password.mjs).  A run reads (preflight), *)
(* sends one batch, and reads again (postflight).  The API may answer, not *)
(* answer although the batch was applied, or apply it after the script has *)
(* given its answer up.                                                    *)
(***************************************************************************)
EXTENDS Accounts

SmokeOperations == {"provision", "rotate", "disable"}

RunIs(r, at) == run[r].at = at
Continue(r, new) == run' = [run EXCEPT ![r] = new]
Finish(r, outcome) ==
  Continue(r, [run[r] EXCEPT !.at = "done", !.outcome = outcome])

(* A run begins: its hash, if it needs one, is made before its first call. *)
Start(op, u, hash) ==
  [NoRun EXCEPT !.op = op, !.at = "write", !.user = u, !.hash = hash,
                !.observed = accounts[u].life]

Begin(r, op, u, hash, accepted) ==
  /\ RunIs(r, "idle")
  /\ op \in Workload
  /\ SaltLeft
  /\ Continue(r, IF accepted THEN Start(op, u, hash)
                 ELSE [Start(op, u, hash) EXCEPT !.at = "done", !.outcome = "failed"])
  /\ UNCHANGED <<accountTables, call>>

-----------------------------------------------------------------------------
(* parseSmokeIdentityPreflight: no account of the name may exist for a     *)
(* provision, and it must be the staff account otherwise.  The display     *)
(* name, which the script compares as well, is what provision has set.     *)
SmokeAccepted(op) ==
  CASE op = "provision" -> accounts[Smoke].life = "absent"
    [] op = "rotate" -> accounts[Smoke].role = "staff"
    [] op = "disable" -> accounts[Smoke].role = "staff" /\ Active(Smoke)

BeginSmoke(r, op, p) ==
  Begin(r, op, Smoke, IF op = "disable" THEN NoHash ELSE CreatedHash(p), SmokeAccepted(op))

RecoverableAdmin(u) == Active(u) /\ accounts[u].role = "admin"

BeginRecovery(r, u, p) == Begin(r, "recover", u, CreatedHash(p), RecoverableAdmin(u))

-----------------------------------------------------------------------------
(* The predicates of the batch.  Where the mutation of the smoke identity  *)
(* changes no row, its audit row violates NOT NULL and all is rolled back; *)
(* a recovery then changes, deletes and inserts nothing.                   *)
WriteApplies(r) ==
  CASE run[r].op = "provision" -> accounts[Smoke].life = "absent"
    [] run[r].op = "rotate" ->
         accounts[Smoke].role = "staff" /\ accounts[Smoke].life = run[r].observed
    [] run[r].op = "disable" -> accounts[Smoke].role = "staff" /\ Active(Smoke)
    [] run[r].op = "recover" -> RecoverableAdmin(run[r].user)

WrittenAccount(r) ==
  CASE run[r].op = "provision" -> [life |-> "active", role |-> "staff", hash |-> run[r].hash]
    [] run[r].op = "rotate" ->
         [accounts[Smoke] EXCEPT !.hash = run[r].hash, !.life = "active"]
    [] run[r].op = "disable" -> [accounts[Smoke] EXCEPT !.life = "inactive"]
    [] run[r].op = "recover" -> [accounts[run[r].user] EXCEPT !.hash = run[r].hash]

WrittenTrail(r) ==
  IF run[r].op = "recover"
  THEN [audit[run[r].user] EXCEPT !.recovered = TRUE, !.last = Null]
  ELSE [audit[Smoke] EXCEPT !.last = r]

(* Mutant: the sessions of the account stay.                               *)
SessionsAfterWriteKept(r) == sessions

SessionsAfterWrite(r) == Revoked(run[r].user, Null)

(* The account, its audit row and its sessions in one batch.               *)
ApplyWrite(r) ==
  /\ accounts' = [accounts EXCEPT ![run[r].user] = WrittenAccount(r)]
  /\ audit' = [audit EXCEPT ![run[r].user] = WrittenTrail(r)]
  /\ sessions' = SessionsAfterWrite(r)

(* The batch is applied.  With an answer, or with one that may have been   *)
(* lost, a smoke run reads the result; a recovery goes on only with an     *)
(* answer.  Any other failure ends the run, applied or not.                *)
WriteAnswered(r) ==
  /\ RunIs(r, "write")
  /\ WriteApplies(r)
  /\ ApplyWrite(r)
  /\ \/ Continue(r, [run[r] EXCEPT !.applied = TRUE, !.at = "postflight"])
     \/ Continue(r, [run[r] EXCEPT !.applied = TRUE, !.at = "done", !.outcome = "failed"])
  /\ UNCHANGED call

(* The batch is refused, does not arrive, or arrives after its answer was  *)
(* given up.                                                               *)
WriteUnanswered(r) ==
  /\ RunIs(r, "write")
  /\ \E late \in BOOLEAN :
       IF run[r].op \in SmokeOperations
       THEN \/ Continue(r, [run[r] EXCEPT !.transit = late, !.at = "postflight"])
            \/ Continue(r, [run[r] EXCEPT !.at = "done", !.outcome = "failed"])
       ELSE Continue(r, [run[r] EXCEPT !.transit = late, !.at = "done",
                                       !.outcome = "failed"])
  /\ UNCHANGED <<accountTables, call>>

(* The batch that was given up reaches the database after all.             *)
LateWrite(r) ==
  /\ run[r].transit
  /\ Continue(r, [run[r] EXCEPT !.transit = FALSE, !.applied = WriteApplies(r)])
  /\ IF WriteApplies(r) THEN ApplyWrite(r) ELSE UNCHANGED accountTables
  /\ UNCHANGED call

-----------------------------------------------------------------------------
(* Mutant: any run's audit row of the same action will do.                 *)
AuditedAsIntendedAnyRun(r) ==
  audit[Smoke].last # Null /\ run[audit[Smoke].last].op = run[r].op

(* The latest audit row carries this run's operation id.                   *)
AuditedAsIntended(r) == audit[Smoke].last = r

SmokeVerified(r) ==
  /\ accounts[Smoke].role = "staff"
  /\ accounts[Smoke].life = IF run[r].op = "disable" THEN "inactive" ELSE "active"
  /\ run[r].op # "disable" => accounts[Smoke].hash = run[r].hash
  /\ SessionRows(Smoke) = {}
  /\ AuditedAsIntended(r)

RecoveryVerified(r) ==
  /\ RecoverableAdmin(run[r].user)
  /\ accounts[run[r].user].hash = run[r].hash
  /\ SessionRows(run[r].user) = {}
  /\ audit[run[r].user].recovered

Postflight(r) ==
  /\ RunIs(r, "postflight")
  /\ Finish(r, IF IF run[r].op = "recover" THEN RecoveryVerified(r) ELSE SmokeVerified(r)
               THEN "completed" ELSE "failed")
  /\ UNCHANGED <<accountTables, call>>

(* A read fails, the operator does not confirm, or the script dies.        *)
GiveUp(r) ==
  /\ run[r].at \in {"write", "postflight"}
  /\ Finish(r, "failed")
  /\ UNCHANGED <<accountTables, call>>

RunStep(r) ==
  \/ \E op \in SmokeOperations, p \in Passwords : BeginSmoke(r, op, p)
  \/ \E u \in Usernames, p \in Passwords : BeginRecovery(r, u, p)
  \/ WriteAnswered(r) \/ WriteUnanswered(r) \/ LateWrite(r) \/ Postflight(r) \/ GiveUp(r)
=============================================================================
