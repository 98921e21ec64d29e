-------------------------- MODULE DisposableDatabase --------------------------
(***************************************************************************)
(* The D1 batch contract (scripts/d1-rest-batch-contract.mjs), one job of  *)
(* the delivery workflow: a database is created under a name of its own, a *)
(* batch whose last statement fails is sent to it, the value its first     *)
(* statement wrote is read back, and the database is removed, whatever     *)
(* failed before.  The database under test is Own; Foreign is a database   *)
(* of somebody else that has the same name.                                *)
(***************************************************************************)
EXTENDS Naturals, RestClient

CONSTANTS
  Own, Foreign,   \* identifiers of databases
  Attempts,       \* attempts of every retry loop (10)
  Lag,            \* lookups after which the list of databases is exact
  Null

Verdicts == {"verified", "operationFailed", "cleanupFailed", "refused", "killed"}

ASSUME DisposableAssumption ==
  /\ Attempts \in Nat \ {0} /\ Lag \in Nat /\ Lag < Attempts
  /\ Own # Foreign /\ Null \notin {Own, Foreign} \cup Verdicts

VARIABLES
  atomic,    \* whether D1 rolls a failed batch back
  dbs,       \* the databases that exist under the name
  listing,   \* the databases that a lookup by name shows
  content,   \* what the database under test holds
  job        \* the local variables of runD1RestBatchContract

platform == <<atomic, dbs, listing, content>>
dvars == <<atomic, dbs, listing, content, job>>

Databases == {Own, Foreign}
Empty == [table |-> FALSE, guard |-> FALSE, value |-> Null]

(* tries and lookups count the attempts of the loop that is running;       *)
(* target is the database that cleanup deletes, uuid the one that create   *)
(* made known.                                                             *)
Start == [at |-> "baseline", tries |-> 1, lookups |-> 1, failed |-> FALSE, uuid |-> Null,
          mayHaveCreated |-> FALSE, required |-> FALSE, target |-> Null,
          sawRetryable |-> FALSE, verdict |-> Null]

DInit ==
  /\ atomic \in BOOLEAN
  /\ dbs \in {{}, {Foreign}}
  /\ listing = dbs
  /\ content = Empty
  /\ job = Start

To(at) == job' = [job EXCEPT !.at = at, !.tries = 1, !.lookups = 1]
Conclude(v) == job' = [Start EXCEPT !.at = "done", !.verdict = v]
Retry == job' = [job EXCEPT !.tries = @ + 1]

(* The catch of the whole operation: whatever failed, cleanup comes next.  *)
Fail == job' = [job EXCEPT !.at = "cleanup", !.failed = TRUE, !.tries = 1]
-----------------------------------------------------------------------------
(* A lookup by name: it may lag behind, and is exact after Lag attempts.   *)
Look(seen) ==
  /\ seen \in {listing, dbs}
  /\ job.lookups > Lag => seen = dbs
  /\ listing' = seen

BaselineUnchecked(a) ==   \* mutant: a name in use goes unnoticed
  /\ job.at = "baseline"
  /\ UNCHANGED <<atomic, dbs, listing, content>>
  /\ IF a = "ok" THEN To("create") ELSE Conclude("refused")

(* The name must not be in use.                                            *)
Baseline(a) ==
  /\ job.at = "baseline"
  /\ UNCHANGED <<atomic, dbs, listing, content>>
  /\ IF a = "ok" /\ listing = {} THEN To("create") ELSE Conclude("refused")

(* What the answer to create makes known; the platform may refuse a name   *)
(* that is taken, and an invalid answer may still carry the identifier.    *)
Created(a, known) ==
  [job EXCEPT !.at = IF a = "ok" THEN "table" ELSE "cleanup",
              !.failed = a # "ok",
              !.tries = 1,
              !.uuid = IF a = "ok" \/ (a = "invalid" /\ known) THEN Own ELSE Null,
              !.mayHaveCreated = MayHaveSucceeded(a) \/ a = "invalid",
              !.required = a = "invalid"]

CreateDatabase(a) ==
  /\ job.at = "create"
  /\ a # "missing"
  /\ \E done \in Effects(a), known \in BOOLEAN, shown \in BOOLEAN :
       /\ dbs' = IF done THEN dbs \cup {Own} ELSE dbs
       /\ listing' = IF done /\ shown THEN listing \cup {Own} ELSE listing
       /\ job' = Created(a, known)
  /\ UNCHANGED <<atomic, content>>

(* The first table is retried while the new database is not ready; the     *)
(* statement fails when an earlier attempt has created the table.          *)
CreateTable(a) ==
  /\ job.at = "table"
  /\ a = "ok" => ~content.table
  /\ \E done \in Effects(a) :
       content' = [content EXCEPT !.table = @ \/ done]
  /\ IF a = "ok" THEN To("guard")
     ELSE IF job.tries < Attempts THEN Retry
     ELSE Fail
  /\ UNCHANGED <<atomic, dbs, listing>>

Query(at, next, field, value, a) ==
  /\ job.at = at
  /\ \E done \in Effects(a) :
       content' = IF done THEN [content EXCEPT ![field] = value] ELSE content
  /\ IF a = "ok" THEN To(next) ELSE Fail
  /\ UNCHANGED <<atomic, dbs, listing>>

CreateGuard(a) == Query("guard", "insert", "guard", TRUE, a)
InsertRow(a) == Query("insert", "batch", "value", 0, a)

(* The batch fails in its second statement, and is expected to say so      *)
(* ("constraint"); any other answer fails the contract.                    *)
FailingBatch(a) ==
  /\ job.at = "batch"
  /\ a # "ok"
  /\ \E done \in (IF a = "constraint" THEN {TRUE} ELSE Effects(a)) :
       content' = IF done /\ ~atomic THEN [content EXCEPT !.value = 1] ELSE content
  /\ IF a = "constraint" THEN To("select") ELSE Fail
  /\ UNCHANGED <<atomic, dbs, listing>>

RolledBackAnyRow == content.value # Null   \* mutant: the row, not its value
RolledBack == content.value = 0

SelectRow(a) ==
  /\ job.at = "select"
  /\ IF a = "ok" /\ RolledBack THEN To("cleanup") ELSE Fail
  /\ UNCHANGED platform
-----------------------------------------------------------------------------
(* The end of the run: a cleanup that failed hides any other error.        *)
CleanedUp == Conclude(IF job.failed THEN "operationFailed" ELSE "verified")
CleanupFailed == Conclude("cleanupFailed")

DeleteNext(u) == job' = [job EXCEPT !.at = "delete", !.target = u, !.tries = 1,
                                    !.sawRetryable = FALSE]

StartCleanup ==
  /\ job.at = "cleanup"
  /\ IF job.uuid # Null THEN DeleteNext(job.uuid)
     ELSE IF job.mayHaveCreated THEN To("lookup")
     ELSE CleanedUp
  /\ UNCHANGED platform

RetryEmpty == job.lookups < Attempts

(* The lookup of a database whose identifier never became known: an empty  *)
(* list is asked for again, as is an answer that failed for now.           *)
LookUp(a) ==
  /\ job.at = "lookup"
  /\ \E seen \in SUBSET Databases :
       /\ IF a = "ok" THEN Look(seen) ELSE (seen = {} /\ UNCHANGED listing)
       /\ \/ /\ a = "ok" /\ seen # {}
             /\ \E u \in seen : IF seen = {u} THEN DeleteNext(u) ELSE CleanupFailed
          \/ /\ seen = {} /\ (a = "ok" \/ Retryable(a)) /\ RetryEmpty
             /\ job' = [job EXCEPT !.lookups = @ + 1]
          \/ /\ seen = {} /\ a = "ok" /\ ~RetryEmpty
             /\ IF job.required THEN CleanupFailed ELSE CleanedUp
          \/ /\ a # "ok" /\ (Retryable(a) => ~RetryEmpty)
             /\ CleanupFailed
  /\ UNCHANGED <<atomic, dbs, content>>

(* A delete is answered "missing" when the database is gone; a replica may *)
(* say so too early, while the list still shows it.                        *)
DeleteDatabase(a) ==
  /\ job.at = "delete"
  /\ a # "invalid" /\ (job.target \notin dbs => a # "ok")
  /\ a = "missing" => job.target \notin dbs \/ job.target \in listing
  /\ \E done \in Effects(a), shown \in BOOLEAN :
       /\ dbs' = IF done THEN dbs \ {job.target} ELSE dbs
       /\ listing' = IF done /\ ~shown THEN listing \ {job.target} ELSE listing
  /\ IF a = "ok" THEN CleanedUp
     ELSE IF Retryable(a)
     THEN IF job.tries < Attempts
          THEN job' = [job EXCEPT !.tries = @ + 1, !.sawRetryable = TRUE]
          ELSE CleanupFailed
     ELSE IF a = "missing" /\ job.sawRetryable THEN
       job' = [job EXCEPT !.at = "recheck", !.lookups = 1]
     ELSE CleanupFailed
  /\ content' = IF Own \in dbs' THEN content ELSE Empty
  /\ UNCHANGED atomic

(* Whether a database reported missing after a failed attempt is gone.     *)
Recheck(a) ==
  /\ job.at = "recheck"
  /\ \E seen \in SUBSET Databases :
       /\ seen \in (IF a = "ok" THEN {listing, dbs} ELSE {{}})
       /\ listing' = IF a = "ok" THEN seen ELSE listing
       /\ \/ a = "ok" /\ seen = {} /\ CleanedUp
          \/ /\ a = "ok" /\ seen = {job.target} /\ job.tries < Attempts
             /\ job' = [job EXCEPT !.at = "delete", !.tries = @ + 1]
          \/ /\ a = "ok" /\ seen # {} /\ (seen = {job.target} => job.tries = Attempts)
             /\ CleanupFailed
          \/ /\ Retryable(a) /\ job.lookups < Attempts
             /\ job' = [job EXCEPT !.lookups = @ + 1]
          \/ /\ a # "ok" /\ (Retryable(a) => job.lookups = Attempts)
             /\ CleanupFailed
  /\ UNCHANGED <<atomic, dbs, content>>

(* The job is cancelled or exceeds its ten minutes.                        *)
Kill ==
  /\ job.at # "done"
  /\ Conclude("killed")
  /\ UNCHANGED platform

Call(a) ==
  \/ Baseline(a) \/ CreateDatabase(a) \/ CreateTable(a) \/ CreateGuard(a) \/ InsertRow(a)
  \/ FailingBatch(a) \/ SelectRow(a) \/ LookUp(a) \/ DeleteDatabase(a) \/ Recheck(a)

Step == StartCleanup \/ FailingBatch("constraint") \/ \E a \in Answers : Call(a)

DNext == Step \/ Kill

DSpec == DInit /\ [][DNext]_dvars /\ WF_dvars(Step)
-----------------------------------------------------------------------------
(* A run that does not report a failed cleanup leaves no database of its   *)
(* own behind, even when its create was never answered.                    *)
CleanupIsTruthful ==
  job.verdict \in {"verified", "operationFailed", "refused"} => Own \notin dbs

(* The contract is reported as verified only on a platform that rolls a    *)
(* failed batch back.                                                      *)
ContractVerdictIsSound == job.verdict = "verified" => atomic

(* A database that somebody else has under the name is never removed.      *)
OtherDatabasesStay == [][(Foreign \in dbs) => (Foreign \in dbs')]_dvars
=============================================================================
