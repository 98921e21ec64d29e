--------------------------- MODULE DeliveryProofs ---------------------------
(***************************************************************************)
(* Proofs about the delivery workflow: the batch contract tells the truth  *)
(* about what it leaves behind, the recovery checkpoint precedes what the  *)
(* run migrates, a verified deployment was the only active one, and the    *)
(* smoke test forgets no session, for any commits, manifests and bounds.   *)
(***************************************************************************)
EXTENDS Pipeline, FiniteSetTheorems, TLAPS

-----------------------------------------------------------------------------
(* The jobs of the workflow take the steps of their own specifications.    *)

LEMMA ContractSteps == [PipelineNext]_pipelineVars => [DNext]_dvars
  BY DEF PipelineNext, WorkflowStep, Cancel, Operate, Contract, BeginRelease, Release,
         Business, DNext, pipelineVars

LEMMA ReleaseSteps == [PipelineNext]_pipelineVars => [DeliveryNext]_deliveryVars
  BY DEF PipelineNext, WorkflowStep, Cancel, Operate, Contract, BeginRelease, Release,
         Business, DeliveryNext, RunStep, pipelineVars

LEMMA BusinessSteps == [PipelineNext]_pipelineVars => [SmokeNext]_smokeVars
  BY DEF PipelineNext, WorkflowStep, Cancel, Operate, Contract, BeginRelease, Release,
         Business, SmokeNext, pipelineVars

-----------------------------------------------------------------------------
(* The smoke transaction.                                                  *)

SmokePlaces == {"page", "login", "me", "business", "logout", "revoked", "finally", "done"}

SmokeTyped ==
  /\ session \in BOOLEAN
  /\ tx \in [at : SmokePlaces, cookie : BOOLEAN, logoutAttempted : BOOLEAN,
             failed : BOOLEAN, verdict : {"none", "verified", "failed", "killed"}]

(* Only an observed revocation leads to the finally block without failure. *)
SmokeInv ==
  /\ SmokeTyped
  /\ tx.at = "page" => ~session
  /\ tx.at \in SmokePlaces \ {"finally", "done"} => ~tx.failed
  /\ tx.at = "finally" /\ ~tx.failed => ~session
  /\ tx.at # "done" => tx.verdict = "none"
  /\ VerifiedSmokeLeavesNoSession
  /\ SeenSessionsAreEnded

LEMMA SmokeInitially == SmokeInit => SmokeInv
<1> SUFFICES ASSUME SmokeInit PROVE SmokeInv
  OBVIOUS
<1>1. SmokeTyped
  BY DEF SmokeInit, SmokeTyped, SmokePlaces
<1>2. ~session
  BY Zenon DEF SmokeInit
<1>3. tx.at = "page" /\ ~tx.failed /\ tx.verdict = "none"
  BY Zenon DEF SmokeInit
<1> QED
  BY <1>1, <1>2, <1>3 DEF SmokeInv, VerifiedSmokeLeavesNoSession, SeenSessionsAreEnded

LEMMA SmokeStays == SmokeInv /\ [SmokeNext]_smokeVars => SmokeInv'
<1> SUFFICES ASSUME SmokeInv, [SmokeNext]_smokeVars PROVE SmokeInv'
  OBVIOUS
<1> USE DEF SmokeInv, SmokeTyped, SmokePlaces, VerifiedSmokeLeavesNoSession,
            SeenSessionsAreEnded
<1>1. ASSUME NEW at \in {"page", "me", "business"}, NEW next \in {"login", "business", "logout"},
             NEW expected, ReadStep(at, next, expected), at = "page" => next = "login"
      PROVE SmokeInv'
  BY <1>1 DEF ReadStep, Proceed, Finally
<1>2. CASE SmokeLogin
  BY <1>2 DEF SmokeLogin
<1>3. CASE SmokeLogout
  BY <1>3 DEF SmokeLogout, LogoutCall
<1>4. CASE tx.at = "revoked" /\ RevokedIsSeen /\ Proceed("finally") /\ UNCHANGED session
  BY <1>4 DEF RevokedIsSeen, Proceed
<1>5. CASE tx.at = "revoked" /\ Finally /\ UNCHANGED session
  BY <1>5 DEF Finally
<1>6. CASE SmokeFinally
  BY <1>6 DEF SmokeFinally, FinallyLogsOut, LogoutCall
<1>7. CASE SmokeKilled
  BY <1>7 DEF SmokeKilled
<1>8. CASE UNCHANGED smokeVars
  BY <1>8 DEF smokeVars
<1> QED
  BY <1>1, <1>2, <1>3, <1>4, <1>5, <1>6, <1>7, <1>8 DEF SmokeNext, SmokeStep

LEMMA SmokeInvariance == PipelineSpec => []SmokeInv
<1>1. PipelineInit => SmokeInv
  BY SmokeInitially DEF PipelineInit
<1>2. SmokeInv /\ [PipelineNext]_pipelineVars => SmokeInv'
  BY SmokeStays, BusinessSteps
<1> QED
  BY <1>1, <1>2, PTL DEF PipelineSpec

(* The transaction reports success only when its session is gone, however  *)
(* the logout under test answers.                                          *)
THEOREM VerifiedSmokeSafety == PipelineSpec => []VerifiedSmokeLeavesNoSession
<1>1. SmokeInv => VerifiedSmokeLeavesNoSession
  BY DEF SmokeInv
<1> QED
  BY <1>1, SmokeInvariance, PTL

(* A failed transaction that has seen its session has sent a logout.       *)
THEOREM SeenSessionSafety == PipelineSpec => []SeenSessionsAreEnded
<1>1. SmokeInv => SeenSessionsAreEnded
  BY DEF SmokeInv
<1> QED
  BY <1>1, SmokeInvariance, PTL

-----------------------------------------------------------------------------
(* The batch contract.                                                     *)

ContractPlaces ==
  {"baseline", "create", "table", "guard", "insert", "batch", "select",
   "cleanup", "lookup", "delete", "recheck", "done"}

Jobs == [at : ContractPlaces, tries : Nat, lookups : Nat, failed : BOOLEAN,
         uuid : {Null, Own}, mayHaveCreated : BOOLEAN, required : BOOLEAN,
         target : {Null, Own}, sawRetryable : BOOLEAN, verdict : Verdicts \cup {Null}]

ContractTyped ==
  /\ atomic \in BOOLEAN
  /\ dbs \in SUBSET Databases
  /\ listing \in SUBSET Databases
  /\ content \in [table : BOOLEAN, guard : BOOLEAN, value : {Null, 0, 1}]
  /\ job \in Jobs

(* Past the baseline nobody else has a database under the name.            *)
NameIsOurs ==
  /\ job.at = "baseline" => listing = dbs
  /\ job.at \notin {"baseline", "done"} => dbs \in SUBSET {Own} /\ listing \in SUBSET {Own}

(* Where the database can be, the run still knows what to remove.          *)
DatabaseIsTracked ==
  /\ job.at \in {"baseline", "create"} => Own \notin dbs
  /\ job.at \in {"table", "guard", "insert", "batch", "select"} => job.uuid = Own
  /\ job.at = "cleanup" /\ Own \in dbs => job.uuid = Own \/ job.mayHaveCreated
  /\ job.at \in {"delete", "recheck"} => job.target = Own
  /\ job.at = "recheck" /\ Own \in dbs => Own \in listing

(* Without a failure so far the row has told that the batch rolled back.   *)
FailureIsRemembered ==
  /\ job.at = "select" /\ content.value = 0 => atomic
  /\ job.at \in {"cleanup", "lookup", "delete", "recheck"} /\ ~job.failed => atomic
  /\ job.at # "done" => job.verdict = Null

ContractInv ==
  /\ ContractTyped
  /\ NameIsOurs
  /\ DatabaseIsTracked
  /\ FailureIsRemembered
  /\ CleanupIsTruthful
  /\ ContractVerdictIsSound

LEMMA ToFields ==
  ASSUME job \in Jobs, NEW at \in ContractPlaces, To(at)
  PROVE  /\ job' \in Jobs /\ job'.at = at /\ job'.tries = 1 /\ job'.lookups = 1
         /\ job'.failed = job.failed /\ job'.uuid = job.uuid
         /\ job'.mayHaveCreated = job.mayHaveCreated /\ job'.required = job.required
         /\ job'.target = job.target /\ job'.sawRetryable = job.sawRetryable
         /\ job'.verdict = job.verdict
  BY DEF To, Jobs

LEMMA ConcludeFields ==
  ASSUME NEW v \in Verdicts, Conclude(v)
  PROVE  job' \in Jobs /\ job'.at = "done" /\ job'.verdict = v
  BY DEF Conclude, Start, Jobs, ContractPlaces

LEMMA RetryFields ==
  ASSUME job \in Jobs, Retry
  PROVE  /\ job' \in Jobs /\ job'.at = job.at
         /\ job'.failed = job.failed /\ job'.uuid = job.uuid
         /\ job'.mayHaveCreated = job.mayHaveCreated /\ job'.required = job.required
         /\ job'.target = job.target /\ job'.verdict = job.verdict
  BY DEF Retry, Jobs

LEMMA FailFields ==
  ASSUME job \in Jobs, Fail
  PROVE  /\ job' \in Jobs /\ job'.at = "cleanup" /\ job'.failed
         /\ job'.uuid = job.uuid /\ job'.mayHaveCreated = job.mayHaveCreated
         /\ job'.required = job.required /\ job'.target = job.target
         /\ job'.verdict = job.verdict
  BY DEF Fail, Jobs, ContractPlaces

LEMMA ContractInitially == DInit => ContractInv
<1> SUFFICES ASSUME DInit PROVE ContractInv
  OBVIOUS
<1> USE DisposableAssumption
<1>1. job.at = "baseline" /\ job.verdict = Null /\ Own \notin dbs /\ listing = dbs
  BY DEF DInit, Start
<1>2. job \in Jobs
  BY DEF DInit, Start, Jobs, ContractPlaces
<1>3. content \in [table : BOOLEAN, guard : BOOLEAN, value : {Null, 0, 1}]
  BY DEF DInit, Empty
<1>4. ContractTyped
  BY <1>2, <1>3, Zenon DEF ContractTyped, DInit, Databases
<1> QED
  BY <1>1, <1>4 DEF ContractInv, NameIsOurs, DatabaseIsTracked, FailureIsRemembered,
     CleanupIsTruthful, ContractVerdictIsSound, Verdicts

(* What an answer says about the call behind it.                           *)
LEMMA EffectsOf ==
  ASSUME NEW a
  PROVE  /\ Effects(a) \subseteq BOOLEAN
         /\ a \in {"ok", "invalid"} => FALSE \notin Effects(a)
         /\ a \in {"refused", "missing", "limited"} => TRUE \notin Effects(a)
<1>1. Effects(a) \subseteq BOOLEAN
  BY DEF Effects
<1>2. ASSUME a \in {"ok", "invalid"} PROVE FALSE \notin Effects(a)
  BY <1>2 DEF Effects
<1>3. ASSUME a \in {"refused", "missing", "limited"} PROVE TRUE \notin Effects(a)
  BY <1>3 DEF Effects
<1> QED
  BY <1>1, <1>2, <1>3

LEMMA DeleteNextFields ==
  ASSUME job \in Jobs, NEW u \in {Null, Own}, DeleteNext(u)
  PROVE  /\ job' \in Jobs /\ job'.at = "delete" /\ job'.target = u
         /\ job'.failed = job.failed /\ job'.verdict = job.verdict
  BY DEF DeleteNext, Jobs, ContractPlaces

LEMMA CreatedFields ==
  ASSUME job \in Jobs, NEW a \in Answers, NEW known \in BOOLEAN, job' = Created(a, known)
  PROVE  /\ job' \in Jobs /\ job'.verdict = job.verdict
         /\ a = "ok" => job'.at = "table" /\ job'.uuid = Own /\ ~job'.failed
         /\ a # "ok" => job'.at = "cleanup" /\ job'.failed
         /\ MayHaveSucceeded(a) \/ a = "invalid" => job'.mayHaveCreated
  BY DEF Created, Jobs, ContractPlaces, MayHaveSucceeded

LEMMA CleanedUpFields ==
  ASSUME job \in Jobs, CleanedUp
  PROVE  /\ job' \in Jobs /\ job'.at = "done"
         /\ \/ job.failed /\ job'.verdict = "operationFailed"
            \/ ~job.failed /\ job'.verdict = "verified"
<1>1. CASE job.failed
  BY <1>1, ConcludeFields DEF CleanedUp, Verdicts
<1>2. CASE ~job.failed
  BY <1>2, ConcludeFields DEF CleanedUp, Verdicts
<1> QED
  BY <1>1, <1>2

LEMMA CleanupFailedFields ==
  ASSUME CleanupFailed
  PROVE  job' \in Jobs /\ job'.at = "done" /\ job'.verdict = "cleanupFailed"
  BY ConcludeFields DEF CleanupFailed, Verdicts

LEMMA ContractStays == ContractInv /\ [DNext]_dvars => ContractInv'
<1> SUFFICES ASSUME ContractInv, [DNext]_dvars PROVE ContractInv'
  OBVIOUS
<1> USE DisposableAssumption
        DEF ContractInv, ContractTyped, NameIsOurs, DatabaseIsTracked, FailureIsRemembered,
            CleanupIsTruthful, ContractVerdictIsSound, ContractPlaces, Verdicts, Databases
<1>1. ASSUME NEW a \in Answers, Baseline(a) PROVE ContractInv'
  BY <1>1, ToFields, ConcludeFields DEF Baseline
<1>3. ASSUME NEW a \in Answers, CreateTable(a) PROVE ContractInv'
  <2>1. /\ job.at = "table" /\ UNCHANGED <<atomic, dbs, listing>>
        /\ To("guard") \/ Retry \/ Fail
    BY <1>3 DEF CreateTable
  <2>2. content' \in [table : BOOLEAN, guard : BOOLEAN, value : {Null, 0, 1}]
    BY <1>3 DEF CreateTable
  <2> QED
    BY <2>1, <2>2, ToFields, RetryFields, FailFields
<1>4. ASSUME NEW a \in Answers, CreateGuard(a) PROVE ContractInv'
  BY <1>4, ToFields, FailFields DEF CreateGuard, Query, Effects
<1>2. ASSUME NEW a \in Answers, CreateDatabase(a) PROVE ContractInv'
  <2>1. /\ job.at = "create" /\ a # "missing" /\ UNCHANGED <<atomic, content>>
    BY <1>2 DEF CreateDatabase
  <2>2. PICK done \in Effects(a), known \in BOOLEAN, shown \in BOOLEAN :
          /\ dbs' = IF done THEN dbs \cup {Own} ELSE dbs
          /\ listing' = IF done /\ shown THEN listing \cup {Own} ELSE listing
          /\ job' = Created(a, known)
    BY <1>2 DEF CreateDatabase
  <2>3. dbs' \in SUBSET {Own} /\ listing' \in SUBSET {Own}
    BY <2>1, <2>2
  <2>4. Own \in dbs' => a \notin {"refused", "limited"}
    <3>1. done \in BOOLEAN /\ (a \in {"refused", "missing", "limited"} => done # TRUE)
      BY EffectsOf, Zenon
    <3>2. CASE done = FALSE
      BY <2>1, <2>2, <3>2, Zenon
    <3>3. CASE done = TRUE
      BY <3>1, <3>3
    <3> QED
      BY <3>1, <3>2, <3>3
  <2>5. CASE a = "ok"
    BY <2>1, <2>2, <2>3, <2>5, CreatedFields
  <2>6. CASE a # "ok"
    <3>1. Own \in dbs' => job'.mayHaveCreated
      BY <2>1, <2>2, <2>4, <2>6, CreatedFields DEF MayHaveSucceeded, Answers
    <3> QED
      BY <2>1, <2>2, <2>3, <2>6, <3>1, CreatedFields
  <2> QED
    BY <2>5, <2>6
<1>5. ASSUME NEW a \in Answers, InsertRow(a) PROVE ContractInv'
  BY <1>5, ToFields, FailFields DEF InsertRow, Query, Effects
<1>6. ASSUME NEW a \in Answers \cup {"constraint"}, FailingBatch(a) PROVE ContractInv'
  <2>1. /\ job.at = "batch" /\ UNCHANGED <<atomic, dbs, listing>>
        /\ IF a = "constraint" THEN To("select") ELSE Fail
    BY <1>6 DEF FailingBatch
  <2>2. /\ content' \in [table : BOOLEAN, guard : BOOLEAN, value : {Null, 0, 1}]
        /\ a = "constraint" /\ ~atomic => content'.value = 1
    BY <1>6 DEF FailingBatch
  <2>3. CASE a = "constraint" /\ To("select")
    <3>1. atomic => atomic'
      BY <2>1, Zenon
    <3>2. content'.value = 0 => atomic
      BY <2>2, <2>3
    <3> QED
      BY <2>1, <2>2, <2>3, <3>1, <3>2, ToFields
  <2>4. CASE Fail
    BY <2>1, <2>2, <2>4, FailFields
  <2> QED
    BY <2>1, <2>3, <2>4
<1>7. ASSUME NEW a \in Answers, SelectRow(a) PROVE ContractInv'
  BY <1>7, ToFields, FailFields DEF SelectRow, RolledBack, platform
<1>8. CASE StartCleanup
  BY <1>8, ToFields, DeleteNextFields, CleanedUpFields DEF StartCleanup, platform, Jobs
<1>9. ASSUME NEW a \in Answers, LookUp(a) PROVE ContractInv'
  <2>1. PICK seen \in SUBSET Databases :
          /\ IF a = "ok" THEN Look(seen) ELSE (seen = {} /\ UNCHANGED listing)
          /\ \/ /\ a = "ok" /\ seen # {}
                /\ \E u \in seen : IF seen = {u} THEN DeleteNext(u) ELSE CleanupFailed
             \/ /\ seen = {} /\ (a = "ok" \/ Retryable(a)) /\ RetryEmpty
                /\ job' = [job EXCEPT !.lookups = @ + 1]
             \/ /\ seen = {} /\ a = "ok" /\ ~RetryEmpty
                /\ IF job.required THEN CleanupFailed ELSE CleanedUp
             \/ /\ a # "ok" /\ (Retryable(a) => ~RetryEmpty)
                /\ CleanupFailed
    BY <1>9 DEF LookUp
  <2>2. job.at = "lookup" /\ UNCHANGED <<atomic, dbs, content>>
    BY <1>9 DEF LookUp
  <2>3. listing' \in SUBSET {Own} /\ (a = "ok" => seen \in SUBSET {Own})
    BY <2>1, <2>2 DEF Look
  <2>4. CASE \E u \in seen : a = "ok" /\ DeleteNext(u)
    BY <2>2, <2>3, <2>4, DeleteNextFields
  <2>5. CASE job' = [job EXCEPT !.lookups = @ + 1]
    <3>1. /\ job' \in Jobs /\ job'.at = "lookup"
          /\ job'.failed = job.failed /\ job'.verdict = job.verdict
      BY <2>2, <2>5 DEF Jobs
    <3> QED
      BY <3>1, <2>2, <2>3
  <2>6. CASE seen = {} /\ a = "ok" /\ ~RetryEmpty /\ CleanedUp
    <3>1. dbs = {}
      <4>1. job.lookups > Lag
        BY <2>6 DEF RetryEmpty, Jobs
      <4> QED
        BY <2>1, <2>6, <4>1 DEF Look
    <3> QED
      BY <3>1, <2>2, <2>3, <2>6, CleanedUpFields
  <2>7. CASE CleanupFailed
    BY <2>2, <2>3, <2>7, CleanupFailedFields
  <2> QED
    BY <2>1, <2>4, <2>5, <2>6, <2>7
<1>10. ASSUME NEW a \in Answers, DeleteDatabase(a) PROVE ContractInv'
  <2>1. /\ job.at = "delete" /\ job.target = Own /\ atomic' = atomic
        /\ dbs' \in SUBSET dbs /\ listing' \in SUBSET {Own}
        /\ a = "ok" => dbs' = {}
        /\ a = "missing" => dbs' = dbs /\ (Own \in dbs => Own \in listing')
    <3>1. /\ job.at = "delete" /\ job.target = Own /\ atomic' = atomic
          /\ a = "missing" => job.target \notin dbs \/ job.target \in listing
      BY <1>10 DEF DeleteDatabase
    <3>2. PICK done \in Effects(a), shown \in BOOLEAN :
            /\ dbs' = IF done THEN dbs \ {job.target} ELSE dbs
            /\ listing' = IF done /\ ~shown THEN listing \ {job.target} ELSE listing
      BY <1>10 DEF DeleteDatabase
    <3>3. /\ done \in BOOLEAN
          /\ a \in {"ok", "invalid"} => done # FALSE
          /\ a \in {"refused", "missing", "limited"} => done # TRUE
      <4>1. /\ Effects(a) \subseteq BOOLEAN
            /\ a \in {"ok", "invalid"} => FALSE \notin Effects(a)
            /\ a \in {"refused", "missing", "limited"} => TRUE \notin Effects(a)
        BY EffectsOf, Zenon
      <4> QED
        BY <3>2, <4>1, Zenon
    <3>4. CASE done = TRUE
      <4>1. dbs' = dbs \ {job.target} /\ listing' \in {listing, listing \ {job.target}}
        BY <3>2, <3>4, Zenon
      <4> QED
        BY <3>1, <3>3, <3>4, <4>1
    <3>5. CASE done = FALSE
      <4>1. dbs' = dbs /\ listing' = listing
        BY <3>2, <3>5, Zenon
      <4> QED
        BY <3>1, <3>3, <3>5, <4>1
    <3> QED
      BY <3>3, <3>4, <3>5
  <2>2. content' \in [table : BOOLEAN, guard : BOOLEAN, value : {Null, 0, 1}]
    BY <1>10 DEF DeleteDatabase, Empty
  <2>3. CASE a = "ok" /\ CleanedUp
    BY <2>1, <2>2, <2>3, CleanedUpFields
  <2>4. CASE job' = [job EXCEPT !.tries = @ + 1, !.sawRetryable = TRUE]
    <3>1. /\ job' \in Jobs /\ job'.at = "delete" /\ job'.target = job.target
          /\ job'.failed = job.failed /\ job'.verdict = job.verdict
      <4>1. job.tries + 1 \in Nat
        BY DEF Jobs
      <4> QED
        BY <2>1, <2>4, <4>1 DEF Jobs
    <3> QED
      BY <3>1, <2>1, <2>2
  <2>5. CASE a = "missing" /\ job' = [job EXCEPT !.at = "recheck", !.lookups = 1]
    <3>1. /\ job' \in Jobs /\ job'.at = "recheck" /\ job'.target = job.target
          /\ job'.failed = job.failed /\ job'.verdict = job.verdict
      BY <2>1, <2>5 DEF Jobs
    <3> QED
      BY <3>1, <2>1, <2>2, <2>5
  <2>6. CASE CleanupFailed
    BY <2>1, <2>2, <2>6, CleanupFailedFields
  <2> QED
    BY <1>10, <2>3, <2>4, <2>5, <2>6 DEF DeleteDatabase
<1>11. ASSUME NEW a \in Answers, Recheck(a) PROVE ContractInv'
  <2>1. PICK seen \in SUBSET Databases :
          /\ seen \in (IF a = "ok" THEN {listing, dbs} ELSE {{}})
          /\ listing' = IF a = "ok" THEN seen ELSE listing
          /\ \/ a = "ok" /\ seen = {} /\ CleanedUp
             \/ /\ a = "ok" /\ seen = {job.target} /\ job.tries < Attempts
                /\ job' = [job EXCEPT !.at = "delete", !.tries = @ + 1]
             \/ /\ a = "ok" /\ seen # {} /\ (seen = {job.target} => job.tries = Attempts)
                /\ CleanupFailed
             \/ /\ Retryable(a) /\ job.lookups < Attempts
                /\ job' = [job EXCEPT !.lookups = @ + 1]
             \/ /\ a # "ok" /\ (Retryable(a) => job.lookups = Attempts)
                /\ CleanupFailed
    BY <1>11 DEF Recheck
  <2>2. job.at = "recheck" /\ job.target = Own /\ UNCHANGED <<atomic, dbs, content>>
    BY <1>11 DEF Recheck
  <2>3. listing' \in SUBSET {Own}
    BY <2>1, <2>2
  <2>4. CASE a = "ok" /\ seen = {} /\ CleanedUp
    <3>1. Own \notin dbs
      BY <2>1, <2>2, <2>4
    <3> QED
      BY <3>1, <2>2, <2>3, CleanedUpFields, <2>4
  <2>5. CASE job' = [job EXCEPT !.at = "delete", !.tries = @ + 1]
    <3>1. /\ job' \in Jobs /\ job'.at = "delete" /\ job'.target = job.target
          /\ job'.failed = job.failed /\ job'.verdict = job.verdict
      <4>1. job.tries + 1 \in Nat
        BY DEF Jobs
      <4> QED
        BY <2>2, <2>5, <4>1 DEF Jobs
    <3> QED
      BY <3>1, <2>2, <2>3
  <2>6. CASE Retryable(a) /\ job' = [job EXCEPT !.lookups = @ + 1]
    <3>1. /\ job' \in Jobs /\ job'.at = "recheck" /\ job'.target = job.target
          /\ job'.failed = job.failed /\ job'.verdict = job.verdict
      BY <2>2, <2>6 DEF Jobs
    <3>2. listing' = listing
      BY <2>1, <2>6 DEF Retryable
    <3> QED
      BY <3>1, <3>2, <2>2, <2>3
  <2>7. CASE CleanupFailed
    BY <2>2, <2>3, <2>7, CleanupFailedFields
  <2> QED
    BY <2>1, <2>4, <2>5, <2>6, <2>7
<1>12. CASE Kill
  BY <1>12, ConcludeFields DEF Kill, platform
<1>13. CASE UNCHANGED dvars
  BY <1>13 DEF dvars, platform
<1> QED
  BY <1>1, <1>2, <1>3, <1>4, <1>5, <1>6, <1>7, <1>8, <1>9, <1>10, <1>11, <1>12, <1>13
     DEF DNext, Step, Call

LEMMA ContractInvariance == PipelineSpec => []ContractInv
<1>1. PipelineInit => ContractInv
  BY ContractInitially DEF PipelineInit
<1>2. ContractInv /\ [PipelineNext]_pipelineVars => ContractInv'
  BY ContractStays, ContractSteps
<1> QED
  BY <1>1, <1>2, PTL DEF PipelineSpec

(* A contract that does not report a failed cleanup leaves no database of  *)
(* its own behind, whatever answers its calls had.                         *)
THEOREM CleanupSafety == PipelineSpec => []CleanupIsTruthful
<1>1. ContractInv => CleanupIsTruthful
  BY DEF ContractInv
<1> QED
  BY <1>1, ContractInvariance, PTL

(* The contract is verified only on a platform that rolls failed batches   *)
(* back.                                                                   *)
THEOREM VerdictSafety == PipelineSpec => []ContractVerdictIsSound
<1>1. ContractInv => ContractVerdictIsSound
  BY DEF ContractInv
<1> QED
  BY <1>1, ContractInvariance, PTL

(* No step of the workflow removes a database that somebody else has under *)
(* the contract's name.                                                    *)
THEOREM OtherDatabaseSafety == PipelineSpec => OtherDatabasesStay
<1>1. ContractInv /\ [PipelineNext]_pipelineVars => [(Foreign \in dbs) => (Foreign \in dbs')]_dvars
  <2> SUFFICES ASSUME ContractInv, DNext, Foreign \in dbs PROVE Foreign \in dbs'
    BY ContractSteps
  <2>1. job.at \in {"baseline", "done"}
    BY DisposableAssumption DEF ContractInv, NameIsOurs
  <2> QED
    BY <2>1 DEF DNext, Step, Call, Kill, Baseline, CreateDatabase, CreateTable, CreateGuard,
       InsertRow, Query, FailingBatch, SelectRow, StartCleanup, LookUp, DeleteDatabase, Recheck,
       platform
<1> QED
  BY <1>1, ContractInvariance, PTL DEF PipelineSpec, OtherDatabasesStay

-----------------------------------------------------------------------------
(* The release.                                                            *)

RunPlaces ==
  {"idle", "bookmark", "applied", "api", "web", "migrate", "deploy", "read",
   "version", "reread", "smoke"}

RunStates ==
  [at : RunPlaces, commit : Commits \cup {None}, worker : Workers,
   version : Nat \cup {None}, initial : Nat \cup {None}, tries : Nat]

Checkpoints ==
  [bookmark : Nat \cup {None}, applied : Nat \cup {None},
   api : Nat \cup {None}, web : Nat \cup {None}]

USE DEF RunStates, Checkpoints

ReleaseTyped ==
  /\ schema \in Nat
  /\ history \in [Workers -> Seq(Deployment)]
  /\ \A w \in Workers : Len(history[w]) > 0
  /\ run \in RunStates
  /\ report \in Checkpoints

(* Nothing takes migrations back while a run goes on, so what is applied   *)
(* is never behind the bookmark.                                           *)
BookmarkIsOlder ==
  /\ run.at = "applied" => report.bookmark \in Nat /\ report.bookmark <= schema
  /\ run.at \in RunPlaces \ {"idle", "bookmark", "applied"} =>
       report.bookmark \in Nat /\ report.bookmark <= report.applied

ReleaseInv == ReleaseTyped /\ BookmarkIsOlder

LEMMA AfterSteps ==
  /\ After("bookmark") = "applied" /\ After("applied") = "api"
  /\ After("api") = "web" /\ After("web") = "migrate"
<1>1. /\ PreflightOrder[1] = "bookmark" /\ PreflightOrder[2] = "applied"
      /\ PreflightOrder[3] = "api" /\ PreflightOrder[4] = "web"
      /\ PreflightOrder[5] = "migrate"
  BY DEF PreflightOrder
<1>2. ASSUME NEW k \in 1 .. 4, NEW at, PreflightOrder[k] = at,
             \A n \in 2 .. 5 : PreflightOrder[n - 1] = at => n = k + 1
      PROVE  After(at) = PreflightOrder[k + 1]
  <2>1. k + 1 \in 2 .. 5 /\ PreflightOrder[(k + 1) - 1] = at
    BY <1>2
  <2>2. (CHOOSE n \in 2 .. 5 : PreflightOrder[n - 1] = at) = k + 1
    BY <1>2, <2>1
  <2> QED
    BY <2>2 DEF After
<1>3. \A n \in 2 .. 5 : n - 1 \in {1, 2, 3, 4}
  OBVIOUS
<1>4. After("bookmark") = PreflightOrder[1 + 1]
  BY <1>1, <1>2, <1>3
<1>5. After("applied") = PreflightOrder[2 + 1]
  BY <1>1, <1>2, <1>3
<1>6. After("api") = PreflightOrder[3 + 1]
  BY <1>1, <1>2, <1>3
<1>7. After("web") = PreflightOrder[4 + 1]
  BY <1>1, <1>2, <1>3
<1> QED
  BY <1>1, <1>4, <1>5, <1>6, <1>7

(* There is always a version number that no deployment has.                *)
LEMMA NextVersionType ==
  ASSUME ReleaseTyped, NEW w \in Workers
  PROVE  NextVersion(w) \in Nat
<1> DEFINE n == Len(history[w])
<1>1. n \in Nat /\ DOMAIN history[w] = 1 .. n
  BY DEF ReleaseTyped
<1>2. \A k \in Nat : IsFiniteSet(1 .. k) /\ Cardinality(1 .. k) = k
  BY FS_Interval
<1>3. /\ IsFiniteSet(1 .. n) /\ Cardinality(1 .. n) = n
      /\ IsFiniteSet(1 .. n + 1) /\ Cardinality(1 .. n + 1) = n + 1
  BY <1>1, <1>2
<1>4. IsFiniteSet(Versions(w)) /\ Cardinality(Versions(w)) <= n
  <2> DEFINE F == [i \in 1 .. n |-> history[w][i].version]
  <2>1. Versions(w) = {F[i] : i \in 1 .. n}
    BY <1>1 DEF Versions
  <2>2. F \in [1 .. n -> {F[i] : i \in 1 .. n}]
    OBVIOUS
  <2>3. F \in Surjection(1 .. n, {F[i] : i \in 1 .. n})
    BY <2>2 DEF Surjection
  <2> QED
    BY <1>3, <2>1, <2>3, FS_Surjection
<1>5. \E v \in 1 .. n + 1 : v \notin Versions(w)
  <2> SUFFICES ASSUME 1 .. n + 1 \subseteq Versions(w) PROVE FALSE
    OBVIOUS
  <2>1. Cardinality(1 .. n + 1) <= Cardinality(Versions(w))
    BY <1>4, FS_Subset
  <2>2. Cardinality(Versions(w)) \in Nat
    BY <1>4, FS_CardinalityType
  <2> QED
    BY <1>1, <1>3, <1>4, <2>1, <2>2
<1>6. NextVersion(w) \in 1 .. n + 1
  BY <1>5 DEF NextVersion
<1> QED
  BY <1>1, <1>6

LEMMA ReleaseInitially == DeliveryInit => ReleaseInv
<1> SUFFICES ASSUME DeliveryInit PROVE ReleaseInv
  OBVIOUS
<1>1. \A w \in Workers : history[w] \in Seq(Deployment) /\ Len(history[w]) > 0
  BY DEF DeliveryInit, Deployment
<1>2. /\ run \in RunStates
      /\ run.at = "idle"
  BY DEF DeliveryInit, Idle, RunPlaces, Workers
<1>3. report \in Checkpoints
  BY DEF DeliveryInit, NoReport
<1>4. schema \in Nat /\ history \in [Workers -> Seq(Deployment)]
  BY <1>1 DEF DeliveryInit
<1> QED
  BY <1>1, <1>2, <1>3, <1>4 DEF ReleaseInv, ReleaseTyped, BookmarkIsOlder

(* A deployment appends to the history of its Worker.                      *)
LEMMA DeployedHistory ==
  ASSUME ReleaseTyped, NEW w \in Workers, NEW v \in Nat, NEW m \in Commits \cup {None},
         NEW whole \in BOOLEAN, Deployed(w, v, m, whole)
  PROVE  history' \in [Workers -> Seq(Deployment)] /\ \A x \in Workers : Len(history'[x]) > 0
<1>1. PICK t \in {Active(w).at, Active(w).at + 1} :
        history' = [history EXCEPT ![w] =
          Append(@, [version |-> v, message |-> m, at |-> t, whole |-> whole])]
  BY DEF Deployed
<1>2. Active(w) \in Deployment
  BY DEF Active, Last, ReleaseTyped
<1>3. [version |-> v, message |-> m, at |-> t, whole |-> whole] \in Deployment
  BY <1>2 DEF Deployment
<1> QED
  BY <1>1, <1>3 DEF ReleaseTyped

LEMMA GoFields ==
  ASSUME ReleaseTyped, NEW at \in RunPlaces, Go(at)
  PROVE  run' \in RunStates /\ run'.at = at
  BY DEF Go, ReleaseTyped

LEMMA StopFields ==
  ASSUME Stop
  PROVE  run' \in RunStates /\ run'.at = "idle"
  BY DEF Stop, Idle, RunPlaces, Workers

LEMMA AgainFields ==
  ASSUME ReleaseTyped, Again
  PROVE  run' \in RunStates /\ run'.at \in {"read", "idle"}
<1>1. CASE run' = [run EXCEPT !.at = "read", !.tries = @ + 1, !.initial = None]
  <2>1. run.tries + 1 \in Nat
    BY DEF ReleaseTyped
  <2> QED
    BY <1>1, <2>1 DEF ReleaseTyped, RunPlaces
<1>2. CASE Stop
  BY <1>2, StopFields
<1> QED
  BY <1>1, <1>2 DEF Again

LEMMA ReleaseStays == ReleaseInv /\ [DeliveryNext]_deliveryVars => ReleaseInv'
<1> SUFFICES ASSUME ReleaseInv, [DeliveryNext]_deliveryVars PROVE ReleaseInv'
  OBVIOUS
<1> USE DEF ReleaseInv, BookmarkIsOlder, RunPlaces
<1>1. ASSUME NEW c \in Commits, StartRun(c) PROVE ReleaseInv'
  <2>1. run' = [at |-> "bookmark", commit |-> c, worker |-> "api", version |-> None,
                initial |-> None, tries |-> 1]
    BY <1>1 DEF StartRun, PreflightOrder, Idle
  <2> QED
    <3>1. run' \in RunStates /\ run'.at = "bookmark"
      BY <2>1 DEF Workers
    <3>2. report' \in Checkpoints
      BY <1>1 DEF StartRun, NoReport
    <3> QED
      BY <1>1, <3>1, <3>2 DEF StartRun, ReleaseTyped
<1>2. CASE TakeBookmark
  <2>1. Go("applied")
    BY <1>2, AfterSteps DEF TakeBookmark
  <2> QED
    <3>1. /\ report' \in Checkpoints
          /\ report'.bookmark = schema
      BY <1>2 DEF TakeBookmark, ReleaseTyped
    <3> QED
      BY <1>2, <2>1, <3>1, GoFields DEF TakeBookmark, ReleaseTyped
<1>3. CASE ReadApplied
  <2>1. Go("api")
    BY <1>3, AfterSteps DEF ReadApplied
  <2> QED
    BY <1>3, <2>1, GoFields DEF ReadApplied, ReleaseTyped
<1>4. ASSUME NEW w \in Workers, Snapshot(w) PROVE ReleaseInv'
  <2>1. \E at \in {"web", "migrate"} : Go(at)
    BY <1>4, AfterSteps DEF Snapshot, Workers
  <2>2. PICK i \in DOMAIN history[w] : report' = [report EXCEPT ![w] = i]
    BY <1>4 DEF Snapshot, Newest
  <2>3. i \in Nat
    BY <2>2 DEF ReleaseTyped
  <2> QED
    BY <1>4, <2>1, <2>2, <2>3, GoFields DEF Snapshot, ReleaseTyped, Workers
<1>5. CASE ApplyMigration
  BY <1>5 DEF ApplyMigration, ReleaseTyped
<1>6. CASE Migrated
  BY <1>6, GoFields DEF Migrated, ReleaseTyped
<1>7. CASE DeployWorker
  <2>1. run.worker \in Workers /\ run.commit \in Commits \cup {None}
        /\ NextVersion(run.worker) \in Nat
    BY NextVersionType DEF ReleaseTyped
  <2>2. history' \in [Workers -> Seq(Deployment)] /\ \A x \in Workers : Len(history'[x]) > 0
    BY <1>7, <2>1, DeployedHistory DEF DeployWorker
  <2> QED
    BY <1>7, <2>1, <2>2 DEF DeployWorker, ReleaseTyped
<1>8. CASE DeployUnseen
  <2>1. run.worker \in Workers /\ run.commit \in Commits \cup {None}
        /\ NextVersion(run.worker) \in Nat
    BY NextVersionType DEF ReleaseTyped
  <2>2. history' \in [Workers -> Seq(Deployment)] /\ \A x \in Workers : Len(history'[x]) > 0
    BY <1>8, <2>1, DeployedHistory DEF DeployUnseen
  <2> QED
    BY <1>8, <2>2, StopFields DEF DeployUnseen, ReleaseTyped
<1>9. CASE ReadActive
  <2>1. PICK i \in Newest(run.worker) :
          IF Expected(run.worker, i)
          THEN run' = [run EXCEPT !.at = "version", !.initial = i] ELSE Again
    BY <1>9 DEF ReadActive
  <2>2. i \in Nat
    BY <2>1 DEF Newest, ReleaseTyped
  <2> QED
    BY <1>9, <2>1, <2>2, AgainFields DEF ReadActive, ReleaseTyped
<1>10. CASE ReadVersion
  BY <1>10 DEF ReadVersion, ReleaseTyped
<1>11. CASE Reread
  BY <1>11, GoFields, AgainFields DEF Reread, ReleaseTyped
<1>12. CASE ReadFails
  BY <1>12, AgainFields DEF ReadFails, ReleaseTyped
<1>13. CASE SmokePasses
  <2>1. CASE run' = [run EXCEPT !.at = "deploy", !.worker = "web", !.version = None,
                                !.initial = None, !.tries = 1]
    <3>1. run' \in RunStates /\ run'.at = "deploy"
      BY <2>1 DEF ReleaseTyped, Workers
    <3> QED
      BY <1>13, <3>1 DEF SmokePasses, ReleaseTyped
  <2>2. CASE Stop
    BY <1>13, <2>2, StopFields DEF SmokePasses, ReleaseTyped
  <2> QED
    BY <1>13, <2>1, <2>2 DEF SmokePasses
<1>14. CASE SmokeRetries
  <2>1. run.tries + 1 \in Nat
    BY DEF ReleaseTyped
  <2>2. run' \in RunStates /\ run'.at = "smoke"
    BY <1>14, <2>1 DEF SmokeRetries, ReleaseTyped
  <2> QED
    BY <1>14, <2>2 DEF SmokeRetries, ReleaseTyped
<1>15. CASE StepFails
  BY <1>15, StopFields DEF StepFails, ReleaseTyped
<1>16. ASSUME NEW w \in Workers, NEW v \in Versions(w), NEW m \in Messages(v),
              NEW whole \in BOOLEAN, DeployByHand(w, v, m, whole)
       PROVE  ReleaseInv'
  <2>1. v \in Nat
    <3>1. PICK i \in DOMAIN history[w] : v = history[w][i].version
      BY DEF Versions
    <3>2. history[w][i] \in Deployment
      BY <3>1 DEF ReleaseTyped
    <3> QED
      BY <3>1, <3>2 DEF Deployment
  <2>2. m \in Commits \cup {None}
    BY DEF Messages, ReleaseTyped
  <2>3. history' \in [Workers -> Seq(Deployment)] /\ \A x \in Workers : Len(history'[x]) > 0
    BY <1>16, <2>1, <2>2, DeployedHistory DEF DeployByHand
  <2> QED
    BY <1>16, <2>3 DEF DeployByHand, ReleaseTyped
<1>17. CASE MigrateByHand
  BY <1>17 DEF MigrateByHand, ReleaseTyped
<1>18. CASE Restore
  BY <1>18 DEF Restore, ReleaseTyped
<1>19. CASE UNCHANGED deliveryVars
  BY <1>19 DEF deliveryVars, ReleaseTyped
<1> QED
  BY <1>1, <1>2, <1>3, <1>4, <1>5, <1>6, <1>7, <1>8, <1>9, <1>10, <1>11, <1>12, <1>13,
     <1>14, <1>15, <1>16, <1>17, <1>18, <1>19
     DEF DeliveryNext, RunStep, RunStepButSmoke, OperatorStep, Workers

LEMMA ReleaseInvariance == PipelineSpec => []ReleaseInv
<1>1. PipelineInit => ReleaseInv
  BY ReleaseInitially DEF PipelineInit
<1>2. ReleaseInv /\ [PipelineNext]_pipelineVars => ReleaseInv'
  BY ReleaseStays, ReleaseSteps
<1> QED
  BY <1>1, <1>2, PTL DEF PipelineSpec

(* From its preflight on, the checkpoint of a run lies before everything   *)
(* that the run migrates, whoever migrates meanwhile.                      *)
THEOREM RecoveryPointSafety == PipelineSpec => []RecoveryPointPrecedesMigrations
<1>1. ReleaseInv => RecoveryPointPrecedesMigrations
  BY DEF ReleaseInv, BookmarkIsOlder, RecoveryPointPrecedesMigrations, RunPlaces
<1> QED
  BY <1>1, ReleaseInvariance, PTL

(* A deployment that the two reads have verified is the last one of its    *)
(* Worker, so no deployment came between them.                             *)
THEOREM VerifiedDeploymentSafety == PipelineSpec => VerifiedDeploymentNeverChanged
<1>1. ReleaseInv /\ [PipelineNext]_pipelineVars =>
        [run.at = "reread" /\ run'.at = "smoke"
           => run.initial = Len(history[run.worker])]_deliveryVars
  <2> SUFFICES ASSUME ReleaseInv, DeliveryNext, run.at = "reread", run'.at = "smoke"
               PROVE  run.initial = Len(history[run.worker])
    BY ReleaseSteps
  <2> USE DEF ReleaseInv
  <2>1. Reread
    <3>1. ~Again
      BY AgainFields
    <3>2. ~Stop
      BY StopFields
    <3> QED
      BY <3>1, <3>2 DEF DeliveryNext, RunStep, RunStepButSmoke, OperatorStep, StartRun,
         TakeBookmark, ReadApplied, Snapshot, ApplyMigration, Migrated, DeployWorker, DeployUnseen,
         ReadActive, ReadVersion, ReadFails, SmokePasses, SmokeRetries, StepFails, DeployByHand,
         MigrateByHand, Restore
  <2>2. PICK i \in Newest(run.worker) :
          IF Expected(run.worker, i) /\ SameDeployment(i) THEN Go("smoke") ELSE Again
    BY <2>1 DEF Reread
  <2>3. Newest(run.worker) = {i} /\ i = run.initial
    BY <2>2, AgainFields DEF Expected, SameDeployment
  <2>4. Len(history[run.worker]) \in Newest(run.worker)
    BY DEF Newest, Active, Last, ReleaseTyped
  <2> QED
    BY <2>3, <2>4
<1> QED
  BY <1>1, ReleaseInvariance, PTL DEF PipelineSpec, VerifiedDeploymentNeverChanged
=============================================================================
