------------------------------- MODULE Delivery -------------------------------
(***************************************************************************)
(* The delivery workflow (.github/workflows/deploy-worker.yml) from its    *)
(* production preflight on, with the scripts that its steps run, and an    *)
(* operator who deploys and migrates by hand meanwhile.  Runs of the       *)
(* workflow do not overlap (its concurrency group); the operator's steps   *)
(* come between any two steps of a run.  Cloudflare's answers are exact or *)
(* fail.                                                                   *)
(***************************************************************************)
EXTENDS Naturals, Sequences

CONSTANTS
  Commits,          \* what a run can be started for
  Manifest,         \* per commit: how many migrations its directory holds
  VerifyAttempts,   \* attempts to see the deployment become active (4)
  SmokeAttempts,    \* attempts of the smoke test of a Worker (5)
  MaxDeployments,   \* bound: deployments of the two Workers together
  None

Workers == {"api", "web"}

ASSUME DeliveryAssumption ==
  /\ Manifest \in [Commits -> Nat]
  /\ VerifyAttempts \in Nat \ {0} /\ SmokeAttempts \in Nat \ {0}
  /\ None \notin Commits

VARIABLES
  schema,    \* migrations applied to the production database, in order
  history,   \* per Worker: its deployments, the last one is active
  run,       \* the run of the workflow
  report     \* the recovery checkpoint that the run has published

deliveryVars == <<schema, history, run, report>>

MaxSchema == CHOOSE n \in {Manifest[c] : c \in Commits} : \A c \in Commits : Manifest[c] <= n

(* A deployment: the version it serves, its message, the instant of its    *)
(* creation, and whether that version takes all the traffic.               *)
Deployment == [version : Nat, message : Commits \cup {None}, at : Nat, whole : BOOLEAN]

PreflightOrderLate ==   \* mutant: the bookmark after what is applied
  <<"applied", "bookmark", "api", "web", "migrate">>

(* The preflight reads in this order, the bookmark before anything else.   *)
PreflightOrder == <<"bookmark", "applied", "api", "web", "migrate">>
After(at) == PreflightOrder[CHOOSE n \in 2..5 : PreflightOrder[n - 1] = at]

NoReport == [bookmark |-> None, applied |-> None, api |-> None, web |-> None]
Idle == [at |-> "idle", commit |-> None, worker |-> "api", version |-> None,
         initial |-> None, tries |-> 1]

DeliveryInit ==
  /\ schema = 0
  /\ history = [w \in Workers |->
       <<[version |-> 1, message |-> None, at |-> 0, whole |-> TRUE]>>]
  /\ run = Idle
  /\ report = NoReport

Go(at) == run' = [run EXCEPT !.at = at, !.tries = 1]
Stop == run' = Idle

Last(h) == h[Len(h)]
Active(w) == Last(history[w])

(* What a list of deployments shows as the active one: one of the newest.  *)
Newest(w) == {i \in DOMAIN history[w] : history[w][i].at = Active(w).at}

Versions(w) == {history[w][i].version : i \in DOMAIN history[w]}
NextVersion(w) == CHOOSE v \in 1..Len(history[w]) + 1 : v \notin Versions(w)

(* A new deployment may be created in the same instant as the last one.    *)
Deployed(w, v, m, whole) ==
  /\ Len(history["api"]) + Len(history["web"]) < MaxDeployments
  /\ \E t \in {Active(w).at, Active(w).at + 1} :
       history' = [history EXCEPT ![w] =
         Append(@, [version |-> v, message |-> m, at |-> t, whole |-> whole])]
-----------------------------------------------------------------------------
(* The production preflight.                                               *)
StartRun(c) ==
  /\ run.at = "idle"
  /\ run' = [Idle EXCEPT !.at = PreflightOrder[1], !.commit = c]
  /\ report' = NoReport
  /\ UNCHANGED <<schema, history>>

(* A bookmark stands for the state of the database when it was taken.      *)
TakeBookmark ==
  /\ run.at = "bookmark"
  /\ report' = [report EXCEPT !.bookmark = schema]
  /\ Go(After("bookmark"))
  /\ UNCHANGED <<schema, history>>

(* What is applied must be a prefix of the commit's manifest.              *)
ReadApplied ==
  /\ run.at = "applied"
  /\ schema <= Manifest[run.commit]
  /\ report' = [report EXCEPT !.applied = schema]
  /\ Go(After("applied"))
  /\ UNCHANGED <<schema, history>>

(* The deployment to roll back to is one that takes all the traffic.       *)
Snapshot(w) ==
  /\ run.at = w
  /\ \E i \in Newest(w) :
       history[w][i].whole /\ report' = [report EXCEPT ![w] = i]
  /\ Go(After(w))
  /\ UNCHANGED <<schema, history>>

(* wrangler applies what is pending one migration at a time, and fails     *)
(* nothing that is already applied.                                        *)
ApplyMigration ==
  /\ run.at = "migrate"
  /\ schema < Manifest[run.commit]
  /\ schema' = schema + 1
  /\ UNCHANGED <<history, run, report>>

Migrated ==
  /\ run.at = "migrate"
  /\ schema >= Manifest[run.commit]
  /\ Go("deploy")
  /\ UNCHANGED <<schema, history, report>>

(* The deployment, and the evidence of it that wrangler leaves in a file.  *)
DeployWorker ==
  /\ run.at = "deploy"
  /\ Deployed(run.worker, NextVersion(run.worker), run.commit, TRUE)
  /\ run' = [run EXCEPT !.at = "read", !.version = NextVersion(run.worker), !.tries = 1]
  /\ UNCHANGED <<schema, report>>

(* The deployment is made and the step fails all the same.                 *)
DeployUnseen ==
  /\ run.at = "deploy"
  /\ Deployed(run.worker, NextVersion(run.worker), run.commit, TRUE)
  /\ Stop
  /\ UNCHANGED <<schema, report>>

(* The active deployment of a list is the expected one, all of the traffic *)
(* goes to it, it is the run's own, and no other is as new.                *)
Expected(w, i) ==
  LET d == history[w][i] IN
    /\ d.version = run.version /\ d.whole /\ d.message = run.commit
    /\ Newest(w) = {i}

AgainForever ==   \* mutant: the attempt is not counted
  run' = [run EXCEPT !.at = "read", !.initial = None]

Again ==
  IF run.tries < VerifyAttempts
  THEN run' = [run EXCEPT !.at = "read", !.tries = @ + 1, !.initial = None]
  ELSE Stop

ReadActive ==
  /\ run.at = "read"
  /\ \E i \in Newest(run.worker) :
       IF Expected(run.worker, i)
       THEN run' = [run EXCEPT !.at = "version", !.initial = i] ELSE Again
  /\ UNCHANGED <<schema, history, report>>

ReadVersion ==
  /\ run.at = "version"
  /\ run' = [run EXCEPT !.at = "reread"]
  /\ UNCHANGED <<schema, history, report>>

SameDeploymentAny(i) == TRUE   \* mutant: the same version is enough
SameDeployment(i) == i = run.initial

Reread ==
  /\ run.at = "reread"
  /\ \E i \in Newest(run.worker) :
       IF Expected(run.worker, i) /\ SameDeployment(i) THEN Go("smoke") ELSE Again
  /\ UNCHANGED <<schema, history, report>>

(* A read that fails or times out is tried again with the whole attempt.   *)
ReadFails ==
  /\ run.at \in {"read", "version", "reread"}
  /\ Again
  /\ UNCHANGED <<schema, history, report>>

(* The smoke test of the Worker; the web one comes after the API, and the  *)
(* transaction of SmokeTransaction last.                                   *)
SmokePasses ==
  /\ run.at = "smoke"
  /\ IF run.worker = "api"
     THEN run' = [run EXCEPT !.at = "deploy", !.worker = "web", !.version = None,
                             !.initial = None, !.tries = 1]
     ELSE Stop
  /\ UNCHANGED <<schema, history, report>>

SmokeRetries ==
  /\ run.at = "smoke"
  /\ run.tries < SmokeAttempts
  /\ run' = [run EXCEPT !.tries = @ + 1]
  /\ UNCHANGED <<schema, history, report>>

(* Any step may fail, be cancelled or run out of its minutes.              *)
StepFails ==
  /\ run.at # "idle"
  /\ Stop
  /\ UNCHANGED <<schema, history, report>>
-----------------------------------------------------------------------------
(* The operator deploys a version again, or splits the traffic; a message  *)
(* tells only the version of the run at hand from others.                  *)
Messages(v) == IF v = run.version THEN {run.commit, None} ELSE {None}

DeployByHand(w, v, m, whole) ==
  /\ v \in Versions(w)
  /\ Deployed(w, v, m, whole)
  /\ UNCHANGED <<schema, run, report>>

MigrateByHand ==
  /\ schema < MaxSchema
  /\ schema' = schema + 1
  /\ UNCHANGED <<history, run, report>>

(* A restore goes back to a checkpoint, between two runs.                  *)
Restore ==
  /\ run.at = "idle" /\ report.bookmark # None
  /\ schema' = report.bookmark
  /\ UNCHANGED <<history, run, report>>

RunStepButSmoke ==
  \/ TakeBookmark \/ ReadApplied \/ Snapshot("api") \/ Snapshot("web") \/ ApplyMigration \/ Migrated
  \/ DeployWorker \/ DeployUnseen \/ ReadActive \/ ReadVersion \/ Reread
  \/ ReadFails \/ SmokeRetries \/ StepFails

RunStep == RunStepButSmoke \/ SmokePasses

OperatorStep ==
  \/ \E w \in Workers, whole \in BOOLEAN :
       \E v \in Versions(w) : \E m \in Messages(v) : DeployByHand(w, v, m, whole)
  \/ MigrateByHand

DeliveryNext == (\E c \in Commits : StartRun(c)) \/ RunStep \/ OperatorStep \/ Restore

DeliverySpec ==
  DeliveryInit /\ [][DeliveryNext]_deliveryVars /\ WF_deliveryVars(RunStep)
-----------------------------------------------------------------------------
(* A deployment that is reported as verified was active, alone, from the   *)
(* first of the two reads to the second: no deployment by hand comes       *)
(* between them (readVerifiedWorkerDeployment, lines 337 to 353).          *)
VerifiedDeploymentNeverChanged ==
  [][run.at = "reread" /\ run'.at = "smoke"
       => run.initial = Len(history[run.worker])]_deliveryVars

(* Restoring the bookmark of a run undoes every migration that the run     *)
(* applied, also when somebody migrates during its preflight.              *)
RecoveryPointPrecedesMigrations ==
  run.at \in {"migrate", "deploy", "read", "version", "reread", "smoke"}
    => report.bookmark <= report.applied
=============================================================================
