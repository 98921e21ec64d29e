------------------------------- MODULE Pipeline -------------------------------
(***************************************************************************)
(* One run of the delivery workflow on main: its jobs need one another, so *)
(* the batch contract comes before the preflight and the release, and the  *)
(* authenticated smoke test last.  The operator acts during the release.   *)
(***************************************************************************)
EXTENDS DisposableDatabase, Delivery, SmokeTransaction

VARIABLE stage   \* the job at hand

pipelineVars == <<dvars, deliveryVars, smokeVars, stage>>

PipelineInit == DInit /\ DeliveryInit /\ SmokeInit /\ stage = "contract"

Contract(step) ==
  /\ stage = "contract"
  /\ step
  /\ stage' = IF job'.at = "done" /\ job'.verdict # "verified" THEN "ended" ELSE stage
  /\ UNCHANGED <<deliveryVars, smokeVars>>

BeginRelease ==
  /\ stage = "contract" /\ job.verdict = "verified"
  /\ \E c \in Commits : StartRun(c)
  /\ stage' = "release"
  /\ UNCHANGED <<dvars, smokeVars>>

Release ==
  /\ stage = "release"
  /\ \/ SmokePasses /\ stage' = IF run.worker = "web" THEN "business" ELSE stage
     \/ RunStepButSmoke /\ stage' = IF run'.at = "idle" THEN "ended" ELSE stage
  /\ UNCHANGED <<dvars, smokeVars>>

Operate ==
  /\ \/ stage = "release" /\ OperatorStep
     \/ stage = "ended" /\ Restore
  /\ UNCHANGED <<dvars, smokeVars, stage>>

Business(step) ==
  /\ stage = "business"
  /\ step
  /\ stage' = IF tx'.at = "done" THEN "ended" ELSE stage
  /\ UNCHANGED <<dvars, deliveryVars>>

WorkflowStep == Contract(Step) \/ BeginRelease \/ Release \/ Business(SmokeStep)

Cancel == Contract(Kill) \/ Business(SmokeKilled)

PipelineNext == WorkflowStep \/ Cancel \/ Operate

PipelineSpec ==
  PipelineInit /\ [][PipelineNext]_pipelineVars /\ WF_pipelineVars(WorkflowStep)
-----------------------------------------------------------------------------
(* A run of the workflow ends, whatever fails and however often it is      *)
(* tried again.                                                            *)
EveryPipelineEnds == <>(stage = "ended")
=============================================================================
