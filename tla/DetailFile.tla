----------------------------- MODULE DetailFile -----------------------------
(***************************************************************************)
(* The file that the audit with --details writes                           *)
(* (scripts/audit-order-item-integrity.mjs): its path is reserved with an  *)
(* exclusive create before the query runs, filled, and taken back when a   *)
(* step fails.  Runs given one path, and another process that replaces or  *)
(* removes what is there, take their steps in any order; any call may fail *)
(* and a run may die between two.  An inode is named by its creator.       *)
(***************************************************************************)
EXTENDS Integers

CONSTANTS
  Audits,     \* runs of the audit, all given the same --output
  Foreign,    \* the inode of another process
  NoFile

ASSUME DetailAssumption ==
  Foreign \notin Audits /\ NoFile \notin Audits \cup {Foreign}

VARIABLES
  entry,      \* the inode at the output path, or NoFile
  fill,       \* [a \in Audits |-> what its inode holds: "none", "empty", "part" or "whole"]
  audit,      \* [a \in Audits |-> the next step of the run]
  stuck       \* history: the runs whose inode could not be identified or removed

detailVars == <<entry, fill, audit, stuck>>

Goes(a, step) == audit' = [audit EXCEPT ![a] = step]
Fills(a, content) == fill' = [fill EXCEPT ![a] = content]

-----------------------------------------------------------------------------
(* resolveCanonicalDetailOutput: nothing may be at the path.               *)
ResolveOutput(a) ==
  /\ audit[a] = "start"
  /\ \/ entry = NoFile /\ Goes(a, "reserve")
     \/ Goes(a, "failed")
  /\ UNCHANGED <<entry, fill, stuck>>

(* openSync with O_EXCL: refused when a file came in between.              *)
ReserveOutput(a) ==
  /\ audit[a] = "reserve"
  /\ \/ entry = NoFile /\ entry' = a /\ Fills(a, "empty") /\ Goes(a, "identify")
     \/ Goes(a, "failed") /\ UNCHANGED <<entry, fill>>
  /\ UNCHANGED stuck

(* Without fstat the run does not know its inode, and leaves it.           *)
IdentifyOutput(a) ==
  /\ audit[a] = "identify"
  /\ \/ Goes(a, "query") /\ UNCHANGED stuck
     \/ Goes(a, "failed") /\ stuck' = stuck \cup {a}
  /\ UNCHANGED <<entry, fill>>

(* The mode is set, the query runs and its rows are validated.             *)
QueryRows(a) ==
  /\ audit[a] = "query"
  /\ \E step \in {"write", "cleanup"} : Goes(a, step)
  /\ UNCHANGED <<entry, fill, stuck>>

(* The report is written in pieces and then forced to the disk.            *)
WriteRows(a) ==
  /\ audit[a] = "write"
  /\ \/ Fills(a, "part") /\ UNCHANGED audit
     \/ Fills(a, "whole") /\ Goes(a, "sync")
     \/ Goes(a, "cleanup") /\ UNCHANGED fill
  /\ UNCHANGED <<entry, stuck>>

SyncRows(a) ==
  /\ audit[a] = "sync"
  /\ \E step \in {"check", "cleanup"} : Goes(a, step)
  /\ UNCHANGED <<entry, fill, stuck>>

(* assertReservedInode: what is at the path is still the run's inode.      *)
CheckOutput(a) ==
  /\ audit[a] = "check"
  /\ \/ entry = a /\ Goes(a, "close")
     \/ Goes(a, "cleanup")
  /\ UNCHANGED <<entry, fill, stuck>>

CloseOutput(a) ==
  /\ audit[a] = "close"
  /\ \E step \in {"written", "failed"} : Goes(a, step)
  /\ UNCHANGED <<entry, fill, stuck>>

(* Mutant: the reservation is closed on a failure and its file left there. *)
LookToCleanCloses(a) ==
  /\ audit[a] = "cleanup"
  /\ Goes(a, "failed")
  /\ UNCHANGED <<entry, fill, stuck>>

(* cleanupReservation: the path is looked at, and unlinked if it is own;   *)
(* errors of either call are swallowed.                                    *)
LookToClean(a) ==
  /\ audit[a] = "cleanup"
  /\ \/ entry = a /\ Goes(a, "unlink") /\ UNCHANGED stuck
     \/ entry # a /\ Goes(a, "failed") /\ UNCHANGED stuck
     \/ Goes(a, "failed") /\ stuck' = stuck \cup {a}
  /\ UNCHANGED <<entry, fill>>

UnlinkOutput(a) ==
  /\ audit[a] = "unlink"
  /\ \/ entry' = NoFile /\ UNCHANGED stuck
     \/ stuck' = stuck \cup {a} /\ UNCHANGED entry
  /\ Goes(a, "failed")
  /\ UNCHANGED fill

AuditDies(a) ==
  /\ audit[a] \notin {"start", "written", "failed", "dead"}
  /\ Goes(a, "dead")
  /\ UNCHANGED <<entry, fill, stuck>>

(* Another process removes what is at the path or puts its file there.     *)
PathChanges ==
  /\ \E left \in {NoFile, Foreign} : left # entry /\ entry' = left
  /\ UNCHANGED <<fill, audit, stuck>>

-----------------------------------------------------------------------------
DetailInit ==
  /\ entry = NoFile
  /\ fill = [a \in Audits |-> "none"]
  /\ audit = [a \in Audits |-> "start"]
  /\ stuck = {}

AuditSteps(a) ==
  \/ ResolveOutput(a) \/ ReserveOutput(a) \/ IdentifyOutput(a) \/ QueryRows(a)
  \/ WriteRows(a) \/ SyncRows(a) \/ CheckOutput(a) \/ CloseOutput(a)
  \/ LookToClean(a) \/ UnlinkOutput(a) \/ AuditDies(a)

DetailNext == (\E a \in Audits : AuditSteps(a)) \/ PathChanges

DetailSpec == DetailInit /\ [][DetailNext]_detailVars

-----------------------------------------------------------------------------
(* Of the runs that share a path, whatever fails and whoever changes the   *)
(* path: a run that reports its details written wrote all of them, and the *)
(* inode a failed run leaves at the path is whole, unless the run could    *)
(* not identify or remove it.                                              *)
DetailsAreWholeOrGone ==
  \A a \in Audits :
    /\ audit[a] = "written" => fill[a] = "whole"
    /\ audit[a] = "failed" /\ entry = a /\ a \notin stuck => fill[a] = "whole"
=============================================================================
