------------------------------ MODULE FileProofs ------------------------------
(***************************************************************************)
(* Proofs about the files of the operator's tools, for any exports, any    *)
(* number of appliers and audits: the report describes what lies beside    *)
(* it, Wrangler runs reviewed text only, details are whole or gone.        *)
(***************************************************************************)
EXTENDS SeedFiles, DetailFile, FiniteSetTheorems, TLAPS

-----------------------------------------------------------------------------
(* The details file.                                                       *)

AuditPlaces ==
  {"start", "reserve", "identify", "query", "write", "sync", "check", "close",
   "cleanup", "unlink", "written", "failed", "dead"}

DetailTyped ==
  /\ entry \in Audits \cup {NoFile, Foreign}
  /\ fill \in [Audits -> {"none", "empty", "part", "whole"}]
  /\ audit \in [Audits -> AuditPlaces]
  /\ stuck \in SUBSET Audits

(* No inode of a run exists before its reservation, and all that follows   *)
(* the writing has the whole report.                                       *)
InodesSound ==
  \A a \in Audits :
    /\ audit[a] \in {"start", "reserve"} => entry # a
    /\ audit[a] \in {"sync", "check", "close"} => fill[a] = "whole"

DetailInv == DetailTyped /\ InodesSound /\ DetailsAreWholeOrGone

LEMMA DetailInitially == DetailInit => DetailInv
  BY DetailAssumption DEF DetailInit, DetailInv, DetailTyped, InodesSound,
     DetailsAreWholeOrGone, AuditPlaces

LEMMA DetailStays == DetailInv /\ [DetailNext]_detailVars => DetailInv'
<1> SUFFICES ASSUME DetailInv, [DetailNext]_detailVars PROVE DetailInv'
  OBVIOUS
<1> USE DetailAssumption
        DEF DetailInv, DetailTyped, InodesSound, DetailsAreWholeOrGone, AuditPlaces,
            Goes, Fills
<1>1. ASSUME NEW a \in Audits, ResolveOutput(a) PROVE DetailInv'
  BY <1>1 DEF ResolveOutput
<1>2. ASSUME NEW a \in Audits, ReserveOutput(a) PROVE DetailInv'
  BY <1>2 DEF ReserveOutput
<1>3. ASSUME NEW a \in Audits, IdentifyOutput(a) PROVE DetailInv'
  BY <1>3 DEF IdentifyOutput
<1>4. ASSUME NEW a \in Audits, QueryRows(a) PROVE DetailInv'
  BY <1>4 DEF QueryRows
<1>5. ASSUME NEW a \in Audits, WriteRows(a) PROVE DetailInv'
  BY <1>5 DEF WriteRows
<1>6. ASSUME NEW a \in Audits, SyncRows(a) PROVE DetailInv'
  BY <1>6 DEF SyncRows
<1>7. ASSUME NEW a \in Audits, CheckOutput(a) PROVE DetailInv'
  BY <1>7 DEF CheckOutput
<1>8. ASSUME NEW a \in Audits, CloseOutput(a) PROVE DetailInv'
  BY <1>8 DEF CloseOutput
<1>9. ASSUME NEW a \in Audits, LookToClean(a) PROVE DetailInv'
  BY <1>9 DEF LookToClean
<1>10. ASSUME NEW a \in Audits, UnlinkOutput(a) PROVE DetailInv'
  BY <1>10 DEF UnlinkOutput
<1>11. ASSUME NEW a \in Audits, AuditDies(a) PROVE DetailInv'
  BY <1>11 DEF AuditDies
<1>12. CASE PathChanges
  BY <1>12 DEF PathChanges
<1>13. CASE UNCHANGED detailVars
  BY <1>13 DEF detailVars
<1> QED
  BY <1>1, <1>2, <1>3, <1>4, <1>5, <1>6, <1>7, <1>8, <1>9, <1>10, <1>11, <1>12, <1>13
     DEF DetailNext, AuditSteps

(* Runs that report their details written wrote all of them, and a failed  *)
(* run leaves no part of them, whoever shares or changes the path.         *)
THEOREM DetailSafety == DetailSpec => []DetailsAreWholeOrGone
<1>1. DetailInv => DetailsAreWholeOrGone
  BY DEF DetailInv
<1> QED
  BY <1>1, DetailInitially, DetailStays, PTL DEF DetailSpec

-----------------------------------------------------------------------------
(* The seed, its list and its report.                                      *)

Kept == Texts \cup {Null}

ApplySteps ==
  [at : {"idle", "read", "verify", "snapshot", "wrangler", "remove", "ended", "dead"},
   expected : Kept, seed : Kept, snapshot : Kept, ran : Kept,
   outcome : {Null, "applied", "failed"}, verdict : {Null, "applied", "failed", "refused"}]

(* What holds of one run of the applier, in terms of its step.             *)
StepSound(a) ==
  /\ a.at \in {"idle", "read", "verify", "snapshot", "wrangler"} => a.ran = Null
  /\ a.at \in {"snapshot", "wrangler"} => a.seed = a.expected /\ a.seed \in published
  /\ a.at = "wrangler" => a.snapshot = a.seed
  /\ a.at = "remove" /\ a.outcome = "applied" => a.ran # Null
  /\ a.at \notin {"ended", "dead"} => a.verdict = Null
  /\ a.ran # Null => a.ran = a.expected /\ a.ran \in published
  /\ a.verdict = "refused" => a.ran = Null
  /\ a.verdict = "applied" => a.ran # Null /\ a.snapshot = Null

AppliersSound == \A p \in Appliers : applying[p] \in ApplySteps /\ StepSound(applying[p])

SeedTyped ==
  /\ import \in [at : {"idle", "writing", "replacing", "sql", "csv", "report"},
                 seed : Exports \cup {Null}]
  /\ files \in [sql : Kept, csv : Kept, report : {Null} \cup {ReportOn(e) : e \in Exports}]
  /\ applying = [p \in Appliers |-> applying[p]]

(* Between the removal of the old report and the new one there is none.    *)
ImportSound ==
  /\ import.at # "idle" => import.seed \in Exports /\ Parses(import.seed)
  /\ import.at \in {"sql", "csv", "report"} => files.report = Null
  /\ import.at \in {"csv", "report"} => files.sql \in {import.seed, Edited}
  /\ import.at = "report" => files.csv = import.seed

ReportSound ==
  /\ files.report # Null => files.report.seed \in published
  /\ ReportDescribesSeed

SeedInv == SeedTyped /\ ImportSound /\ ReportSound /\ AppliersSound

(* Distinct records of an accepted export have rows of their own.          *)
LEMMA RowsOfExport ==
  ASSUME NEW e \in Exports, Parses(e)
  PROVE  Cardinality(SeedRows(e)) = Len(e)
<1> DEFINE rows == [k \in 1 .. Len(e) |-> Identity(e, k)]
<1>1. Len(e) \in Nat /\ DOMAIN e = 1 .. Len(e)
  BY SeedAssumption
<1>2. rows \in [1 .. Len(e) -> SeedRows(e)]
  BY <1>1 DEF SeedRows
<1>3. \A j, k \in 1 .. Len(e) : rows[j] = rows[k] => j = k
  BY <1>1 DEF Parses
<1>4. \A r \in SeedRows(e) : \E k \in 1 .. Len(e) : rows[k] = r
  BY <1>1 DEF SeedRows
<1>5. rows \in Bijection(1 .. Len(e), SeedRows(e))
  BY <1>2, <1>3, <1>4 DEF Bijection, Injection, Surjection, IsInjective
<1>6. ExistsBijection(1 .. Len(e), SeedRows(e))
  BY <1>5, Zenon DEF ExistsBijection
<1> QED
  BY <1>1, <1>6, FS_CountingElements

LEMMA SeedInitially == SeedInit => SeedInv
  BY SeedAssumption DEF SeedInit, SeedInv, SeedTyped, ImportSound, ReportSound,
     ReportDescribesSeed, AppliersSound, ApplySteps, StepSound, Kept, Texts

(* A step of one applier settles the others.                               *)
LEMMA ApplierStep ==
  ASSUME SeedInv, NEW p \in Appliers, NEW step \in ApplySteps, StepSound(step),
         Applies(p, step)
  PROVE  SeedInv'
<1>1. UNCHANGED <<files, import, published>>
  BY DEF Applies
<1>2. applying' = [q \in Appliers |-> IF q = p THEN step ELSE applying[q]]
  BY DEF SeedInv, SeedTyped, Applies
<1>3. SeedTyped' /\ ImportSound' /\ ReportSound'
  BY <1>1, <1>2 DEF SeedInv, SeedTyped, ImportSound, ReportSound, ReportDescribesSeed
<1>4. AppliersSound'
  BY <1>1, <1>2 DEF SeedInv, AppliersSound, StepSound
<1> QED
  BY <1>3, <1>4 DEF SeedInv

(* A step of the importer leaves the appliers and what was published.      *)
LEMMA ImporterStep ==
  ASSUME SeedInv, UNCHANGED applying, published \subseteq published'
  PROVE  AppliersSound'
  BY DEF SeedInv, AppliersSound, StepSound

LEMMA RefusedFields ==
  ASSUME NEW a \in ApplySteps
  PROVE  /\ Refused(a) \in ApplySteps
         /\ Refused(a).at = "ended" /\ Refused(a).verdict = "refused"
         /\ Refused(a).ran = a.ran
  BY DEF Refused, ApplySteps

LEMMA SeedStays == SeedInv /\ [SeedNext]_seedVars => SeedInv'
<1> SUFFICES ASSUME SeedInv, [SeedNext]_seedVars PROVE SeedInv'
  OBVIOUS
<1>A. ASSUME NEW p \in Appliers
      PROVE  applying[p] \in ApplySteps /\ StepSound(applying[p])
  BY DEF SeedInv, AppliersSound
<1>1. ASSUME NEW e \in Exports, StartImport(e) PROVE SeedInv'
  BY <1>1, ImporterStep DEF StartImport, SeedInv, SeedTyped, ImportSound, ReportSound,
     ReportDescribesSeed
<1>2. CASE WriteTemporaries
  BY <1>2, ImporterStep DEF WriteTemporaries, SeedInv, SeedTyped, ImportSound, ReportSound,
     ReportDescribesSeed
<1>3. CASE DropReport
  BY <1>3, ImporterStep DEF DropReport, SeedInv, SeedTyped, ImportSound, ReportSound,
     ReportDescribesSeed
<1>4. CASE RenameSql
  BY <1>4, ImporterStep DEF RenameSql, SeedInv, SeedTyped, ImportSound, ReportSound,
     ReportDescribesSeed, Kept, Texts
<1>5. CASE RenameCsv
  BY <1>5, ImporterStep DEF RenameCsv, SeedInv, SeedTyped, ImportSound, ReportSound,
     ReportDescribesSeed, Kept, Texts
<1>6. CASE RenameReport
  <2>1. /\ import.seed \in Exports /\ Parses(import.seed)
        /\ files.sql \in {import.seed, Edited} /\ files.csv = import.seed
    BY <1>6 DEF RenameReport, SeedInv, ImportSound
  <2>2. ReportSound'
    BY <1>6, <2>1, RowsOfExport
       DEF RenameReport, SeedInv, SeedTyped, ReportSound, ReportDescribesSeed, ReportOn
  <2> QED
    BY <1>6, <2>1, <2>2, ImporterStep DEF RenameReport, SeedInv, SeedTyped, ImportSound
<1>7. CASE ImportEnds
  BY <1>7, ImporterStep DEF ImportEnds, SeedInv, SeedTyped, ImportSound, ReportSound,
     ReportDescribesSeed
<1>8. CASE EditSeed
  BY <1>8, ImporterStep DEF EditSeed, SeedInv, SeedTyped, ImportSound, ReportSound,
     ReportDescribesSeed, Kept, Texts
<1>9. ASSUME NEW p \in Appliers, NEW t \in Texts, StartApply(p, t) PROVE SeedInv'
  <2> DEFINE step == [applying[p] EXCEPT !.at = "read", !.expected = t]
  <2>1. step \in ApplySteps /\ StepSound(step)
    BY <1>A, <1>9 DEF StartApply, ApplySteps, StepSound, Kept
  <2> QED
    BY <1>9, <2>1, ApplierStep DEF StartApply
<1>10. ASSUME NEW p \in Appliers, ReadSeed(p) PROVE SeedInv'
  <2>1. CASE files.sql = Null
    <3>1. StepSound(Refused(applying[p]))
      BY <1>A, <1>10, SeedAssumption, RefusedFields DEF ReadSeed, StepSound
    <3> QED
      BY <1>A, <1>10, <2>1, <3>1, RefusedFields, ApplierStep DEF ReadSeed
  <2>2. CASE files.sql # Null
    <3> DEFINE step == [applying[p] EXCEPT !.at = "verify", !.seed = files.sql]
    <3>1. step \in ApplySteps /\ StepSound(step)
      BY <1>A, <1>10 DEF ReadSeed, ApplySteps, StepSound, SeedInv, SeedTyped
    <3> QED
      BY <1>10, <2>2, <3>1, ApplierStep DEF ReadSeed
  <2> QED
    BY <2>1, <2>2
<1>11. ASSUME NEW p \in Appliers, VerifySeed(p) PROVE SeedInv'
  <2>1. CASE SeedVerifies(applying[p])
    <3> DEFINE step == [applying[p] EXCEPT !.at = "snapshot"]
    <3>1. step \in ApplySteps /\ StepSound(step)
      BY <1>A, <1>11, <2>1
         DEF VerifySeed, SeedVerifies, ApplySteps, StepSound, SeedInv, ReportSound
    <3> QED
      BY <1>11, <2>1, <3>1, ApplierStep DEF VerifySeed
  <2>2. CASE ~SeedVerifies(applying[p])
    <3>1. StepSound(Refused(applying[p]))
      BY <1>A, <1>11, SeedAssumption, RefusedFields DEF VerifySeed, StepSound
    <3> QED
      BY <1>A, <1>11, <2>2, <3>1, RefusedFields, ApplierStep DEF VerifySeed
  <2> QED
    BY <2>1, <2>2
<1>12. ASSUME NEW p \in Appliers, TakeSnapshot(p) PROVE SeedInv'
  <2>1. ASSUME NEW left \in {Null, applying[p].seed},
               Applies(p, [Refused(applying[p]) EXCEPT !.snapshot = left])
        PROVE  SeedInv'
    <3> DEFINE step == [Refused(applying[p]) EXCEPT !.snapshot = left]
    <3>1. /\ step \in ApplySteps /\ step.at = "ended" /\ step.verdict = "refused"
          /\ step.ran = applying[p].ran
      BY <1>A, RefusedFields DEF ApplySteps, Kept
    <3>2. StepSound(step)
      BY <1>A, <1>12, <3>1 DEF TakeSnapshot, StepSound
    <3> QED
      BY <2>1, <3>1, <3>2, ApplierStep
  <2>2. CASE Applies(p, [applying[p] EXCEPT !.at = "wrangler", !.snapshot = applying[p].seed])
    <3> DEFINE step == [applying[p] EXCEPT !.at = "wrangler", !.snapshot = applying[p].seed]
    <3>1. step \in ApplySteps /\ StepSound(step)
      BY <1>A, <1>12 DEF TakeSnapshot, ApplySteps, StepSound
    <3> QED
      BY <2>2, <3>1, ApplierStep
  <2> QED
    BY <1>12, <2>1, <2>2 DEF TakeSnapshot
<1>13. ASSUME NEW p \in Appliers, RunWrangler(p) PROVE SeedInv'
  <2>1. PICK ran \in {Null, TextToRun(p)}, outcome \in {"applied", "failed"} :
          /\ outcome = "applied" => ran # Null
          /\ Applies(p, [applying[p] EXCEPT !.at = "remove", !.ran = ran,
                                           !.outcome = outcome])
    BY <1>13 DEF RunWrangler
  <2> DEFINE step == [applying[p] EXCEPT !.at = "remove", !.ran = ran, !.outcome = outcome]
  <2>2. step \in ApplySteps /\ StepSound(step)
    BY <1>A, <1>13, <2>1, SeedAssumption DEF RunWrangler, TextToRun, ApplySteps, StepSound, Kept
  <2> QED
    BY <2>1, <2>2, ApplierStep
<1>14. ASSUME NEW p \in Appliers, RemoveSnapshot(p) PROVE SeedInv'
  <2>1. CASE Applies(p, [applying[p] EXCEPT !.at = "ended", !.snapshot = Null,
                                           !.verdict = applying[p].outcome])
    <3> DEFINE step == [applying[p] EXCEPT !.at = "ended", !.snapshot = Null,
                                           !.verdict = applying[p].outcome]
    <3>1. step \in ApplySteps /\ StepSound(step)
      BY <1>A, <1>14, SeedAssumption DEF RemoveSnapshot, ApplySteps, StepSound, Kept
    <3> QED
      BY <2>1, <3>1, ApplierStep
  <2>2. CASE Applies(p, [applying[p] EXCEPT !.at = "ended", !.verdict = "failed"])
    <3> DEFINE step == [applying[p] EXCEPT !.at = "ended", !.verdict = "failed"]
    <3>1. step \in ApplySteps /\ StepSound(step)
      BY <1>A, <1>14, SeedAssumption DEF RemoveSnapshot, ApplySteps, StepSound
    <3> QED
      BY <2>2, <3>1, ApplierStep
  <2> QED
    BY <1>14, <2>1, <2>2 DEF RemoveSnapshot
<1>15. ASSUME NEW p \in Appliers, ApplierDies(p) PROVE SeedInv'
  <2> DEFINE step == [applying[p] EXCEPT !.at = "dead"]
  <2>1. step \in ApplySteps /\ StepSound(step)
    BY <1>A, <1>15 DEF ApplierDies, ApplySteps, StepSound
  <2> QED
    BY <1>15, <2>1, ApplierStep DEF ApplierDies
<1>16. CASE UNCHANGED seedVars
  BY <1>16 DEF seedVars, SeedInv, SeedTyped, ImportSound, ReportSound, ReportDescribesSeed,
     AppliersSound, StepSound
<1> QED
  BY <1>1, <1>2, <1>3, <1>4, <1>5, <1>6, <1>7, <1>8, <1>9, <1>10, <1>11, <1>12, <1>13,
     <1>14, <1>15, <1>16 DEF SeedNext

LEMMA SeedInvariance == SeedSpec => []SeedInv
  BY SeedInitially, SeedStays, PTL DEF SeedSpec

(* A report that is there describes the list beside it, the seed unless    *)
(* that was edited, and counts a row for every record of the export.       *)
THEOREM SeedReportSafety == SeedSpec => []ReportDescribesSeed
<1>1. SeedInv => ReportDescribesSeed
  BY DEF SeedInv, ReportSound
<1> QED
  BY <1>1, SeedInvariance, PTL

(* Wrangler runs only the text that was reviewed and that a completed      *)
(* import wrote, whatever happens to the seed between the steps.           *)
THEOREM ApplierSafety == SeedSpec => []OnlyReviewedSeedsApplied
<1>1. SeedInv => OnlyReviewedSeedsApplied
  BY DEF SeedInv, AppliersSound, StepSound, OnlyReviewedSeedsApplied
<1> QED
  BY <1>1, SeedInvariance, PTL
=============================================================================
