------------------------------ MODULE SeedFiles ------------------------------
(***************************************************************************)
(* The catalogue seed between the export and the database.  The importer   *)
(* (scripts/import-notion-export.mjs over notion-import-core.mjs) turns an *)
(* export into three files, replaced one after the other; the applier      *)
(* (scripts/apply-notion-seed.mjs) reads two of them while imports and     *)
(* hand edits go on, and has Wrangler run the SQL it verified.  Any call   *)
(* on the file system may fail and any process may die between two calls.  *)
(* A text stands for its SHA-256: the export it was generated from, or     *)
(* Edited.  Temporaries carry a token of their import, so no other process *)
(* sees them; the imports of one directory run one at a time.              *)
(***************************************************************************)
EXTENDS Integers, Sequences, FiniteSets

CONSTANTS
  Exports,    \* contents of the export folder: sequences of [name, category] in file order
  Edited,     \* the text of a seed changed by hand
  Appliers,   \* runs of the applier
  Null

ASSUME SeedAssumption ==
  /\ Null \notin Exports \cup {Edited} \cup {"applied", "failed", "refused"}
  /\ Edited \notin Exports
  /\ \A e \in Exports : Len(e) \in Nat /\ DOMAIN e = 1 .. Len(e)

VARIABLES
  files,      \* the targets: sql and csv (texts or Null), report ([seed, totalItems] or Null)
  import,     \* the running import: [at, seed]
  published,  \* history: the exports whose import completed
  applying    \* [p \in Appliers |-> [at, expected, seed, snapshot, outcome, ran, verdict]]

seedVars == <<files, import, published, applying>>

Texts == Exports \cup {Edited}

-----------------------------------------------------------------------------
(* The name a record gets is kept; its spec tells a repeated name apart.   *)
SpecOf(e, k) ==
  IF \E j \in 1 .. (k - 1) : e[j].name = e[k].name
  THEN <<"variant", e[k].category>> ELSE <<"plain">>

Identity(e, k) == <<e[k].name, SpecOf(e, k)>>

(* parseNotionRecords refuses an empty export and a repeated identity.     *)
Parses(e) ==
  /\ e # <<>>
  /\ \A j, k \in DOMAIN e : Identity(e, j) = Identity(e, k) => j = k

(* The rows that the INSERT OR IGNORE statements of a seed can leave.      *)
SeedRows(e) == {Identity(e, k) : k \in DOMAIN e}

ReportOn(e) == [seed |-> e, totalItems |-> Len(e)]

-----------------------------------------------------------------------------
StartImport(e) ==
  /\ import.at = "idle" /\ Parses(e)
  /\ import' = [at |-> "writing", seed |-> e]
  /\ UNCHANGED <<files, published, applying>>

WriteTemporaries ==
  /\ import.at = "writing"
  /\ import' = [import EXCEPT !.at = "replacing"]
  /\ UNCHANGED <<files, published, applying>>

(* Mutant: the old report stays until the new one replaces it.             *)
DropReportNot ==
  /\ import.at = "replacing"
  /\ import' = [import EXCEPT !.at = "sql"]
  /\ UNCHANGED <<files, published, applying>>

(* The old report goes before the seed and the list it describes.          *)
DropReport ==
  /\ import.at = "replacing"
  /\ import' = [import EXCEPT !.at = "sql"]
  /\ files' = [files EXCEPT !.report = Null]
  /\ UNCHANGED <<published, applying>>

RenameSql ==
  /\ import.at = "sql"
  /\ import' = [import EXCEPT !.at = "csv"]
  /\ files' = [files EXCEPT !.sql = import.seed]
  /\ UNCHANGED <<published, applying>>

RenameCsv ==
  /\ import.at = "csv"
  /\ import' = [import EXCEPT !.at = "report"]
  /\ files' = [files EXCEPT !.csv = import.seed]
  /\ UNCHANGED <<published, applying>>

RenameReport ==
  /\ import.at = "report"
  /\ import' = [at |-> "idle", seed |-> Null]
  /\ files' = [files EXCEPT !.report = ReportOn(import.seed)]
  /\ published' = published \cup {import.seed}
  /\ UNCHANGED applying

(* A call fails, and the temporaries are removed, or the process dies.     *)
ImportEnds ==
  /\ import.at # "idle"
  /\ import' = [at |-> "idle", seed |-> Null]
  /\ UNCHANGED <<files, published, applying>>

EditSeed ==
  /\ files.sql # Null
  /\ files' = [files EXCEPT !.sql = Edited]
  /\ UNCHANGED <<import, published, applying>>

-----------------------------------------------------------------------------
Applies(p, step) ==
  /\ applying' = [applying EXCEPT ![p] = step]
  /\ UNCHANGED <<files, import, published>>

Refused(step) == [step EXCEPT !.at = "ended", !.verdict = "refused"]

StartApply(p, t) ==
  /\ applying[p].at = "idle"
  /\ Applies(p, [applying[p] EXCEPT !.at = "read", !.expected = t])

ReadSeed(p) ==
  /\ applying[p].at = "read"
  /\ Applies(p, IF files.sql = Null THEN Refused(applying[p])
                ELSE [applying[p] EXCEPT !.at = "verify", !.seed = files.sql])

(* The report, the bytes already read and the reviewed hash must agree.    *)
SeedVerifies(step) ==
  /\ files.report # Null
  /\ files.report.seed = step.seed
  /\ step.expected = step.seed

VerifySeed(p) ==
  /\ applying[p].at = "verify"
  /\ Applies(p, IF SeedVerifies(applying[p])
                THEN [applying[p] EXCEPT !.at = "snapshot"]
                ELSE Refused(applying[p]))

(* A failed snapshot is removed when that works.                           *)
TakeSnapshot(p) ==
  /\ applying[p].at = "snapshot"
  /\ \/ Applies(p, [applying[p] EXCEPT !.at = "wrangler", !.snapshot = applying[p].seed])
     \/ \E left \in {Null, applying[p].seed} :
          Applies(p, [Refused(applying[p]) EXCEPT !.snapshot = left])

(* Wrangler runs the private copy; it may fail before or after applying it. *)
(* Mutant: Wrangler is given the path of the seed itself.                  *)
TextToRunShared(p) == files.sql

TextToRun(p) == applying[p].snapshot

RunWrangler(p) ==
  /\ applying[p].at = "wrangler"
  /\ \E ran \in {Null, TextToRun(p)} : \E outcome \in {"applied", "failed"} :
       /\ outcome = "applied" => ran # Null
       /\ Applies(p, [applying[p] EXCEPT !.at = "remove", !.ran = ran, !.outcome = outcome])

(* The finally clause: a copy that stays fails the run.                    *)
RemoveSnapshot(p) ==
  /\ applying[p].at = "remove"
  /\ \/ Applies(p, [applying[p] EXCEPT !.at = "ended", !.snapshot = Null,
                                       !.verdict = applying[p].outcome])
     \/ Applies(p, [applying[p] EXCEPT !.at = "ended", !.verdict = "failed"])

ApplierDies(p) ==
  /\ applying[p].at \notin {"idle", "ended", "dead"}
  /\ Applies(p, [applying[p] EXCEPT !.at = "dead"])

-----------------------------------------------------------------------------
SeedInit ==
  /\ files = [sql |-> Null, csv |-> Null, report |-> Null]
  /\ import = [at |-> "idle", seed |-> Null]
  /\ published = {}
  /\ applying = [p \in Appliers |->
       [at |-> "idle", expected |-> Null, seed |-> Null, snapshot |-> Null,
        outcome |-> Null, ran |-> Null, verdict |-> Null]]

SeedNext ==
  \/ \E e \in Exports : StartImport(e)
  \/ WriteTemporaries \/ DropReport \/ RenameSql \/ RenameCsv \/ RenameReport
  \/ ImportEnds
  \/ EditSeed
  \/ \E p \in Appliers :
       \/ \E t \in Texts : StartApply(p, t)
       \/ ReadSeed(p) \/ VerifySeed(p) \/ TakeSnapshot(p)
       \/ RunWrangler(p) \/ RemoveSnapshot(p) \/ ApplierDies(p)

SeedSpec == SeedInit /\ [][SeedNext]_seedVars

-----------------------------------------------------------------------------
(* The report is the commit marker of the three files: while one is there, *)
(* the list is the one it describes, the seed is too unless it was edited  *)
(* by hand since, and every record of the export has a row of its own.     *)
ReportDescribesSeed ==
  files.report # Null =>
    /\ files.sql \in {files.report.seed, Edited}
    /\ files.csv = files.report.seed
    /\ files.report.totalItems = Cardinality(SeedRows(files.report.seed))

(* Whatever imports and edits do between the applier's steps, Wrangler     *)
(* runs the text that the operator reviewed, and an import that completed  *)
(* wrote it; a refused run has applied nothing, and one reported as        *)
(* applied has, and leaves no copy of the seed.                            *)
OnlyReviewedSeedsApplied ==
  \A p \in Appliers : LET a == applying[p] IN
    /\ a.ran # Null => a.ran = a.expected /\ a.ran \in published
    /\ a.verdict = "refused" => a.ran = Null
    /\ a.verdict = "applied" => a.ran # Null /\ a.snapshot = Null
=============================================================================
