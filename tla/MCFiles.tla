------------------------------- MODULE MCFiles -------------------------------
(***************************************************************************)
(* The files of the operator's tools, for TLC: either the seed between its *)
(* export and the database, or the file of the audit's details.            *)
(***************************************************************************)
EXTENDS SeedFiles, DetailFile, TLC

CONSTANTS a1, a2, b1, b2, apples, pears, fruit, other

VARIABLE mix

Record(name, category) == [name |-> name, category |-> category]

(* One item; the same name in two categories and beside another; the same  *)
(* name three times in one category, which is refused.                     *)
ExportSet ==
  {<<Record(apples, fruit)>>,
   <<Record(apples, fruit), Record(apples, other), Record(pears, other)>>,
   <<Record(apples, fruit), Record(apples, fruit), Record(apples, fruit)>>}

FileSymmetry == Permutations({a1, a2}) \cup Permutations({b1, b2})

FilesInit == SeedInit /\ DetailInit /\ mix \in {"seed", "details"}

FilesNext ==
  /\ \/ mix = "seed" /\ SeedNext /\ UNCHANGED detailVars
     \/ mix = "details" /\ DetailNext /\ UNCHANGED seedVars
  /\ UNCHANGED mix

FilesSpec == FilesInit /\ [][FilesNext]_<<seedVars, detailVars, mix>>
=============================================================================
