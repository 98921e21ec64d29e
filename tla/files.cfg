\* Two appliers beside imports and edits of the seed; two audits given one output path.
CONSTANTS
  a1 = a1  a2 = a2  b1 = b1  b2 = b2
  apples = apples  pears = pears  fruit = fruit  other = other
  Exports <- ExportSet
  Edited = Edited
  Appliers = {a1, a2}
  Audits = {b1, b2}
  Foreign = Foreign
  NoFile = NoFile
  Null = Null
SYMMETRY FileSymmetry
SPECIFICATION FilesSpec
INVARIANTS
  ReportDescribesSeed
  OnlyReviewedSeedsApplied
  DetailsAreWholeOrGone
