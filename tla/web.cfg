\* Every page of the front end with two handlers at a time, and another client of the server.
CONSTANTS
  i1 = i1  i2 = i2
  Null = Null
  Tasks = {1, 2, 3}
  Items = {i1, i2}
  MaxOrders = 3
  MaxStock = 1
  Titles = {1, 2}
  MaxOthers = 1
SPECIFICATION WebSpec
INVARIANTS
  SavedBeforeLeaving
  PrefillDraftsOnce
  QuickOrderReportsTruth
  FlagsMatchSubmissions
PROPERTIES
  
  BusyEnds
CHECK_DEADLOCK FALSE
