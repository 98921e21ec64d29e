SPECIFICATION Spec
CONSTANTS
  c1 = c1  c2 = c2  c3 = c3  o1 = o1  o2 = o2  i1 = i1  i2 = i2  k1 = k1  k2 = k2
  None = None
  Clients = {c1, c2}
  Orders = {o1}
  Items = {i1, i2}
  Categories = {}
  SeedItems = {i1, i2}
  SeedCategories = {}
  Quantities = {1, 2}
  MaxOrdered = 2
  MaxStock = 2
  Workload = {"createDraft", "createWithItems", "addItems", "editItem", "receive", "revise", "deleteDraft", "getDetail", "deleteItem"}
SYMMETRY Symmetry
INVARIANTS
  StatusMatchesRows
  ReceiptsAreWithinOrders
  RowsFollowTheirOrder
  NoOrderIsStuck
  DetailIsCoherent
  AuditFindsSoundOrders
PROPERTIES
  OrderRequestsNeverFail
  AcknowledgedAddsAccumulate
  ImplementsLifecycle
