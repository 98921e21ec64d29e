SPECIFICATION Spec
CONSTANTS
  c1 = c1  c2 = c2  c3 = c3  o1 = o1  o2 = o2  i1 = i1  i2 = i2  k1 = k1  k2 = k2
  None = None
  Clients = {c1, c2}
  Orders = {o1}
  Items = {i1}
  Categories = {k1, k2}
  SeedItems = {}
  SeedCategories = {k1}
  Quantities = {1}
  MaxOrdered = 1
  MaxStock = 1
  Workload = {"createWithItems", "receive", "revise", "createCategory", "deleteCategory", "createItem", "moveItem", "deleteItem", "adjustStock"}
SYMMETRY ClientSymmetry
INVARIANTS
  ActiveItemsHaveActiveCategories
PROPERTIES
  StockRequestsNeverFail
