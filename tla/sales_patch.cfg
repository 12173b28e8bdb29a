\* A modification whose target section is gone, alone.
SPECIFICATION Spec
CONSTANTS
  Product = {p1}
  SaleId = {s1}
  Key = {k1}
  Seller = {u1}
  Qty = {1, 2}
  Price = {10}
  Cost = {3}
  MaxUpdates = 0
  NoKey = NoKey
  Absent = Absent
  InitialQty = 2
  MaxRestock = 1
  Request = {r1}
  Kinds = {"create", "patch"}
SYMMETRY Symmetry
INVARIANTS AuditedRestockApplied
