\* Sales, corrections, cancellations and purges of one product, by two sellers
\* who resend one key or misuse it.
SPECIFICATION Spec
CONSTANTS
  Product = {p1}
  SaleId = {s1, s2}
  Key = {k1}
  Seller = {u1, u2}
  Qty = {1, 2}
  Price = {10}
  Cost = {3}
  MaxUpdates = 1
  NoKey = NoKey
  Absent = Absent
  InitialQty = 2
  MaxRestock = 0
  Request = {r1, r2}
  Kinds = {"create", "update", "cancel", "purge", "fail"}
SYMMETRY Symmetry
INVARIANTS TypeOK NeverOversold SaleHistoryPreserved AuditMatchesSales OneSalePerKey
PROPERTIES StockFollowsSales Serializable
