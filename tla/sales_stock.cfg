\* A stock that sales, corrections and restocks move across 80 % and to the
\* end, a purge beside them, and requests that always end.
SPECIFICATION FairSpec
CONSTANTS
  Product = {p1}
  SaleId = {s1}
  Key = {}
  Seller = {u1}
  Qty = {8, 10}
  Price = {10}
  Cost = {2}
  MaxUpdates = 1
  NoKey = NoKey
  Absent = Absent
  InitialQty = 10
  MaxRestock = 1
  Request = {r1, r2}
  Kinds = {"create", "update", "patch", "purge", "trash", "fail"}
PROPERTIES AlertsMatchCrossings PurgeKeepsCost EveryRequestEnds
