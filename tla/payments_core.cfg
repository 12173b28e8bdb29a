\* Two payments, concurrent confirmations, faults of the provider, an operator.
SPECIFICATION Spec
CONSTANTS
  Payment = {p1, p2}
  Ref = {c1}
  Key = {k1, k2}
  User = {u1}
  Length = {2}
  TrialLength = 1
  Manual = {m1}
  Operation = {o1}
  Null = Null
  Trial = Trial
  Absent = Absent
  Task = {r1, r2}
  Kinds = {"create", "crash", "confirm", "reconcile", "grant", "lost", "mismatch", "reversal", "reused"}
  MerchantLookup = FALSE
  MaxNow = 1
SYMMETRY Symmetry
INVARIANTS TypeOK PaidForPeriods AccessCoversPeriods
PROPERTIES KeepsLedger ReviewWaits PeriodsApart NoNoticeLost
