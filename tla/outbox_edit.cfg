\* One tab and one sale: what a correction may follow.
SPECIFICATION Spec
CONSTANTS
  MaxOps = 1
  Tab = {t1}
  MaxServer = 2
  Limit = 2
  MaxFaults = 1
  Absent = Absent
INVARIANTS CorrectionNeverDoubles
CHECK_DEADLOCK FALSE
