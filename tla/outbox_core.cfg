\* Two tabs send the sales of one user, with or without Web Locks.
SPECIFICATION Spec
CONSTANTS
  MaxOps = 2
  Tab = {t1, t2}
  MaxServer = 2
  Limit = 2
  MaxFaults = 1
  Absent = Absent
CONSTRAINTS OverlapOnOne OneUncounted
SYMMETRY Symmetry
INVARIANTS TypeOK SyncedIsRecorded CorrectionsAreSafe
PROPERTIES FinalStays SalesInOrder
CHECK_DEADLOCK FALSE
