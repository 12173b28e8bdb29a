\* Two events of one window, a device that changes hands, two processes.
SPECIFICATION Spec
CONSTANTS
  j1 = j1
  j2 = j2
  g1 = g1
  Job = {j1, j2}
  Group = {g1}
  Device = {d1}
  User = {u1, u2}
  Worker = {w1, w2}
  GroupOf <- OneWindow
  Audience <- ForAll
  Reminder = {}
  MaxAttempts = 2
  MaxFaults = 1
  Events = {"register", "age"}
  Removed = Removed
  Absent = Absent
SYMMETRY Symmetry
CHECK_DEADLOCK FALSE
INVARIANTS TypeOK ShownOnce NobodyForgotten
PROPERTIES OutcomeStays NothingAfterRevocation
