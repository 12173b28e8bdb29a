\* A reminder, a device that comes and goes, two processes, fair scheduling.
SPECIFICATION Spec
CONSTANTS
  j1 = j1
  j2 = j2
  g1 = g1
  Job = {j1}
  Group = {}
  Device = {d1}
  User = {u1}
  Worker = {w1, w2}
  GroupOf <- Mixed
  Audience <- ForAll
  Reminder = {j1}
  MaxAttempts = 2
  MaxFaults = 1
  Events = {"register", "session", "lapse", "unregister", "member"}
  Removed = Removed
  Absent = Absent
CHECK_DEADLOCK FALSE
PROPERTY EverythingSettles
