\* Files of earlier code meet the repairs and the replacement of a logo.
SPECIFICATION Spec
CONSTANTS
  File = {f0, f1}
  Legacy = {f0}
  SizeOf <- TwoBytes
  Product = {}
  Logo = {g}
  Quota = 3
  Enforce = TRUE
  NoFile = NoFile
  Gone = Gone
  Absent = Absent
  Task = {r1, r2}
  MaxCrashes = 0
  Kinds = {"replace", "clear", "inventory", "initialize", "orphans", "recompute"}
PROPERTIES CounterFollows Serializable EntriesFollowReferences
