\* Concurrent uploads under a quota of two files, with crashes, failed
\* deletions, commits that seem to fail and the recovery.
SPECIFICATION Spec
CONSTANTS
  File = {f1, f2}
  Legacy = {}
  SizeOf <- OneByte
  Product = {o1}
  Logo = {}
  Quota = 2
  Enforce = TRUE
  NoFile = NoFile
  Gone = Gone
  Absent = Absent
  Task = {r1, r2}
  MaxCrashes = 1
  Kinds = {"create", "replace", "recover", "fail"}
SYMMETRY Symmetry
INVARIANTS TypeOK ReferencedFileKept
PROPERTIES QuotaHeld CounterFollows Serializable
