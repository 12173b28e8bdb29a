\* Whatever is not used leaves the bucket in the end.
SPECIFICATION FairSpec
CONSTANTS
  File = {f1}
  Legacy = {}
  SizeOf <- OneByte
  Product = {o1}
  Logo = {}
  Quota = 1
  Enforce = TRUE
  NoFile = NoFile
  Gone = Gone
  Absent = Absent
  Task = {r1, r2}
  MaxCrashes = 1
  Kinds = {"create", "purge", "recover", "inventory", "fail"}
PROPERTIES NothingLeaks
