\* Restarts between operations.  Entries of two and three bytes fill twelve exactly, at every offset.
SPECIFICATION Spec
CONSTANTS
  short = short
  long = long
  Batches = {short, long}
  Size <- SizeOf
  Capacity = 12
  LenSize = 1
  CrashPoints = {"idle", "push_len"}
  MaxCrashes = 1
INVARIANT TypeOK
INVARIANT AvailableIsFree
INVARIANT EntriesIntact
PROPERTY QueueSpec
