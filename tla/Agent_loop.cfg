\* Six batches fill a buffer of eight, with up to three faults of any kind.  Nobody
\* has to start an agent, so the state in which it is off may be the last.
SPECIFICATION FairSpec
CONSTANTS
  MaxBatches = 6
  EntrySize <- SizeOf
  Capacity = 8
  MaxTries = 2
  Faults = {"down", "break", "late", "produce", "stop", "kill"}
  MaxFaults = 3
INVARIANT TypeOK
INVARIANT Accounted
PROPERTY BacklogInOrder
PROPERTY Drained
CHECK_DEADLOCK FALSE
