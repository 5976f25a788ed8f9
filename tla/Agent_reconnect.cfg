\* An agent is started while the collector is away, which comes back for good later.
SPECIFICATION FairSpec
CONSTANTS
  MaxBatches = 6
  EntrySize <- SizeOf
  Capacity = 8
  MaxTries = 2
  Faults = {}
  MaxFaults = 0
CHECK_DEADLOCK FALSE
PROPERTY DrainedOnReconnection
