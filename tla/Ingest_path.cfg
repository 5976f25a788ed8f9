SPECIFICATION FairSpec
CONSTANTS
  b1 = b1
  b2 = b2
  Batches = {b1, b2}
  HeaderSets <- OneIdentified
  Points = 2
  Handlers = {h1, h2}
  Workers = {w1}
  QueueSize = 1
  MaxRequests = 2
  Faults = {"redis", "expiry", "produce", "fetch", "insert", "crash"}
  MaxFaults = 1
INVARIANT TypeOK
INVARIANT EnqueuedOnce
INVARIANT CommittedIsDealtWith
PROPERTY Delivered
CHECK_DEADLOCK FALSE
