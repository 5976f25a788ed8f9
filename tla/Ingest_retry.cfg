SPECIFICATION Spec
CONSTANTS
  b1 = b1
  b2 = b2
  Batches = {b1, b2}
  HeaderSets <- OneIdentified
  Points = 1
  Handlers = {h1, h2}
  Workers = {w1}
  QueueSize = 1
  MaxRequests = 2
  Faults = {}
  MaxFaults = 0
INVARIANT AnsweredIsEnqueued
CHECK_DEADLOCK FALSE
