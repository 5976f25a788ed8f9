SPECIFICATION FairSpec
CONSTANTS
  Anomalies = {a1}
  Consumers = {c1, c2}
  Sessions = {s1, s2}
  MaxCommands = 2
  Faults = {"redis", "expiry", "redeliver", "database", "crash"}
  MaxFaults = 2
INVARIANT OneIncident
INVARIANT ResolvedHasTime
INVARIANT TransitionsAreLegal
INVARIANT TimelineExplains
 
PROPERTY Processed
CHECK_DEADLOCK FALSE
