\* Under the fairness of the pollers, with up to two crashes of the operator or of
\* a listener: three possible actions, of which the limit allows two.
SPECIFICATION FairSpec
CONSTANTS
  Incidents = {i1}
  Actions = {a1, a2, a3}
  Threads = {w1}
  MaxAttempts = 2
  Ops = {"trigger", "execute"}
  DryRun = FALSE
  Faults = {"operator_crash", "listener_crash"}
  MaxFaults = 2
  MaxSends = 1
 
PROPERTY PublishedIsConcluded
CHECK_DEADLOCK FALSE
