\* Two request threads overlap on one action: every order of their reads, writes
\* and publications, with up to two faults of any kind.  Requests may stop coming,
\* so a state without successor is no error.
SPECIFICATION Spec
CONSTANTS
  Incidents = {i1}
  Actions = {a1}
  Threads = {w1, w2}
  MaxAttempts = 1
  Ops = {"toggle", "trigger", "approve", "reject", "rollback", "execute"}
  DryRun = FALSE
  Faults = {"send_lost", "rollback", "fetch_error", "operator_crash", "result_lost", "result_dropped", "listener_crash"}
  MaxFaults = 2
  MaxSends = 1
SYMMETRY Symmetry
INVARIANT HighRiskNeedsHuman
INVARIANT ResolvedWasHealed
 
PROPERTY IncidentFollowsAction
PROPERTY ContractSpec
CHECK_DEADLOCK FALSE
