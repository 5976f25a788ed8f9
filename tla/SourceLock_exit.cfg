SPECIFICATION Spec
CONSTANTS
  Procs = {p1, p2, p3}
  Stallers = {}
SYMMETRY Symmetry
INVARIANT MutualExclusion
CHECK_DEADLOCK FALSE
