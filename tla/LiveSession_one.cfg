SPECIFICATION Spec
CONSTANTS
  Agents = {a1, a2}
  MaxEvents = 3
INVARIANTS OneLeaseholder 
PROPERTIES DecisionFences DecisionAnswered GoAnswered
CHECK_DEADLOCK FALSE
