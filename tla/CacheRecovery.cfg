CONSTANTS
  Values = {v1}
  NoValue = NoValue
  Callers = {c1}
  MaxGenerations = 2
  MaxWrites = 1
  MaxOutages = 1
  MaxFailures = 0
  MaxLifecycle = 1
  MaxInFlight = 2
SPECIFICATION Spec
CHECK_DEADLOCK FALSE
INVARIANTS
  Converged
  ActiveServes
