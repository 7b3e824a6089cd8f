CONSTANTS
  Values = {v1}
  NoValue = NoValue
  Callers = {c1}
  MaxGenerations = 1
  MaxWrites = 1
  MaxOutages = 0
  MaxFailures = 1
  MaxLifecycle = 3
  MaxInFlight = 2
SPECIFICATION FairSpec
CHECK_DEADLOCK FALSE
INVARIANTS
  DetachQuiesces
PROPERTIES
  
  LifecycleReturns
