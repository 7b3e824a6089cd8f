SPECIFICATION Spec
CONSTANTS
    c1 = c1 k1 = k1
    NoThread = NoThread
    Callers = {c1}
    Callbacks = {k1}
    Targets = {"Cache"}
    MaxSequence = 1
    MaxFences = 2
PROPERTIES
    RefusedOnlyWhilePending
CHECK_DEADLOCK FALSE
