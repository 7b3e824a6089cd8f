SPECIFICATION Spec
CONSTANTS
    c1 = c1 c2 = c2 k1 = k1
    NoThread = NoThread
    Callers = {c1, c2}
    Callbacks = {k1}
    Targets = {"Cache", "Buffer"}
    MaxSequence = 1
    MaxFences = 2
SYMMETRY PublisherSymmetry
INVARIANTS
    
    CloseQuiesces
PROPERTIES
    VerdictsAreTrue
CHECK_DEADLOCK FALSE
