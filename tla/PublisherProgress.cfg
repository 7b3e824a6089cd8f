SPECIFICATION FairSpec
CONSTANTS
    c1 = c1 c2 = c2
    NoThread = NoThread
    Callers = {c1, c2}
    Callbacks = {}
    Targets = {"Cache", "Buffer"}
    MaxSequence = 1
    MaxFences = 1
PROPERTIES
    PublisherCallsReturn
CHECK_DEADLOCK FALSE
