SPECIFICATION FairSpec
CONSTANTS
    Threads = {t1, t2}
    NoThread = none
    Items = {a}
    MaxGeneration = 1
    MaxCrashes = 0
    MaxFailures = 1
    MaxAccesses = 0
PROPERTIES
    ReadinessStaysFalse
