SPECIFICATION FairSpec
CONSTANTS
    Threads = {t1, t2}
    NoThread = none
    Items = {a}
    MaxGeneration = 2
    MaxCrashes = 2
    MaxFailures = 1
    MaxAccesses = 1
INVARIANTS
    CatalogMatchesDisk
    
    NoAccessAfterRelease
    TokenNamesActiveSession
PROPERTIES
    DurableLifecycle
    LatchStopsDurableChange
    CallsReturn
    DeletionResolves
