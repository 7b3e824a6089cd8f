SPECIFICATION FairSpec
CONSTANTS
    t1 = t1
    t2 = t2
    t3 = t3
    p1 = p1
    Threads = {t1, t2, t3}
    Publishers = {p1}
    MaxSequence = 2
    LaterFailureMax = 0
    MaxGeneration = 1
    DispatchCapacity = 2
    LaneCapacity = 1
    ApplyFailure = {"Error"}
    MaxDeliveries = 3
INVARIANTS
    FenceOkIsProof
    StoreOnceInOrder
    NoUseAfterRelease
PROPERTIES
    
    
    CallbacksAndEndingsFinish
