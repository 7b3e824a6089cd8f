SPECIFICATION FairSpec
CONSTANTS
    a = a
    b = b
    t1 = t1
    t2 = t2
    None = None
    Ops = {a, b}
    Workloads <- SmallWorkloads
    Threads = {t1, t2}
    Capacity = 1
    MaxDuplicates = 1
    MaxRestarts = 1
INVARIANTS
    ResultsAreTrue
    AnswersAreTrue
    AppliedOnce
    BatchesAreContiguous
PROPERTIES
    WritesEnd
CHECK_DEADLOCK FALSE
