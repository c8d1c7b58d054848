SPECIFICATION FairSpec
CONSTANTS
    Threads = {t1, t2}
    FailureThreshold = 2
    SuccessThreshold = 2
    ResetTimeout = 2
    MaxBacks = 2
    InstantCalls = FALSE
INVARIANTS TypeOK CountersAgreeAtRest
PROPERTY OpenIsLeft
