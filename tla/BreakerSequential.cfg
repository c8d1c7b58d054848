SPECIFICATION HSpec
CONSTANTS
    Threads = {t1}
    FailureThreshold = 2
    SuccessThreshold = 2
    ResetTimeout = 2
    MaxBacks = 1
    InstantCalls = TRUE
PROPERTY ImplementsDocumented
