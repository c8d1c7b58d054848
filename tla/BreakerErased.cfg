SPECIFICATION HSpec
CONSTANTS
    Threads = {t1, t2}
    FailureThreshold = 2
    SuccessThreshold = 2
    ResetTimeout = 1
    MaxBacks = 0
    InstantCalls = FALSE
PROPERTY SuccessesAreNotErased
