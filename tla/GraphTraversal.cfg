SPECIFICATION Spec
CONSTANTS
    WordBits = 3
    NeonLanes = 2
    Avx2Lanes = 4
    MaxId = 3
    Alpha = 2
    Beta = 4
    U32Max = 12
    Null = null
    Name = name
    Other = other
    key0 = key0
    key1 = key1
    NoTranspose = notranspose
    NoDictionary = nodictionary
    NoCap = nocap
    Inputs <- SomeInputs
INVARIANTS LevelsAreDistances EstimateIsExact CallIsAnswered
CHECK_DEADLOCK FALSE
