SPECIFICATION Spec
CONSTANTS
    Writers = {w1}
    Compactors = {c1, c2}
    Edges = {e1, big}
    Oversized = {big}
    Writes <- OneWriter
    MaxDeltaEntries = 1
    RatioPercent = 1
    MaxGraphs = 3
    MaxRegistrations = 1
    MaxMutations = 3
    w1 = w1
    e1 = e1
    big = big
INVARIANTS TypeOK UnexcusedWritesSurvive LookupsAgree
SYMMETRY CompactorSymmetry
CHECK_DEADLOCK FALSE
