SPECIFICATION Spec
CONSTANTS
    Writers = {w1}
    Compactors = {c1}
    Edges = {e1}
    Oversized = {}
    Writes <- OneWriter
    MaxDeltaEntries = 1
    RatioPercent = 1
    MaxGraphs = 3
    MaxRegistrations = 0
    MaxMutations = 3
    w1 = w1
    e1 = e1
    big = big
INVARIANT WritesDuringCompactionSurvive
