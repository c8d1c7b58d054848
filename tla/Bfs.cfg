SPECIFICATION Spec
CONSTANTS
    WordBits = 2
    NeonLanes = 2
    Avx2Lanes = 4
    NodeCount = 3
    DeltaNodes = {3}
    Bases <- SomeBases
    StartLists <- Starts
    Depths = {0, 2}
    Caps = {2, 9}
    Mutable <- SomePairs
    MaxWrites = 2
    Searchers = {"avx2"}
INVARIANTS ResultIsConsistent DepthsAreJustified StableReachIsReported BackendsAgree
CHECK_DEADLOCK FALSE
