SPECIFICATION GraphSpec
CONSTANTS
    U32Max = 3
    NoWeight = none
    Ids = {0, 1, 3, 4}
    Weights = {light, heavy}
    Sizes = {1, 12, 20, 32}
    DefaultSize = 100
    MaxEdges = 4
    MaxWeighted = 3
    DefaultWeight = one
    OpIds = {0, 3}
    OpSize = 12
    OpEdges = 2
    MaxOps = 3
INVARIANTS AdjacencyAsAdded LookupsInvert ShardsFit RefusedOrComplete
PROPERTIES CompactKeepsTopology CompactKeepsWeights TransposeReverses EndpointsAreKnown
CHECK_DEADLOCK FALSE
