SPECIFICATION FairSpec
CONSTANTS
    U32Max = 3
    NoWeight = none
    DefaultWeight = one
    heavy = heavy
    Null = null
    NoLimit = unlimited
    Streams = {s1, s2}
    Batches <- SomeBatches
    Configs <- SomePlans
    Size = 12
    MaxBatches = 2
INVARIANTS PublishedIsTheInput OneAnswer
PROPERTIES StreamsEnd
CHECK_DEADLOCK FALSE
