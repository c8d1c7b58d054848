SPECIFICATION ReadSpec
CONSTANTS
    Writers = {w1, w2}
    Sweepers = {s1}
    Readers = {r1}
    Data = {d1}
    Base <- BaseEdges
    Writes <- PartlyShared
    Edges = {e1, e2}
    w1 = w1
    w2 = w2
    e1 = e1
    e2 = e2
    NoData = NoData
    Deleted = Deleted
INVARIANTS TypeOK Disjoint NoMutationVanishes AnswersAreJustified
