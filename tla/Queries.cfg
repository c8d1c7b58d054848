SPECIFICATION Spec
CONSTANTS
    Null = null
    NoKey = nokey
    NoDictionary = nodictionary
    a = a
    b = b
    Queriers = {q1, q2}
    Writers = {w1, w2}
    Pairs <- TwoPairs
    Bases <- OneEdge
    PairedBases <- OneEdge
    Tables <- SomeTables
    Inputs <- SomeInputs
    MinDelta = 1
    MaxEntries = 2
SYMMETRY Symmetry
INVARIANTS TransposeWasTrue PairIsCoherent OneTranspose KeysKeepTheirMeaning LoadedIsTheTable
CHECK_DEADLOCK FALSE
CONSTRAINT Bounded
