SPECIFICATION FairSpec
CONSTANTS
    a = a
    b = b
    c = c
    f = f
    g = g
    Targets = {a, b, c}
    Missing = Missing
    Fields = {f, g}
    NoTarget = NoTarget
    Files <- AllFiles
    Codes = {0, 1, 2}
INVARIANTS
    TypeOK
    HistoryIsStack
    DynfieldsOwned
    RequiredFirst
    SuccessMeansAcyclic
    KeepGoingTriesAll
PROPERTIES
    Termination
