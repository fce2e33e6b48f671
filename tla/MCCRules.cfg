SPECIFICATION FairSpec
CONSTANTS
    r1 = r1
    r2 = r2
    r3 = r3
    Rules = {r1, r2, r3}
    Missing = Missing
    Org = Org
    Files <- AllFiles
    Codes = {0, 1, 2}
    MaxDepth = 6
INVARIANTS
    TypeOK
    FailureReported
    SuccessMeansFulfilled
    DeepOnlyIfCircular
PROPERTIES
    RulesFirst
    Termination
