SPECIFICATION FairSpec
CONSTANTS
    NumJobs = 4
    Configs <- AllConfigs
    ExitCodes = {0, 1, 2}
    Faults <- AllFaults
INVARIANTS
    TypeOK
    BoundedChildren
    SlotInBounds
    ReapedAtReturn
    SuccessMeansBuilt
    SerialVerdict
    RunningScriptKept
    LeftoverFailed
PROPERTIES
    ImplementsJobPool
    Termination
