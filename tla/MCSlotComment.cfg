SPECIFICATION Spec
CONSTANTS
    NumJobs = 3
    Configs <- StrictParallel
    ExitCodes = {0, 1}
    Faults <- NoFaults
INVARIANTS
    FreedSlotScriptDeleted
