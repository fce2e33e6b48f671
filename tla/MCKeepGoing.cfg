SPECIFICATION FairSpec
CONSTANTS
    NumJobs = 4
    Configs <- KeepGoingParallel
    ExitCodes = {0, 1}
    Faults <- NoFaults
PROPERTIES
    KeepsBuilding
