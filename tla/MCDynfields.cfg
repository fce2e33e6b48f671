SPECIFICATION Spec
CONSTANTS
    NumJobs = 3
    Configs <- Serial
    ExitCodes = {0, 1}
    Faults <- FormatFault
INVARIANTS
    NoFreedDynfields
