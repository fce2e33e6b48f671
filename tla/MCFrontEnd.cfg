SPECIFICATION Spec
CONSTANTS
    Absent = Absent
    IllTyped = IllTyped
    NoData = NoData
    Names <- TargetNames
    Options <- SomeOptions
    MaxOptions = 2
    Files <- SomeFiles
    Codes = {0, 2}
INVARIANTS
    TypeOK
    ListsFreedOnce
    CommandLineWins
    ZeroMeansRun
