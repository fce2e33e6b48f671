SPECIFICATION Spec
CONSTANTS
    m1 = m1
    m2 = m2
    NoPid = NoPid
    NoPath = NoPath
    Mbs <- TwoMbs
    Pids = {1, 2}
    IntMax = 3
    Base = 2
    Names <- OneName
    Lengths = {1, 2}
    MaxProcs = 2
    MaxCounter <- LongAndShort
INVARIANTS
    TypeOK
    RunsOwnScript
    PathsDiffer
PROPERTIES
    RunningFileKept
