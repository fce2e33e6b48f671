SPECIFICATION Spec
CONSTANTS
    a = a
    b = b
    Elements = {a, b}
    Whole = Whole
    Absent = Absent
    Dangling = Dangling
    Scalar = Scalar
    NoData = NoData
    Rules <- AllRules
    TicksPerSecond = 2
    IntMax = 1
    MaxTick = 4
INVARIANTS
    TypeOK
    UpToDate
    ForcedIsUpToDate
    OneListIsSafe
PROPERTIES
    ScriptInputs
