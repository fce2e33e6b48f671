SPECIFICATION FairSpec
CONSTANTS
    NULL = NULL
    SizeMax = 15
    NumScripts = 3
    MaxProcs = 2
    c1 = c1
    c2 = c2
    c3 = c3
    c4 = c4
    Chunks = {c1, c2, c3, c4}
    Capacity = 1
    Align = 1
    Garbage = Garbage
    Handled = 2
INVARIANTS
    TypeInvariant
    HandlerCleans
    SerialHeapSafe
PROPERTIES
    HandlerEnds
