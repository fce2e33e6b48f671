SPECIFICATION Spec
CONSTANTS
    a = a
    b = b
    c = c
    f = f
    g = g
    Targets = {a, b, c}
    Missing = Missing
    Fields = {f, g}
    NoTarget = NoTarget
    Files <- ShadowFiles
    Codes = {0, 1, 2}
INVARIANTS
    OwnFieldsVisible
