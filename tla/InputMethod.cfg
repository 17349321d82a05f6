\* A surface of each text-input version, two commands and none, the code's limit.
SPECIFICATION Spec
CONSTANTS
    Surfaces = {a, b}
    NoSurface = none
    V3 = {a}
    Commands = {x, y}
    NoCommand = nothing
    CrashLimit = 5
    Scripted = TRUE
INVARIANTS ServerIsCurrent ContextIsKnown ActiveFollowsText KeyboardReturns
