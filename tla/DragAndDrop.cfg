\* The origin and two other clients, one source. A crash ends the program.
SPECIFICATION Spec
CONSTANTS
    Surfaces = {a, b, c}
    Origin = a
    Sources = {data}
    NoSurface = none
    NoSource = nothing
INVARIANTS OneDeviceEntered DropIsAccepted
CHECK_DEADLOCK FALSE
