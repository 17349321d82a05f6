\* Two effects that share a property, one window. A crash ends the program.
SPECIFICATION Spec
CONSTANTS
    Effects = {blur, contrast}
    Properties = {region}
    Windows = {w}
    MaxQueue = 2
INVARIANTS SuspendedMeansOff SelectionFollowsState SupportIsAnnounced
PROPERTY RestartsEnd
CHECK_DEADLOCK FALSE
