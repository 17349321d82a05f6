SPECIFICATION BusySpec
CONSTANTS
    Items = {}
    NoItem = NoItem
    Outputs = {A, B, C}
    Modes = {m1, m2}
    PreferredMode = m1
    Dark = Dark
    Scenarios = {{"sync", "mode"}}
    MaxFrames = 2
CHECK_DEADLOCK FALSE
PROPERTY
    WaitingFrameIsPresented
