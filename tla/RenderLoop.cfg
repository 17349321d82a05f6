SPECIFICATION Spec
CONSTANTS
    NoItem = NoItem
    Items = {window, popup}
    Backends = {"drm", "x11"}
    MaxFrames = 3
    MaxInhibit = 2
INVARIANTS
    FrameAccounting
    SleepsAndWakes
PROPERTIES
    OverlapNeedsResume
    HeldRequestIsDrawn
    KeepsSchedule
