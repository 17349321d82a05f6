\* A window and two more surfaces that may become sub-surfaces of it or of each other.
SPECIFICATION Spec
CONSTANTS
    Surfaces = {w, a, b}
    NoSurface = NoSurface
    Toplevels = {w}
    Scenarios = {{"attach", "frame"}, {"place", "set_position"}}
    MaxRequests = 2
INVARIANTS TreeIsSound
PROPERTIES SyncAppliesWithParent ContentNeverGoesBack CallbacksSurvive
\* A client may have destroyed all its surfaces.
CHECK_DEADLOCK FALSE
