SPECIFICATION Spec
CONSTANTS
    Items = {}
    NoItem = NoItem
    Outputs = {A, B}
    Modes = {m1, m2}
    PreferredMode = m1
    Dark = Dark
    Scenarios = {{"sync", "mode", "refuse"}, {"dpms", "session", "disable", "refuse"},
                 {"plug", "dpms"}, {"plug", "session"}}
    MaxFrames = 2
CHECK_DEADLOCK FALSE
INVARIANTS
    AnswersAreOwed
    FramesAreAnswered
PROPERTY
    DarkIsQuiet
    ModesetWaitsForFlips
