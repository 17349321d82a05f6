SPECIFICATION Spec
CONSTANTS
    Clients = {c1, c2}
    PerClient = 1
    MaxPings = 3
CHECK_DEADLOCK FALSE
INVARIANTS
    PingsHaveTimers
    AnswersClearTheMark
PROPERTIES
    KilledForSilence
    CloseIsForced
