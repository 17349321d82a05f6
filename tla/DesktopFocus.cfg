SPECIFICATION Spec
CONSTANTS
    w1 = w1
    w2 = w2
    w3 = w3
    d1 = d1
    d2 = d2
    d3 = d3
    None = None
    Windows <- MCWindows
    Desktops <- MCDesktops
    App <- MCApp
    Scenarios <- MCScenarios
INVARIANTS
    ChainsAreComplete
    FocusIsVisible
    FocusReturns
PROPERTY
    FocusMovesOn
CHECK_DEADLOCK FALSE
