SPECIFICATION Spec
CONSTANTS
    Positions = {0, 1}
    Widths = {1, 2}
    MaximizeW = 3
    FullScreenW = 4
    Scenarios = {{"maximize", "fullscreen"}, {"maximize", "move", "unmap"},
                 {"move", "geometry", "activate"}, {"drag", "geometry"}, {"resize", "maximize"}}
    MaxRequests = 3
INVARIANTS
    NothingIsForgotten
    ConfiguresApplyInOrder
PROPERTIES
    MoveIsFinal
    ClientCatchesUp
