\* The effect type changes while compositing is suspended.
SPECIFICATION Spec
CONSTANTS
    Effects = {blur}
    Properties = {region}
    Windows = {w}
    MaxQueue = 2
INVARIANT EffectsAreThere
CHECK_DEADLOCK FALSE
