\* One crash restarts the server, the counter may be reset once.
\* Xwayland may be stopped for good: the system then rests.
SPECIFICATION Spec
CONSTANTS
    MaxCrashCount = 2
    MaxResets = 1
    MaxCalls = 2
INVARIANTS ConnectionIsCurrent SessionStartsOnce
PROPERTIES DeadServerIsReleased StartupIsFinalised
CHECK_DEADLOCK FALSE
