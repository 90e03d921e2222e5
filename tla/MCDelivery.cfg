SPECIFICATION Spec
CONSTANTS
    MaxPendingHandoffEvents = 1
    MaxReconnectAttempts = 3
    MaxTurns = 1
    MaxEvents = 2
    MaxSubmits = 1
    MaxAlarms = 1
    MaxFaults = 1
CHECK_DEADLOCK FALSE
INVARIANTS
    TypeOK
    ShownOnce
    GateHasResume
PROPERTIES
    HandoffCatchesUp
    Converges
