SPECIFICATION Safe
CONSTANTS
    MaxPendingHandoffEvents = 1
    MaxReconnectAttempts = 3
    MaxTurns = 1
    MaxEvents = 2
    MaxSubmits = 1
    MaxAlarms = 0
    MaxFaults = 0
CHECK_DEADLOCK FALSE
INVARIANTS
    ShownWithoutGap
