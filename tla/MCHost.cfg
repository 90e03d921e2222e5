\* Two turns, two attempts, two mishaps.
SPECIFICATION Spec
CONSTANTS
    MaxQueuedTurns = 2
    MaxRecoveryAttempts = 2
    MaxTurns = 2
    MaxMishaps = 2
CHECK_DEADLOCK FALSE
INVARIANTS
    TypeOK
    ArmedAtRest
PROPERTIES
    ImplementsTurnSpec
    EndsUnattended
    EndsIfVisited
    AcceptsAgain
