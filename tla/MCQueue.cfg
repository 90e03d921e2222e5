\* Three turns in order, with retention and cleanup.
SPECIFICATION Spec
CONSTANTS
    s1 = s1
    s2 = s2
    s3 = s3
    f1 = f1
    Submission = {s1, s2, s3}
    Fiber = {f1}
    MaxQueuedTurns = 2
    MaxEventsPerStream = 3
    MaxRetainedStreams = 1
    MaxPhaseEffects = 12
    MaxRecoveryAttempts = 1
    MaxRecoveryWork = 2
    MaxOomStrikes = 2
    LeaseDuration = 1
    AlarmDebounce = 1
    StallTimeout = 2
    NoProgressTimeout = 2
    StableStateTimeout = 1
    CompletedStreamRetention = 1
    ToolsEnabled = FALSE
    OverlappingIsolates = FALSE
    MaxOperations = 3
    MaxTime = 2
    MaxBoots = 1
    MaxFaults = 0
SYMMETRY CallerSymmetry
CHECK_DEADLOCK FALSE
INVARIANTS
    FIFO
    Accounted
PROPERTIES
    ImplementsTurnSpec
