\* A replaced isolate goes on running beside its successor.
SPECIFICATION Spec
CONSTANTS
    s1 = s1
    f1 = f1
    f2 = f2
    Submission = {s1}
    Fiber = {f1, f2}
    MaxQueuedTurns = 1
    MaxEventsPerStream = 3
    MaxRetainedStreams = 1
    MaxPhaseEffects = 12
    MaxRecoveryAttempts = 1
    MaxRecoveryWork = 2
    MaxOomStrikes = 2
    LeaseDuration = 1
    AlarmDebounce = 1
    StallTimeout = 2
    NoProgressTimeout = 2
    StableStateTimeout = 1
    CompletedStreamRetention = 2
    ToolsEnabled = FALSE
    OverlappingIsolates = TRUE
    MaxOperations = 1
    MaxTime = 2
    MaxBoots = 2
    MaxFaults = 0
SYMMETRY CallerSymmetry
CHECK_DEADLOCK FALSE
INVARIANTS
    SingleWriter
    AttemptBudget
