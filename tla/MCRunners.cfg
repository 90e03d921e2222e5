\* Two calls in one isolate race for the same turn.
SPECIFICATION Spec
CONSTANTS
    s1 = s1
    f1 = f1
    f2 = f2
    Submission = {s1}
    Fiber = {f1, f2}
    MaxQueuedTurns = 1
    MaxEventsPerStream = 3
    MaxRetainedStreams = 1
    MaxPhaseEffects = 12
    MaxRecoveryAttempts = 2
    MaxRecoveryWork = 2
    MaxOomStrikes = 2
    LeaseDuration = 2
    AlarmDebounce = 1
    StallTimeout = 3
    NoProgressTimeout = 4
    StableStateTimeout = 2
    CompletedStreamRetention = 2
    ToolsEnabled = TRUE
    OverlappingIsolates = FALSE
    MaxOperations = 1
    MaxTime = 4
    MaxBoots = 1
    MaxFaults = 0
SYMMETRY CallerSymmetry
CHECK_DEADLOCK FALSE
INVARIANTS
    LedgerKeepsRoom
    InterruptedIsScheduled
PROPERTIES
    OutcomeFinal
