\* One turn through crashes, lost calls, stalls and exhaustion.
SPECIFICATION Spec
CONSTANTS
    s1 = s1
    f1 = f1
    Submission = {s1}
    Fiber = {f1}
    MaxQueuedTurns = 1
    MaxEventsPerStream = 4
    MaxRetainedStreams = 1
    MaxPhaseEffects = 12
    MaxRecoveryAttempts = 2
    MaxRecoveryWork = 2
    MaxOomStrikes = 2
    LeaseDuration = 2
    AlarmDebounce = 1
    StallTimeout = 3
    NoProgressTimeout = 4
    StableStateTimeout = 2
    CompletedStreamRetention = 2
    ToolsEnabled = FALSE
    OverlappingIsolates = FALSE
    MaxOperations = 1
    MaxTime = 5
    MaxBoots = 3
    MaxFaults = 1
SYMMETRY CallerSymmetry
CHECK_DEADLOCK FALSE
INVARIANTS
    TypeOK
    OwnerIsActive
    InterruptedIsScheduled
    StreamFollowsOperation
    AttemptBudget
    AnsweredUnlessContinued
