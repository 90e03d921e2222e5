\* One turn, lost once after a tool round, is continued.
SPECIFICATION Spec
CONSTANTS
    RetainRecentMessages = 1
    CompactionThreshold = 1
    MaxToolSteps = 2
    MaxTurns = 1
    MaxRequests = 0
    MaxLosses = 1
CHECK_DEADLOCK FALSE
INVARIANTS
    ContinuationPromptValid
