\* Two turns, two updates or compactions, two lost or failed attempts.
SPECIFICATION Spec
CONSTANTS
    RetainRecentMessages = 1
    CompactionThreshold = 1
    MaxToolSteps = 2
    MaxTurns = 2
    MaxRequests = 2
    MaxLosses = 2
CHECK_DEADLOCK FALSE
INVARIANTS
    TypeOK
    OneMessageEach
    TurnsInOrder
    OverlaysAdvance
    QuestionInSight
PROPERTIES
    MessagesKept
    UpdatesKept
