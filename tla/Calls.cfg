SPECIFICATION Spec
CONSTANTS
    MaxRequests = 3
    MaxSubs = 2
    MaxNotes = 1
    MaxFaults = 0
    Kinds = {"signature"}
    Recycle = FALSE
    QueueSize = 1
    Policies = {"raise"}
    Closers = {}
    Receiving = FALSE
CHECK_DEADLOCK FALSE
INVARIANTS
    TypeOK
    NoOrphan
    HandleLiveOrEnding
    UnsubscribingExact
PROPERTIES
    FirstCauseWins
    HandleLives
