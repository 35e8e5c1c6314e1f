SPECIFICATION Spec
CONSTANTS
    MaxRequests = 2
    MaxSubs = 2
    MaxNotes = 1
    MaxFaults = 2
    Kinds = {"signature"}
    Recycle = TRUE
    QueueSize = 1
    Policies = {"raise"}
    Closers = {}
    Receiving = FALSE
CHECK_DEADLOCK FALSE
INVARIANTS
    PendingExact
    DeadConnectionOwnsNothing
    AnswersReachTheirCall
