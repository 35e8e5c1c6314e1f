SPECIFICATION Spec
CONSTANTS
    MaxRequests = 2
    MaxSubs = 1
    MaxNotes = 1
    MaxFaults = 0
    Kinds = {"signature"}
    Recycle = FALSE
    QueueSize = 1
    Policies = {"raise"}
    Closers = {c1}
    Receiving = FALSE
CHECK_DEADLOCK FALSE
INVARIANTS
    CloseLeavesNoSocket
