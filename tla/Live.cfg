SPECIFICATION LoopSpec
CONSTANTS
    MaxRequests = 2
    MaxSubs = 1
    MaxNotes = 0
    MaxFaults = 0
    Kinds = {"signature"}
    Recycle = FALSE
    QueueSize = 1
    Policies = {"raise"}
    Closers = {c1}
    Receiving = FALSE
CHECK_DEADLOCK FALSE
PROPERTIES
    WaitEnds
    AbandonedCallsReturn
    DeadSocketEndsCalls
    ReleaseHappens
