SPECIFICATION Spec
CONSTANTS
    MaxRequests = 1
    MaxSubs = 1
    MaxNotes = 4
    MaxFaults = 0
    Kinds = {"signature"}
    Recycle = FALSE
    QueueSize = 2
    Policies = {"raise", "drop_oldest", "drop_newest"}
    Closers = {c1, c2}
    Receiving = TRUE
SYMMETRY Symmetry
CHECK_DEADLOCK FALSE
INVARIANTS
    StreamConserved
    NoGapUnderRaise
    ReceiverWoken
    FreshestKept
    CloseReleased
PROPERTIES
    ClosureReportedLast
    StreamKept
