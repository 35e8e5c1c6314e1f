SPECIFICATION Spec
CONSTANTS
    Calls = {r1, r2}
    MaxRetries = 1
    Rate = 2
CHECK_DEADLOCK FALSE
INVARIANTS
    TypeOK
    RetriesExact
    AnsweredIsFinal
    RateBound
    EnvelopeRead
