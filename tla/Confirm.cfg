SPECIFICATION PollSpec
CONSTANTS
    LastValid = 2
    MaxHeight = 4
    MaxForks = 2
    Retained = 2
    Timeout = 2
CHECK_DEADLOCK FALSE
INVARIANTS
    TypeOK
PROPERTIES
    ClaimsAreTrue
    ClockConcludes
    HeightConcludes
