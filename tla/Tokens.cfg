SPECIFICATION Spec
CONSTANTS
    Pubkeys = {k1, k2}
    None = None
    TokenPrograms = {TOKEN, TOKEN2022}
    UiAmounts = {ui}
    MaxU8 = 2
    MaxU16 = 3
    MaxU64 = 4
    MaxList = 3
    RENT = RENT
    SYS_PROGRAM_ID = SYSTEM
    ASSOCIATED_TOKEN_PROGRAM_ID = ATOKEN
    IndexError = IndexError
    MEMO_PROGRAM_ID = MEMO
    VOTE_PROGRAM_ID = VOTE
CHECK_DEADLOCK FALSE
INVARIANTS
    TypeOK
    RoundTrip
    NoConfusion
    NeverBeyondTheEnd
    NoAccountLost
    SignaturesRequired
