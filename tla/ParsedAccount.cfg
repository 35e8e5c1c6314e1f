SPECIFICATION Spec
CONSTANTS
    None = None
    KeyError = KeyError
    ValueError = ValueError
    Header = Header
    Footer = Footer
    Nul = Nul
    Undecodable = Undecodable
    RequiredFields = {name, policy}
    OptionalFields = {expiry}
    Text = Text
    OtherKey = OtherKey
    MaxFields = 1
CHECK_DEADLOCK FALSE
INVARIANTS
    ParsedAccountsAreRead
