\* Two commands at a time, two in all after whatever came before; a token lives two timeouts.
SPECIFICATION Spec
CONSTANTS
    Process = {p1, p2}
    None = None
    Torn = Torn
    LIFETIME = 2
    TOKEN_EXPIRY_BUFFER_SECS = 1
    REQUEST_TIMEOUT = 1
    MAX_ATTEMPTS = 2
    MAX_REFRESHES = 2
    MaxTime = 3
    MaxGrants = 2
    MaxKeys = 3
    MaxCommands = 2
    MaxCrashes = 1
SYMMETRY Symmetry
CHECK_DEADLOCK FALSE
INVARIANTS ValidIsNearlyAccepted SyncsWithTheToldKey
