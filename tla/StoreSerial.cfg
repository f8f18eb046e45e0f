SPECIFICATION SerialSpec
CONSTANTS
    None = None
    Torn = Torn
    Name = {n1, n2}
    Value = {v1}
    Password = {p1, p2}
    Proc = {c1}
    Commands <- AllCommands
    Requests <- DaemonRequests
    MaxCredentials = 1
    MaxKeys = 2
    Events = {"delete", "pull", "newer"}
    MaxEvents = 2
    MaxFaults = 1
CHECK_DEADLOCK FALSE
INVARIANTS
    PasswordIsTheLastSet
    VaultOpensHere
PROPERTIES
    NoLostUpdate
    NewerFormatKept
    NoStalePlaintext
