SPECIFICATION Spec
CONSTANTS
    None = None
    Torn = Torn
    Name = {n1}
    Value = {v1}
    Password = {p1}
    Proc = {c1, c2}
    Commands <- WritingCommands
    Requests <- DaemonRequests
    MaxCredentials = 1
    MaxKeys = 2
    Events = {"pull", "newer"}
    MaxEvents = 1
    MaxFaults = 0
SYMMETRY Symmetry
CHECK_DEADLOCK FALSE
INVARIANTS
    TypeOK
    VaultConsistent
