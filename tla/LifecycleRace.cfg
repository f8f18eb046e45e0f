SPECIFICATION FairSpec
CONSTANTS
    None = None
    Torn = Torn
    Pid = {p1, p2, p3}
    Cmd = {c1, c2}
    Orders = {"start", "stop", "run"}
    MaxOrders = 4
    Reuse = FALSE
    CrashAt <- AllStages
    MaxFaults = 1
CHECK_DEADLOCK FALSE
INVARIANTS
    TornHasAWriter
PROPERTIES
    RaceHasAWinner
