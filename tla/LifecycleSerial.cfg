SPECIFICATION FairSerialSpec
CONSTANTS
    None = None
    Torn = Torn
    Pid = {p1, p2, p3}
    Cmd = {c1}
    Orders = {"start", "stop"}
    MaxOrders = 6
    Reuse = TRUE
    CrashAt <- AllStages
    MaxFaults = 2
CHECK_DEADLOCK FALSE
INVARIANTS
    OneDaemon
    ServingIsManaged
PROPERTIES
    OrdersAreCarriedOut
    OnlyStaleSocketsRemoved
