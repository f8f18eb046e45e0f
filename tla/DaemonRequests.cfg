SPECIFICATION FairSpec
CONSTANTS
    None = None
    Absent = Absent
    AutoLock = AutoLock
    Name = {n1}
    Value = {v1}
    Conn = {c1, c2}
    Sendable <- All
    IDLE_TIMEOUT = 1
    CHECK_INTERVAL = 1
    MaxTime = 3
    MaxRequests = 3
    MaxFaults = 1
CHECK_DEADLOCK FALSE
INVARIANTS
    TypeOK
    MemoryMirrorsFile
    LocksWhenIdle
PROPERTIES
    ImplementsAtomicDaemon
    EveryRequestIsAnswered
