SPECIFICATION Spec
CONSTANTS
    None = None
    Garbled = Garbled
    Device = {d1, d2}
    Key = {k1}
    key <- SharedKey
    Timestamps <- MCTimestamps
    Commands = {"push", "pull", "KeepLocal", "KeepRemote", "LastWriteWins"}
    MaxEdits = 2
    MaxUploads = 2
    MaxFaults = 2
CHECK_DEADLOCK FALSE
INVARIANTS
    TypeOK
    BaselineSound
    DamageNeedsFault
    OneFaultLeavesACopy
