SPECIFICATION FairSerialSpec
CONSTANTS
    None = None
    Garbled = Garbled
    Device = {d1, d2}
    Key = {k1}
    key <- SharedKey
    Timestamps <- MCTimestamps
    Commands = {"push", "pull", "KeepLocal", "KeepRemote", "LastWriteWins"}
    MaxEdits = 3
    MaxUploads = 6
    MaxFaults = 0
CHECK_DEADLOCK FALSE
INVARIANTS
    ManifestMatchesVault
    NoBlindOverwrite
    PullKeepsEdits
    SuccessMeansInSync
PROPERTIES
    ImplementsVaultSync
    EventuallyInSync
