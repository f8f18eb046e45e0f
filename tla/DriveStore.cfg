\* Two devices, one key and two contents; two calls, two failures.
SPECIFICATION Spec
CONSTANTS
    Device = {d1, d2}
    Key = {vault}
    Data = {a, b}
    None = None
    MAX_ATTEMPTS = 2
    MaxCalls = 2
    MaxFaults = 2
SYMMETRY Symmetry
CHECK_DEADLOCK FALSE
INVARIANT TypeOK
PROPERTIES ImplementsRemoteStore LegacyCopiedFirst SecondFolderNeedsFault
