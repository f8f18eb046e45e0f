SPECIFICATION Spec
CONSTANTS
    Never = Never
    WIDTH = 8
    DAY = 2
    BYTE = 2
    MAX_FRAME_SIZE = 2
    Vaults <- AllVaults
    Targets <- AllTargets
    Conversations <- AllConversations
    Days <- AllDays
CHECK_DEADLOCK FALSE
INVARIANTS
    ShellGetsTheValues
    ImportBringsTheExport
    SilenceIsSafe
    ReadsWhatWasSent
