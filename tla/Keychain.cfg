SPECIFICATION Spec
CONSTANTS
    Process = {p1, p2, p3}
    Password = {w1, w2, w3}
    None = None
    MaxCommands = 4
    MaxChanges = 1
    MaxFaults = 1
SYMMETRY Symmetry
CHECK_DEADLOCK FALSE
INVARIANTS KeptWasProven SavedIsFound
