SPECIFICATION Spec
CONSTANTS
    Clients = {c1, c2, c3}
    Procs = {c1, c2, c3}
    ProcOf <- OwnProcess
    MaxSets = 3
    MaxClock = 1
    FineClock = TRUE
    Second = 2
    WholeSeconds = FALSE
    Uptime = 0
    NoTime = NoTime
    InitialFile = TRUE
    InitialDir = TRUE
    Removal = FALSE
    Faults = {"crash", "storageSet", "rename"}
    NoProc = NoProc
    NoClient = NoClient
SYMMETRY Symmetry
INVARIANTS
    CheckedIsCurrent
    UpToDate
PROPERTIES
    ImplementsStore
