SPECIFICATION Spec
CONSTANTS
    Clients = {c1, c2}
    Procs = {c1, c2}
    ProcOf <- OwnProcess
    MaxSets = 3
    MaxClock = 1
    FineClock = FALSE
    Second = 2
    WholeSeconds = TRUE
    Uptime = 2
    NoTime = NoTime
    InitialFile = FALSE
    InitialDir = TRUE
    Removal = TRUE
    Faults = {"crash", "crashInCommit", "storageGet", "storageSet", "rename"}
    NoProc = NoProc
    NoClient = NoClient
SYMMETRY Symmetry
INVARIANTS
    LocksAccounted
    ExclusiveCreation
PROPERTY
    TimeChanges
