SPECIFICATION Spec
CONSTANTS
    Clients = {t1, t2}
    Procs = {procP}
    ProcOf <- Threads
    MaxSets = 4
    MaxClock = 1
    FineClock = TRUE
    Second = 2
    WholeSeconds = FALSE
    Uptime = 0
    NoTime = NoTime
    InitialFile = TRUE
    InitialDir = TRUE
    Removal = FALSE
    Faults = {"crash", "storageSet", "rename"}
    NoProc = NoProc
    NoClient = NoClient
    other = other
    procP = procP
    procQ = procQ
INVARIANT
    ExclusiveWriters
PROPERTIES
    NoLostUpdate
    MutexReleased
