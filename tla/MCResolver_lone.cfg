SPECIFICATION Spec
CONSTANTS
    Clients = {c1}
    Procs = {c1}
    ProcOf <- OwnProcess
    MaxSets = 4
    MaxClock = 3
    FineClock = FALSE
    Second = 4
    WholeSeconds = FALSE
    Uptime = 2
    NoTime = NoTime
    InitialFile = FALSE
    InitialDir = FALSE
    Removal = FALSE
    Faults = {}
    NoProc = NoProc
    NoClient = NoClient
INVARIANTS
    LoneClientSucceeds
