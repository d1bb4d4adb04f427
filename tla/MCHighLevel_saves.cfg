SPECIFICATION Spec
CONSTANTS
    c1 = c1
    c2 = c2
    p1 = p1
    p2 = p2
    Clients = {c1, c2}
    Procs = {p1, p2}
    Deployments <- ThreadsOrProcesses
    Keys = {k1, k2}
    Values = {v1, v2, bad}
    Bad = {bad}
    Absent = Absent
    NoClient = NoClient
    MaxSaves = 3
    MaxFaults = 1
INVARIANTS SavedIsStored
PROPERTIES ImplementsStore OthersKept EverySaveReturns
