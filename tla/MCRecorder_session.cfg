SPECIFICATION Spec
CONSTANTS
    Procs = {p1, p2}
    Keys = {k1, k2}
    k1 = k1
    k2 = k2
    Values = {v1, v2}
    Absent = Absent
    Backends <- TwoBackends
    Owner <- OneEach
    MountBelow <- OwnKeys
    Parents <- Mountpoints
    SessionParents <- WholeSession
    NoSession = NoSession
    NoProc = NoProc
    Uses = {"crash", "storage", "commit", "session"}
    MaxSets = 2
    MaxManage = 1
INVARIANTS
    SessionExact
    SessionWellFormed
    OneRecorder
    LockOnlyInSet
PROPERTIES
    UndoRestores
CHECK_DEADLOCK FALSE
SYMMETRY Symmetry
