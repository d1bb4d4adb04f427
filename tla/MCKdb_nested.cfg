SPECIFICATION Spec
CONSTANTS
    Mounts <- AllMounts
    Keys <- AllKeys3
    Parents <- RootAndUser
    Values = {v1}
    Absent = Absent
    ReadOnly <- SystemMount
    Faults = {"get", "set", "commit"}
    MaxEdits = 1
    MaxWrites = 1
INVARIANTS
    KeysAtHome
    LocksReleased
    FailedSetAccounted
