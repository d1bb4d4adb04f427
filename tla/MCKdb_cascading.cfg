SPECIFICATION Spec
CONSTANTS
    Mounts <- SiblingMounts
    Keys <- ThreeKeys
    Parents <- Cascading
    Values = {v1, v2}
    Absent = Absent
    ReadOnly = {}
    Faults = {}
    MaxEdits = 2
    MaxWrites = 2
INVARIANTS
    SetPersists
    
    NoLostUpdate
PROPERTY OnlyEditsStored
