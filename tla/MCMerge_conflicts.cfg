SPECIFICATION Spec
CONSTANTS
    Keys = {k1, k2}
    Values = {v1, v2, v3}
    Absent = Absent
    Null = Null
    MaxMerges = 2
INVARIANTS
    MergeExact
    ConflictsCounted
    ConflictsNamed
SYMMETRY Symmetry
