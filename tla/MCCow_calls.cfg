SPECIFICATION Spec
CONSTANTS
    Sets = {s1, s2}
    MaxKeys = 2
    NameOrder <- Chain
    Values = {v1}
    MaxRefs = 9
    MaxLocks = 1
    Null = Null
INVARIANTS RefsExact NoDangling Ordered
PROPERTY SharingUnseen
SYMMETRY Symmetry
