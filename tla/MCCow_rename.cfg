SPECIFICATION Spec
CONSTANTS
    Sets = {s1}
    MaxKeys = 2
    NameOrder <- Nested
    Values = {v1}
    MaxRefs = 9
    MaxLocks = 1
    Null = Null
INVARIANT Ordered
