SPECIFICATION Spec
CONSTANTS
    r = r
    a = a
    b = b
    c = c
    d = d
    x = x
    y = y
    ID = {r, a, b, c}
    Root = r
    Addr = {x, y}
    NumBuckets = 1
    BucketOf <- OneBucket
    K = 2
    Dubious = 1
    Bad = 2
    MaxLag = 0
    MaxSlots = 3
    Persistent = TRUE
SYMMETRY Symmetry
INVARIANTS
    LoadedTableIsClean
