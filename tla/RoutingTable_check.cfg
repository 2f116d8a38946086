SPECIFICATION FairSpec
CONSTANTS
    r = r
    a = a
    b = b
    c = c
    d = d
    x = x
    y = y
    ID = {r, a, b, c, d}
    Root = r
    Addr = {x}
    NumBuckets = 2
    BucketOf <- TwoBuckets
    K = 1
    Dubious = 1
    Bad = 2
    MaxLag = 1
    MaxSlots = 4
    Persistent = FALSE
PROPERTIES
    SilentNodesAreForgotten
    AddNodeEvictsOnlyBad
INVARIANT
    DuplicatesAreAdjacent
