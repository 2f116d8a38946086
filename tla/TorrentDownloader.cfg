SPECIFICATION FairSpec
CONSTANTS
    w1 = w1
    w2 = w2
    t1 = t1
    None = None
    Worker = {w1, w2}
    Torrent = {t1}
    Size <- MCSize
    FalseSize = {0, 2}
    BlockSize = 2
    RespCap = 1
    MaxRequests = 5
    MaxNoise = 3
INVARIANTS
    ResponsesAreVerified
    OneResponsePerRequest
PROPERTIES
    
    NobodyWaitsForEver
