SPECIFICATION SFairSpec
CONSTANTS
    a = a
    b = b
    m = m
    n = n
    IP = {a, b}
    Port = {1, 2}
    num = 1
    Interval = 1
    V6 = {b}
    Node = {m, n}
    Homes <- MCHomes
    Begin <- MCBegin
    RO = {m}
    Answering = {m}
    K = 1
    Day = 1
    MaxMoves = 1
    MaxBans = 1
INVARIANTS
    ClearedInTime
    
    PeersAreRecent
PROPERTIES
    BanLastsUntilLifted
    
