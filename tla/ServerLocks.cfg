SPECIFICATION LFairSpec
CONSTANTS
    a = a
    b = b
    c = c
    x = x
    None = None
    Call = {a, b}
    Addr = {x}
    To <- MCTo
    Interval = 1
    TidMod = 4
    Moved = {b}
    Reentrant = {a}
    NumTables = 1
    Checking = {b}
    TableOf <- MCTableOf
    Hooked = {a}
    Reading = {a}
    Answers <- MCAnswers

    
PROPERTIES
    ImplementsAsyncCalls
    LocksComeFree
    QueriesReturn
    SyncReturns
