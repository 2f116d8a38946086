SPECIFICATION FairSpec
CONSTANTS
    a = a
    Client = {a}
    IPv6 = {}
    Minute = 2
    Interval = 4
    MaxDelay = 1
    MaxTid = 3
    MaxCid = 2
    MaxCopies = 1
    MaxEpoch = 1
INVARIANTS
    OkMeansHandled
    FreshConnectionIsAccepted
PROPERTY
    CallsReturn
