SPECIFICATION FairSpec
CONSTANTS
    d = d
    a = a
    h1 = h1
    h2 = h2
    Dialer = d
    Acceptor = a
    Hash = {h1, h2}
    DialerHash = h1
    Zero = Zero
    ExtBits <- MCExtBits
    PieceNum = 2
    Sends <- MCSends
    MaxSend = 3
INVARIANTS
    EndsAgree
    BitFieldTracksPeer
PROPERTIES
    ConnectionEnds
