SPECIFICATION FairSpec
CONSTANTS
    Layouts <- MCLayouts
    PieceLength = 4
    BlockLength = 3
    ReadLength = 3
    MaxFail = 1
INVARIANTS
    BytesInPlace
    ReadsAreRight
    BlocksAreExact
PROPERTY
    DownloadFinishes
