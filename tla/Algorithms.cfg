SPECIFICATION ASpec
CONSTANTS
    Bytes = 2
    Bits = 2
    NodeID <- Hash
    Target <- MCTarget
    Dist <- MCDist
    MaxTable = 3
    MaxNum = 2
    Chunk <- MCChunk
    InfoKey <- MCInfoKey
    CommentKey <- MCCommentKey
    MaxChunks = 7
    Mapped = "ffff"
    ByteBits = 2
    IntBits = 3
    LongBits = 4
    ClientID = "me"
    Paths <- MCPaths
    Requests <- MCRequests
    Torrents = {"t", "u"}
    Stats <- MCStats
    Answers <- MCAnswers
    NodeLists <- MCNodeLists
    BufSize = 8
    Extra6 = 4
    Sz = 4
    Ks = {0, 2, 3, 4}
    MaxDraws = 6
INVARIANTS
    SortedByXor
    
    LaterBucketIsCloser
    DecodedValuesSurvive
    InfoBytesSurvive
    
    ResponsesArrive
    FastSetIsFirstDraws
CHECK_DEADLOCK FALSE
