SPECIFICATION FairSpec
CONSTANTS
    Node = {1, 2, 3, 4, 5}
    Known = {1}
    Stale = {1}
    Target = 5
    K = 1
    SearchDepth = 3
    MaxNamed = 2
    Granting = {1}
    ReadOnly = {4}
    Bootstrap = {4}
    Calls = {"get_peers", "find_node", "announce_peer"}

    
PROPERTY
    SearchEnds
CHECK_DEADLOCK FALSE
