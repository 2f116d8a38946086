------------------------------ MODULE DHTServer ------------------------------
(***************************************************************************)
(* The DHT server towards other nodes: handlePacket, handleMessage and     *)
(* handleQuery of dht/dht_server.go, with the blacklist, the token-peer    *)
(* manager of dht/peer_manager.go and what AddNode reports.                *)
(*                                                                         *)
(* A packet passes the blacklist when it arrives and is handled later, in  *)
(* a goroutine of its own.  Nodes may move to another address; one that is *)
(* heard at a new address while the table has it at the old one is banned. *)
(*                                                                         *)
(* A unit of time is long enough for a silent node to become bad.          *)
(***************************************************************************)
EXTENDS Blacklist

CONSTANTS
    V6,            \* the IPs that are IPv6
    Node,          \* the IDs of other nodes, which infohashes are compared with
    Homes,         \* the addresses at which each node may be,
    Begin,         \* and where it is at first
    RO,            \* the nodes that call themselves read-only (BEP 43)
    K,             \* Config.K
    Day,           \* the period of the token-peer manager, and how long a peer is kept
    Answering,     \* Bound: the nodes that are asked by get_peers and answer,
    MaxMoves,      \* how often nodes move,
    MaxBans        \* and how often a write fails or the user bans an IP

Addr == IP \X Port

ASSUME ServerAssumption ==
    /\ V6 \subseteq IP
    /\ Homes \in [Node -> SUBSET Addr]
    /\ Begin \in [Node -> Addr] /\ \A n \in Node : Begin[n] \in Homes[n]
    /\ RO \subseteq Node /\ Answering \subseteq Node
    /\ K \in Nat
    /\ Day \in Nat \ {0}
    /\ MaxMoves \in Nat /\ MaxBans \in Nat

VARIABLES
    stack,     \* s.ipv4 and s.ipv6, as a set of 4 and 6
    home,      \* where each node is
    table,     \* the nodes of both routing tables, with their addresses,
    heard,     \* and those heard or named within the unit of time
    packets,   \* the packets whose handleMessage has not begun
    peers,     \* the keys of tpm.peers: a hash and an address,
    stored,    \* and the age of the Time of each
    day,       \* the time since the last tick of the token-peer manager
    moves, bans

server == <<stack, home, table, heard, packets, peers, stored, day, moves, bans>>
svars == <<vars, server>>

Family(addr) == IF addr[1] \in V6 THEN 6 ELSE 4

\* The nodes or peers of a set that are of one protocol.
Of(S, f) == {x \in S : Family(x[2]) = f}

Key == UNION {{n} \X Homes[n] : n \in Node}

\* NewServer: the protocols of the configuration, or of the socket's address.
SInit ==
    /\ Init
    /\ stack \in {{4}, {6}, {4, 6}}
    /\ home = Begin
    /\ table = {}
    /\ heard = {}
    /\ packets = {}
    /\ peers = {}
    /\ stored = [p \in Key |-> 0]
    /\ day = 0
    /\ moves = 0
    /\ bans = 0

-----------------------------------------------------------------------------
(***************************************************************************)
(* Replies: what find_node and get_peers answer in a state                 *)
(***************************************************************************)

\* Mutant: without "want" an IPv6 node is given IPv4 nodes.
WantedByAll(from, want) == IF want = {} THEN {4} ELSE want

\* ContainsWant: the protocols that are asked for, or that of the asker.
Wanted(from, want) == IF want = {} THEN {Family(from)} ELSE want

\* Closest and GetPeers return at most K of a protocol, here whichever.
AtMostK(S, f) ==
    {T \in SUBSET Of(S, f) :
        Cardinality(T) = IF Cardinality(Of(S, f)) < K THEN Cardinality(Of(S, f)) ELSE K}

OfWanted(S, from, want) ==
    LET Choice(f) == IF f \in Wanted(from, want) THEN AtMostK(S, f) ELSE {{}}
    IN  {T4 \cup T6 : T4 \in Choice(4), T6 \in Choice(6)}

FindNode(from, want) == [nodes : OfWanted(table, from, want), values : {{}}]

\* The closest nodes are returned only if there is no peer.
GetPeers(hash, from, want) ==
    UNION {IF V = {} THEN FindNode(from, want) ELSE {[nodes |-> {}, values |-> V]} :
            V \in OfWanted({p \in peers : p[1] = hash}, from, want)}

-----------------------------------------------------------------------------
(***************************************************************************)
(* Packets                                                                 *)
(***************************************************************************)

\* handlePacket: isDisabled and the blacklist come before the goroutine.
HandlePacket(n) ==
    /\ Family(home[n]) \in stack
    /\ ~In(home[n][1], home[n][2])
    /\ <<n, home[n]>> \notin packets
    /\ packets' = packets \cup {<<n, home[n]>>}
    /\ UNCHANGED <<vars, stack, home, table, heard, peers, stored, day, moves, bans>>

\* Blacklist.Add, which drops the address when the list is full.
Ban(addr) == Add(addr[1], addr[2]) \/ (~HasRoom /\ addr[1] \notin listed /\ UNCHANGED vars)

KnownElsewhere(n, addr) ==
    n \notin RO /\ \E e \in table : e[1] = n /\ e[2] # addr /\ Family(e[2]) = Family(addr)

\* addNode: a read-only node is not added; the time of a known one is renewed.
\* Bound: the buckets have room for the nodes of an instance.
Learn(n, addr) ==
    IF n \in RO
    THEN UNCHANGED <<table, heard>>
    ELSE /\ table' = table \cup {<<n, addr>>}
         /\ heard' = heard \cup {<<n, addr>>}

\* The write of a message to addr fails, and _send adds addr to the blacklist.
WriteFails(addr) ==
    /\ bans < MaxBans
    /\ bans' = bans + 1
    /\ Ban(addr)

Written == UNCHANGED <<vars, bans>>

\* A node that is known at another address is banned and gets no answer.
HandleMoved(n, addr) ==
    /\ <<n, addr>> \in packets
    /\ packets' = packets \ {<<n, addr>>}
    /\ KnownElsewhere(n, addr)
    /\ Ban(addr)
    /\ UNCHANGED <<stack, home, table, heard, peers, stored, day, moves, bans>>

\* handleMessage of a query: one of the replies above is written, or an error.
HandleQuery(n, addr) ==
    /\ <<n, addr>> \in packets
    /\ packets' = packets \ {<<n, addr>>}
    /\ ~KnownElsewhere(n, addr)
    /\ Learn(n, addr)
    /\ Written \/ WriteFails(addr)
    /\ UNCHANGED <<stack, home, peers, stored, day, moves>>

\* handleMessage of a response to get_peers: Set stores a peer with its token
\* under the ID of the node.
HandleResponse(n, addr) ==
    /\ n \in Answering
    /\ <<n, addr>> \in packets
    /\ packets' = packets \ {<<n, addr>>}
    /\ ~KnownElsewhere(n, addr)
    /\ Learn(n, addr)
    /\ peers' = peers \cup {<<n, addr>>}
    /\ stored' = [stored EXCEPT ![<<n, addr>>] = 0]
    /\ UNCHANGED <<vars, stack, home, day, moves, bans>>

\* A response of another node names n (addNode2), which bans nobody.
\* Bound: nodes are named at the address where they are.
HandleNamed(n) ==
    /\ n \notin RO
    /\ Family(home[n]) \in stack
    /\ ~KnownElsewhere(n, home[n])
    /\ Learn(n, home[n])
    /\ UNCHANGED <<vars, stack, home, packets, peers, stored, day, moves, bans>>

\* The check of a table PINGs a dubious node, and the write fails.
PingFails(e) ==
    /\ e \in table \ heard
    /\ WriteFails(e[2])
    /\ UNCHANGED <<stack, home, table, heard, packets, peers, stored, day, moves>>

\* Mutant: the check keeps nodes that are on the blacklist.
ForgetIfFree(e) ==
    /\ e \in table \ heard
    /\ \A n \in Node : n = e[1] => ~In(home[n][1], home[n][2])
    /\ table' = table \ {e}
    /\ UNCHANGED <<vars, stack, home, heard, packets, peers, stored, day, moves, bans>>

\* The check of a table removes a bad node.
Forget(e) ==
    /\ e \in table \ heard
    /\ table' = table \ {e}
    /\ UNCHANGED <<vars, stack, home, heard, packets, peers, stored, day, moves, bans>>

-----------------------------------------------------------------------------
(***************************************************************************)
(* Time, the user and the nodes                                            *)
(***************************************************************************)

\* Mutant: a peer is kept for two periods.
OldLate(p) == stored[p] > 2 * Day

Old(p) == stored[p] > Day

\* The ticker of the token-peer manager's Start fires.
Expire ==
    /\ day = Day
    /\ day' = 0
    /\ peers' = {p \in peers : ~Old(p)}
    /\ UNCHANGED <<vars, stack, home, table, heard, packets, stored, moves, bans>>

LoopExpires ==
    /\ Loop
    /\ UNCHANGED server

\* Close stops the blacklist and the managers with it.
Stop ==
    /\ Close
    /\ UNCHANGED server

\* The user bans a whole IP, or lifts a ban.
UserBan(ip) ==
    /\ bans < MaxBans
    /\ bans' = bans + 1
    /\ Add(ip, 0)
    /\ UNCHANGED <<stack, home, table, heard, packets, peers, stored, day, moves>>

UserLift(ip, port) ==
    /\ Del(ip, port)
    /\ UNCHANGED server

\* External: a node goes to another of its addresses.
Move(n, addr) ==
    /\ moves < MaxMoves
    /\ moves' = moves + 1
    /\ addr \in Homes[n] \ {home[n]}
    /\ home' = [home EXCEPT ![n] = addr]
    /\ UNCHANGED <<vars, stack, table, heard, packets, peers, stored, day, bans>>

\* Time passes; the tickers are served when they fire.
TimePasses ==
    /\ Tick
    /\ day < Day \/ closed
    /\ day' = Older(day, Day)
    /\ stored' = [p \in Key |-> IF p \in peers THEN Older(stored[p], 2 * Day + 1) ELSE 0]
    /\ heard' = {}
    /\ UNCHANGED <<stack, home, table, packets, peers, moves, bans>>

SNext ==
    \/ \E n \in Node : HandlePacket(n) \/ HandleNamed(n)
    \/ \E p \in packets :
        HandleMoved(p[1], p[2]) \/ HandleQuery(p[1], p[2]) \/ HandleResponse(p[1], p[2])
    \/ \E e \in table : PingFails(e) \/ Forget(e)
    \/ \E n \in Node : \E addr \in Homes[n] : Move(n, addr)
    \/ \E ip \in IP : UserBan(ip)
    \/ \E ip \in IP, port \in Port \cup {0} : UserLift(ip, port)
    \/ Expire
    \/ LoopExpires
    \/ Stop
    \/ TimePasses

SSpec == SInit /\ [][SNext]_svars

\* A node goes on sending and some packet of it arrives, goroutines run, bad nodes
\* are removed, the tickers are served and time passes.  The user does nothing.
SFairSpec ==
    /\ SSpec
    /\ \A n \in Node \ RO : SF_svars(HandlePacket(n))
    /\ \A p \in Key : WF_svars(HandleMoved(p[1], p[2]) \/ HandleQuery(p[1], p[2]) \/ HandleResponse(p[1], p[2]))
    /\ \A e \in Key : WF_svars(Forget(e))
    /\ WF_svars(Expire) /\ WF_svars(LoopExpires) /\ WF_svars(TimePasses)

-----------------------------------------------------------------------------
(***************************************************************************)
(* Properties                                                              *)
(***************************************************************************)

STypeOK ==
    /\ stack \in SUBSET {4, 6}
    /\ home \in [Node -> Addr]
    /\ table \subseteq Key
    /\ heard \subseteq Key
    /\ packets \subseteq Key
    /\ peers \subseteq Key
    /\ stored \in [Key -> 0..(2 * Day + 1)]
    /\ day \in 0..Day

\* Whatever is asked by whom: a reply has nodes or peers of the protocols that
\* are wanted or, without a wish, that of the asker, of none that the server does
\* not speak, no node that calls itself read-only, and at most K of each (BEP 32
\* and 43).
RepliesAreWanted ==
    \A n, hash \in Node, want \in SUBSET {4, 6} :
        \A r \in GetPeers(hash, home[n], want) \cup FindNode(home[n], want) :
            /\ \A f \in {4, 6} : Cardinality(Of(r.nodes \cup r.values, f)) <= K
            /\ \A x \in r.nodes \cup r.values :
                /\ Family(x[2]) \in stack
                /\ IF want = {} THEN Family(x[2]) = Family(home[n]) ELSE Family(x[2]) \in want
            /\ \A x \in r.nodes : x[1] \notin RO
            /\ r.nodes = {} \/ r.values = {}

\* Peers that get_peers returns were heard of within two periods of the token-peer
\* manager, while the server runs.
PeersAreRecent == ~closed => \A p \in peers : stored[p] <= Day + day

\* A node that has moved is taken into the table at its new address again and
\* again, although it is banned there as long as the table has the old address and
\* every ban of a port of the same IP renews the others: bans run out, and what
\* the table has of a silent address does too.
MovedNodesReturn ==
    \A n \in Node \ RO :
        []<>(<<n, home[n]>> \in table \/ closed \/ Family(home[n]) \notin stack)

=============================================================================
