------------------------------ MODULE PeerSearch ------------------------------
(***************************************************************************)
(* The searches of the DHT server, in dht/dht_server.go: GetPeers and      *)
(* FindNode with the handlers of their responses, AnnouncePeer, and the    *)
(* tokens kept by tokenPeerManager of dht/peer_manager.go.                 *)
(*                                                                         *)
(* Each response is handled by a goroutine of its own; the handlers share  *)
(* the routing table (AddNode is atomic under its lock) and the arrays     *)
(* behind the Visited slices, which they append to without a lock.  An     *)
(* append to a slice with spare capacity writes into the shared array.     *)
(*                                                                         *)
(* The routing table is the set of its nodes; that it may hold a node      *)
(* twice is the subject of RoutingTable and ClosestNodes.  A node that is  *)
(* not in it is added, or discarded because its bucket is full.  A node    *)
(* that is seen during a search, which takes less than badTimeout, stays;  *)
(* a bad one may be evicted or removed at any time.                        *)
(***************************************************************************)
EXTENDS Integers, FiniteSets, Sequences

CONSTANTS
    Node,         \* the IDs of remote nodes, by their distance to the target
    Known,        \* the nodes in the routing table at the beginning,
    Stale,        \* and those of them that are bad
    Target,       \* the infohash, or the ID, that is searched for
    K,            \* Config.K
    SearchDepth,  \* Config.SearchDepth
    MaxNamed,     \* the largest number of nodes in a response
    Granting,     \* the nodes whose responses to get_peers carry a token
    ReadOnly,     \* the nodes whose responses say that they are read-only (BEP 43)
    Bootstrap,    \* the nodes FindNode may be called with
    Calls         \* the calls of the server's API that are made, once each

ASSUME ConstantsAssumption ==
    /\ Node \subseteq Nat /\ IsFiniteSet(Node)
    /\ Known \subseteq Node /\ Stale \subseteq Known
    /\ Target \in Nat
    /\ K \in Nat \ {0}
    /\ SearchDepth \in Nat \ {0}
    /\ MaxNamed \in Nat
    /\ Granting \subseteq Node /\ ReadOnly \subseteq Node /\ Bootstrap \subseteq Node
    /\ Calls \subseteq {"get_peers", "find_node", "announce_peer"}

VARIABLES
    table,     \* the nodes in the routing table,
    bad,       \* and those of them that are bad
    trans,     \* the transactions of the searches, in the order they were made
    heap,      \* the arrays behind the Visited slices; 0 is an unused element
    tokens,    \* the keys of tokenPeerManager.peers: pairs of a hash and a node
    sent,      \* the nodes AnnouncePeer has sent a query to, when it was called
    started,   \* the searches that were started
    asked,     \* how often each node was sent a get_peers query (history)
    granted    \* the nodes that have sent a token (history)

vars == <<table, bad, trans, heap, tokens, sent, started, asked, granted>>

Slice == [array : Nat, len : Nat]

Init ==
    /\ table = Known
    /\ bad = Stale
    /\ trans = <<>>
    /\ heap = <<>>
    /\ tokens = {}
    /\ sent = {}
    /\ started = {}
    /\ asked = [n \in Node |-> 0]
    /\ granted = {}

-----------------------------------------------------------------------------
(***************************************************************************)
(* Slices                                                                  *)
(***************************************************************************)

Elements(s) == {heap[s.array][k] : k \in 1..s.len}

\* Contains of metainfo.Hashes.
Contains(s, n) == s.len > 0 /\ n \in Elements(s)

\* External: append of Go.  A full array is copied to one of twice the size.
HasSpare(s) == s.len > 0 /\ s.len < Len(heap[s.array])

Appended(s) ==
    IF HasSpare(s) THEN [s EXCEPT !.len = @ + 1] ELSE [array |-> Len(heap) + 1, len |-> s.len + 1]

HeapWith(s, n) ==
    IF HasSpare(s)
    THEN [heap EXCEPT ![s.array] = [@ EXCEPT ![s.len + 1] = n]]
    ELSE Append(heap, [k \in 1..(IF s.len = 0 THEN 1 ELSE 2 * s.len) |->
                         IF k <= s.len THEN heap[s.array][k] ELSE IF k = s.len + 1 THEN n ELSE 0])

-----------------------------------------------------------------------------
(***************************************************************************)
(* Starting a search                                                       *)
(***************************************************************************)

\* The K nodes of the table closest to the target.
Closest == {n \in table : Cardinality({m \in table : m < n}) < K}

Transaction(q, n, depth, ids, level) ==
    [query |-> q, node |-> n, depth |-> depth, visited |-> ids, level |-> level,
     pc |-> "waiting", todo |-> {}, nodes |-> {}, found |-> FALSE]

\* The elements of a finite set of numbers in ascending order.
Ascending(S) == [k \in 1..Cardinality(S) |-> CHOOSE n \in S : Cardinality({m \in S : m < n}) = k - 1]

\* GetPeers asks the closest nodes, if there are any.
GetPeers ==
    /\ "get_peers" \in Calls \ started
    /\ started' = started \cup {"get_peers"}
    /\ IF Closest = {} THEN UNCHANGED <<heap, trans, asked>>
       ELSE LET ids == Ascending(Closest) IN
            /\ heap' = Append(heap, ids)
            /\ trans' = trans \o
                 [k \in 1..Len(ids) |->
                    Transaction("get_peers", ids[k], SearchDepth,
                                [array |-> Len(heap) + 1, len |-> Len(ids)], 1)]
            /\ asked' = [n \in Node |-> IF n \in Closest THEN asked[n] + 1 ELSE asked[n]]
    /\ UNCHANGED <<table, bad, tokens, sent, granted>>

\* FindNode asks the given node; findNode does not store its depth in the
\* transaction.  Bound: it is called before the other calls, as by Bootstrap.
FindNode(n) ==
    /\ "find_node" \in Calls
    /\ started = {}
    /\ started' = started \cup {"find_node"}
    /\ trans' = Append(trans, Transaction("find_node", n, 0, [array |-> 0, len |-> 0], 1))
    /\ UNCHANGED <<table, bad, heap, tokens, sent, asked, granted>>

-----------------------------------------------------------------------------
(***************************************************************************)
(* Handling a response: onGetPeersResp and onFindNodeResp                  *)
(***************************************************************************)

\* The transaction ends with a timeout or an error.
Finish(i) ==
    /\ trans[i].pc = "waiting"
    /\ trans' = [trans EXCEPT ![i].pc = "done"]
    /\ UNCHANGED <<table, bad, heap, tokens, sent, started, asked, granted>>

\* A response: handleMessage adds the responding node, or finds no room for it;
\* the token is stored under the ID of the responding node; the nodes closer are
\* followed if there are no peers and the depth allows.  A read-only node is not
\* added, and the nodes it names are not either; nodes that are not looked at
\* are left out of the response.
Respond(i, closer, peers) ==
    LET t == trans[i]
        ro == t.node \in ReadOnly
        on == ~peers /\ t.depth > 1 /\ ~ro IN
    /\ t.pc = "waiting"
    /\ on \/ closer = {}
    /\ table' \in {table} \cup (IF ro THEN {} ELSE {table \cup {t.node}})
    /\ bad' = IF ro THEN bad ELSE bad \ {t.node}
    /\ IF t.query = "get_peers" /\ t.node \in Granting
       THEN /\ tokens' = tokens \cup {<<t.node, t.node>>}
            /\ granted' = granted \cup {t.node}
       ELSE UNCHANGED <<tokens, granted>>
    /\ trans' = [trans EXCEPT ![i].depth = IF peers THEN @ ELSE @ - 1,
                              ![i].pc = IF on THEN "follow" ELSE "done",
                              ![i].todo = IF on THEN closer ELSE {}]
    /\ UNCHANGED <<heap, sent, started, asked>>

\* Mutant: a node that is known already is followed too.
FollowKnown(i, n) ==
    LET t == trans[i] IN
    /\ t.pc = "follow"
    /\ n \in t.todo
    /\ \/ /\ ~Contains(t.visited, n)
          /\ table' = table \cup {n}
          /\ heap' = HeapWith(t.visited, n)
          /\ trans' = [trans EXCEPT ![i].todo = @ \ {n}, ![i].found = @ \/ n = Target,
                                    ![i].nodes = @ \cup {n}, ![i].visited = Appended(@)]
       \/ /\ trans' = [trans EXCEPT ![i].todo = @ \ {n}, ![i].found = @ \/ n = Target]
          /\ UNCHANGED <<table, heap>>
    /\ bad' = IF Contains(t.visited, n) THEN bad ELSE bad \ {n}
    /\ UNCHANGED <<tokens, sent, started, asked, granted>>

\* One node of the response: it is followed if addNode2 has just added it, and
\* not if it was visited, is known, or finds no room.
Follow(i, n) ==
    LET t == trans[i] IN
    /\ t.pc = "follow"
    /\ n \in t.todo
    /\ \/ /\ ~Contains(t.visited, n)
          /\ n \notin table
          /\ table' = table \cup {n}
          /\ heap' = HeapWith(t.visited, n)
          /\ trans' = [trans EXCEPT ![i].todo = @ \ {n}, ![i].found = @ \/ n = Target,
                                    ![i].nodes = @ \cup {n}, ![i].visited = Appended(@)]
       \/ /\ trans' = [trans EXCEPT ![i].todo = @ \ {n}, ![i].found = @ \/ n = Target]
          /\ UNCHANGED <<table, heap>>
    /\ bad' = IF Contains(t.visited, n) THEN bad ELSE bad \ {n}
    /\ UNCHANGED <<tokens, sent, started, asked, granted>>

\* The depth of the queries a handler makes.
NextDepth(t) == t.depth

\* The next of the nodes that were added is asked, unless the target was found.
Ask(i, n) ==
    LET t == trans[i] IN
    /\ t.pc = "follow"
    /\ t.todo = {}
    /\ ~t.found
    /\ n \in t.nodes
    /\ trans' = Append([trans EXCEPT ![i].nodes = @ \ {n}],
                       Transaction(t.query, n, NextDepth(t), t.visited, t.level + 1))
    /\ asked' = [asked EXCEPT ![n] = @ + 1]
    /\ UNCHANGED <<table, bad, heap, tokens, sent, started, granted>>

\* Mutant: a handler that has found the target waits to ask its nodes.
ReturnWithoutNodes(i) ==
    LET t == trans[i] IN
    /\ t.pc = "follow"
    /\ t.todo = {}
    /\ t.nodes = {}
    /\ trans' = [trans EXCEPT ![i].pc = "done"]
    /\ UNCHANGED <<table, bad, heap, tokens, sent, started, asked, granted>>

Return(i) ==
    LET t == trans[i] IN
    /\ t.pc = "follow"
    /\ t.todo = {}
    /\ t.found \/ t.nodes = {}
    /\ trans' = [trans EXCEPT ![i].pc = "done"]
    /\ UNCHANGED <<table, bad, heap, tokens, sent, started, asked, granted>>

-----------------------------------------------------------------------------
\* AnnouncePeer asks the closest nodes that have a token stored under the
\* infohash.
AnnouncePeer ==
    /\ "announce_peer" \in Calls \ started
    /\ started' = started \cup {"announce_peer"}
    /\ sent' = {n \in Closest : <<Target, n>> \in tokens}
    /\ UNCHANGED <<table, bad, trans, heap, tokens, asked, granted>>

\* A bad node leaves the table: AddNode puts another in its place, or the check
\* of the table removes it.
Forget(n) ==
    /\ n \in bad
    /\ table' = table \ {n}
    /\ bad' = bad \ {n}
    /\ UNCHANGED <<trans, heap, tokens, sent, started, asked, granted>>

Handle(i) ==
    \/ \E n \in Node : Follow(i, n) \/ Ask(i, n)
    \/ Return(i)

Next ==
    \/ GetPeers
    \/ \E n \in Bootstrap : FindNode(n)
    \/ \E n \in Node : Forget(n)
    \/ AnnouncePeer
    \/ \E i \in DOMAIN trans :
        \/ Finish(i)
        \/ \E closer \in SUBSET Node, peers \in BOOLEAN :
            Cardinality(closer) <= MaxNamed /\ Respond(i, closer, peers)
        \/ Handle(i)

Spec == Init /\ [][Next]_vars

\* A goroutine that handles a response goes on, and a transaction is timed out
\* if it is not answered.
FairSpec ==
    /\ Spec
    /\ WF_vars(\E i \in DOMAIN trans : Handle(i))
    /\ WF_vars(\E i \in DOMAIN trans : Finish(i))

-----------------------------------------------------------------------------
(***************************************************************************)
(* Properties                                                              *)
(***************************************************************************)

Trans ==
    [query : {"get_peers", "find_node"}, node : Node, depth : -1..SearchDepth, visited : Slice,
     level : Nat, pc : {"waiting", "follow", "done"}, todo : SUBSET Node, nodes : SUBSET Node,
     found : BOOLEAN]

TypeOK ==
    /\ table \in SUBSET Node
    /\ bad \in SUBSET table
    /\ trans \in Seq(Trans)
    /\ heap \in Seq(Seq(Node \cup {0}))
    /\ tokens \subseteq Node \X Node
    /\ sent \in SUBSET Node
    /\ started \subseteq Calls
    /\ asked \in [Node -> Nat]
    /\ granted \in SUBSET Node

\* However many responses are handled at once and name the same node, a search
\* asks it once: only one AddNode returns NodeAdded for it, and the nodes that
\* may leave the table are in the part of Visited that is never overwritten.
NobodyIsAskedTwice == \A n \in Node : asked[n] <= 1

\* A search comes to an end, and goes no further than SearchDepth queries from
\* its first, whatever the responses name.
SearchEnds ==
    /\ [](\A i \in DOMAIN trans : trans[i].level <= SearchDepth)
    /\ []<>(\A i \in DOMAIN trans : trans[i].pc = "done")

\* AnnouncePeer: "announces the torrent infohash to the K closest nodes, and
\* returns the nodes to which it sends the announce_peer query".  It reaches
\* those that have sent a token, which krpc/message.go calls "used for future
\* announce_peer".  TLC refutes this: tokens are stored under the ID of the node
\* and looked up under the infohash (README).
AnnouncesWithTokens ==
    [][AnnouncePeer => Closest \cap granted \subseteq sent']_vars

=============================================================================
