---------------------------- MODULE MCAlgorithms ----------------------------
(***************************************************************************)
(* The algorithms that run in one call, side by side: Closest with the     *)
(* metric of NodeDistance, for every table of short IDs; the codec of      *)
(* Bencode, for every stream of a few chunks; the conversions of PeerLists *)
(* and the set of AllowedFast.  A behaviour runs one of them.              *)
(***************************************************************************)
EXTENDS ClosestByXor, Bencode, PeerLists, AllowedFast

VARIABLE task

ClosestIdle == table = <<>> /\ maxnum = 0 /\ pos = 0 /\ nodes = <<>>
FastIdle == fset = <<>> /\ cur = 0 /\ drawn = <<>>

AInit ==
    \/ task = "closest" /\ CInit /\ BInit /\ PInit /\ FastIdle
    \/ task = "bencode" /\ ClosestIdle /\ BInit /\ PInit /\ FastIdle
    \/ task = "peers" /\ ClosestIdle /\ BInit /\ PInit /\ FastIdle
    \/ task = "fast" /\ ClosestIdle /\ BInit /\ PInit /\ FInit

ANext ==
    /\ \/ task = "closest" /\ Push /\ UNCHANGED <<chunks, pvars, fvars>>
       \/ task = "bencode" /\ Arrive /\ UNCHANGED <<cvars, pvars, fvars>>
       \/ task = "peers" /\ PNext /\ UNCHANGED <<cvars, chunks, fvars>>
       \/ task = "fast" /\ Draw /\ UNCHANGED <<cvars, chunks, pvars>>
    /\ UNCHANGED task

ASpec == AInit /\ [][ANext]_<<task, cvars, chunks, pvars, fvars>>

-----------------------------------------------------------------------------
(* Closest.                                                                *)

\* The target of the search.
MCTarget == [i \in 1..Bytes |-> i % Powers[Bits]]

\* The rank of an ID in the order of distcmp, which is all that Closest knows
\* of distances.
MCDist == [id \in NodeID |-> Cardinality({other \in NodeID : Distcmp(Target, other, id) < 0})]

-----------------------------------------------------------------------------
(* Bencode: tokens, also misspelt or not a number.                         *)

MCInfoKey == <<"1">>
MCCommentKey == <<"0">>

MCChunk ==
    {<<"l">>, <<"d">>, <<"e">>, <<"0", ":">>, <<"-", "0", ":">>, <<"1", ":", "0">>,
     <<"0", "1", ":", "1">>, <<"i", "e">>, <<"i", "1", "e">>, <<"i", "-", "0", "1", "e">>}

-----------------------------------------------------------------------------
(* PeerLists.                                                              *)

\* Paths up to twice as long as a byte can tell.
MCPaths == {[i \in 1..n |-> 1 + (i % 2)] : n \in 1..(2 * 2^ByteBits)}

IPv4 == <<"a">>
IPv4in16 == <<"ffff", "b">>
IPv6 == <<"g", "c">>

MCRequests ==
    [infohash : {"t"}, uploaded : {1}, downloaded : {2}, left : {-1, 3}, event : {0, 2},
     key : {-1, 0, 1}, numwant : {-1, 0, 1}, port : {0, 1}, ip : {<<>>, IPv4in16, IPv6}]

SeqsUpTo(S, n) == UNION {[1..k -> S] : k \in 0..n}

MCPeer == [id : {"p"}, host : {<<"ip", ip>> : ip \in {IPv4, IPv4in16, IPv6}} \cup {Name("n")}, port : {1}]

MCAnswers ==
    [interval : {1}, leechers : {2}, seeders : {3}, peers : SeqsUpTo(MCPeer, 2), peers6 : SeqsUpTo(MCPeer, 1)]

MCStats == [t \in Torrents |->
    IF t = "t" THEN [seeders |-> 1, completed |-> 2, leechers |-> 3]
    ELSE [seeders |-> 4, completed |-> 5, leechers |-> 6]]

MCNodes(ips) == SeqsUpTo([id : {"x", "y"}, addr : [ip : ips, port : {1}]], 2)

MCNodeLists == [nodes : MCNodes({IPv4, IPv4in16}), nodes6 : MCNodes({IPv6, <<"g", "d">>})]

=============================================================================
