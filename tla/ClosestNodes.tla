---------------------------- MODULE ClosestNodes ----------------------------
(***************************************************************************)
(* routingTable.Closest: the nodes of the table are pushed, in table       *)
(* order, into a list that is kept sorted by distance and cut at maxnum.   *)
(* Every find_node and get_peers reply, and every search, takes its nodes  *)
(* from here.  rt.lock is held for reading, so the table does not change.  *)
(* The table may hold a node twice, in neighbouring slots: see             *)
(* DuplicatesAreAdjacent in RoutingTable.                                  *)
(***************************************************************************)
EXTENDS Integers, Sequences

CONSTANTS
    NodeID,    \* node IDs
    Dist,      \* the XOR distance to the target, whose order is distcmp
    MaxTable,  \* bound: the slots of the table
    MaxNum     \* bound: the maxnum of a call

ASSUME DistAssumption ==
    /\ Dist \in [NodeID -> Nat]
    /\ \A i, j \in NodeID : Dist[i] = Dist[j] => i = j
    /\ MaxTable \in Nat
    /\ MaxNum \in Nat

VARIABLES
    table,   \* the node IDs of the table, bucket by bucket
    maxnum,  \* the number of nodes asked for
    pos,     \* the slots pushed so far
    nodes    \* nodesByDistance.nodes

cvars == <<table, maxnum, pos, nodes>>

CInit ==
    /\ table \in UNION {[1..n -> NodeID] : n \in 0..MaxTable}
    /\ \A i, j \in DOMAIN table : table[i] = table[j] => \A k \in i..j : table[k] = table[i]
    /\ maxnum \in 0..MaxNum
    /\ pos = 0
    /\ nodes = <<>>

\* sort.Search: ix is the smallest index (counted from 0) whose node is
\* farther than node, the length of the list if there is none.
Search(ix, node) ==
    /\ ix \in 0..Len(nodes)
    /\ \A k \in 1..ix : Dist[nodes[k]] <= Dist[node]
    /\ ix < Len(nodes) => Dist[nodes[ix + 1]] > Dist[node]

\* Mutant: while there is room the node stays where append has put it.
AppendOnly(s, ix, node) ==
    IF Len(s) < maxnum
    THEN Append(s, node)
    ELSE [k \in 1..Len(s) |->
            IF k <= ix THEN s[k] ELSE IF k = ix + 1 THEN node ELSE s[k - 1]]

\* Mutant: a full list drops every further node.
SlideIfRoom(s, ix, node) ==
    IF Len(s) < maxnum
    THEN [k \in 1..(Len(s) + 1) |->
            IF k <= ix THEN s[k] ELSE IF k = ix + 1 THEN node ELSE s[k - 1]]
    ELSE s

\* append if there is room, then slide the nodes from ix on and put node there,
\* unless ix is behind the end of the list.
Slide(s, ix, node) ==
    LET len == IF Len(s) < maxnum THEN Len(s) + 1 ELSE Len(s)
    IN  [k \in 1..len |->
            IF k <= ix THEN s[k] ELSE IF k = ix + 1 THEN node ELSE s[k - 1]]

\* nodesByDistance.push of the next slot.
Push ==
    /\ pos < Len(table)
    /\ pos' = pos + 1
    /\ \E ix \in 0..Len(nodes) :
        /\ Search(ix, table[pos + 1])
        /\ nodes' = Slide(nodes, ix, table[pos + 1])
    /\ UNCHANGED <<table, maxnum>>

CSpec == CInit /\ [][Push]_cvars

-----------------------------------------------------------------------------
(***************************************************************************)
(* Properties                                                              *)
(***************************************************************************)

CTypeOK ==
    /\ table \in Seq(NodeID)
    /\ maxnum \in Nat
    /\ pos \in 0..Len(table)
    /\ nodes \in Seq(NodeID)

\* The list is in the order of distcmp, closest node first: the binary search
\* of the next push depends on it.
SortedByDistance ==
    \A j, k \in DOMAIN nodes : j < k => Dist[nodes[j]] <= Dist[nodes[k]]

\* The list never exceeds maxnum, and is shorter only while the table has not
\* yet supplied maxnum slots.
AsManyAsAsked == Len(nodes) = IF pos < maxnum THEN pos ELSE maxnum

\* The list holds the closest of the slots pushed so far: only table nodes, and
\* a node that was left out is at least as far as every node that was kept.
ClosestAreKept ==
    /\ \A k \in DOMAIN nodes : \E i \in 1..pos : nodes[k] = table[i]
    /\ \A i \in 1..pos :
        \/ \E k \in DOMAIN nodes : nodes[k] = table[i]
        \/ \A k \in DOMAIN nodes : Dist[nodes[k]] <= Dist[table[i]]

\* Closest returns the maxnum closest nodes of the table, or all if it has not
\* so many: none that it leaves out is closer than one it returns, although a
\* push sees only the list of those before.
ClosestAreReturned == AsManyAsAsked /\ ClosestAreKept

=============================================================================
