---------------------------- MODULE ClosestByXor ----------------------------
(***************************************************************************)
(* ClosestNodes with the metric of NodeDistance: routingTable.Closest as   *)
(* it is, with distcmp for the order and bucketid for the table.           *)
(***************************************************************************)
EXTENDS ClosestNodes, NodeDistance

CONSTANT Target   \* the target of the search

\* The order of the distances is that of distcmp, which is all that Closest knows
\* of them.
ASSUME XorAssumption ==
    /\ Target \in Hash
    /\ NodeID = Hash
    /\ \A i, j \in NodeID : Dist[i] < Dist[j] <=> Distcmp(Target, i, j) < 0

-----------------------------------------------------------------------------
(***************************************************************************)
(* Properties                                                              *)
(***************************************************************************)

\* The bit at position p of an ID, counted from the most significant.
BitAt(id, p) == BitOf(id[p \div Bits + 1], Bits - 1 - (p % Bits))

Position == 0..(Bytes * Bits - 1)

\* The result of Closest is sorted by the XOR distance read as a big-endian
\* number: of two neighbours that differ, the first agrees with the target at
\* the first bit where they do.  distcmp compares bytes, push compares by
\* distcmp and slides: only together do they give the order of BEP 5.
SortedByXor ==
    \A k \in 1..(Len(nodes) - 1) :
        LET split == {p \in Position : BitAt(nodes[k], p) # BitAt(nodes[k + 1], p)}
        IN  \A p \in split : (\A q \in split : p <= q) => BitAt(nodes[k], p) = BitAt(Target, p)

\* bucketid and distcmp agree: for a server of any ID, a node in a later bucket
\* of its table is strictly closer to it than one in an earlier bucket.  The two
\* nodes are the first slot and the slot pushed last.
LaterBucketIsCloser ==
    pos > 0 => \A owner \in Hash :
        Bucketid(owner, table[pos]) > Bucketid(owner, table[1])
            => Distcmp(owner, table[pos], table[1]) = -1

=============================================================================
