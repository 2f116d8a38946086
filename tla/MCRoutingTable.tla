--------------------------- MODULE MCRoutingTable ---------------------------
(***************************************************************************)
(* Instances of RoutingTable for TLC.                                      *)
(***************************************************************************)
EXTENDS RoutingTable, TLC

CONSTANTS r, a, b, c, d, x, y

\* Every node in one bucket, the server's own ID too: bucketid puts an equal ID
\* into the last bucket.
OneBucket == [id \in ID |-> 1]

\* a and b share the first bucket, c and the server's own ID are in the second.
TwoBuckets == [id \in ID |-> IF id \in {a, b, d} THEN 1 ELSE 2]

\* In one bucket the remote nodes, and the addresses, are interchangeable.
Symmetry == Permutations({a, b, c}) \cup Permutations({x, y})

=============================================================================
