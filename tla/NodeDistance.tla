---------------------------- MODULE NodeDistance ----------------------------
(***************************************************************************)
(* The XOR metric of dht/routing_table.go: distcmp, by which Closest sorts *)
(* nodes, and bucketid, which chooses the bucket of a node.  An ID is a    *)
(* list of Bytes bytes of Bits bits; in the code 20 bytes of 8 bits.       *)
(***************************************************************************)
EXTENDS Integers

CONSTANTS
    Bytes,  \* len(metainfo.Hash)
    Bits    \* bits of a byte

ASSUME SizeAssumption == Bytes \in Nat \ {0} /\ Bits \in Nat \ {0}

Powers == LET p[n \in 0..Bits] == IF n = 0 THEN 1 ELSE 2 * p[n - 1] IN p

Byte == 0..(Powers[Bits] - 1)
Hash == [1..Bytes -> Byte]

\* v >> k, for each k, and the bit that this puts last.
Shifts(v) == LET s[k \in 0..Bits] == IF k = 0 THEN v ELSE s[k - 1] \div 2 IN s
BitOf(v, k) == Shifts(v)[k] % 2

\* a ^ b, from the highest bit on.
Xor(a, b) ==
    LET x[n \in 0..Bits] ==
            IF n = 0 THEN 0
            ELSE 2 * x[n - 1] + (IF BitOf(a, Bits - n) = BitOf(b, Bits - n) THEN 0 ELSE 1)
    IN  x[Bits]

\* The byte at which the loop over the bytes of two IDs stops.
FirstByte(diff) == CHOOSE i \in diff : \A j \in diff : i <= j

\* distcmp: the first byte whose distances differ decides.
Distcmp(target, a, b) ==
    LET da == [i \in 1..Bytes |-> Xor(a[i], target[i])]
        db == [i \in 1..Bytes |-> Xor(b[i], target[i])]
        diff == {i \in 1..Bytes : da[i] # db[i]}
    IN  IF diff = {} THEN 0
        ELSE IF da[FirstByte(diff)] > db[FirstByte(diff)] THEN 1 ELSE -1

\* Mutant: the cases of the switch are in the opposite order.
LowestBit(v) ==
    CHOOSE k \in 0..(Bits - 1) : BitOf(v, k) = 1 /\ \A j \in 0..(k - 1) : BitOf(v, j) = 0

\* The switch of bucketid: the first of 0x80, 0x40, ..., 0x01 that is set in v.
HighestBit(v) ==
    CHOOSE k \in 0..(Bits - 1) : BitOf(v, k) = 1 /\ \A j \in (k + 1)..(Bits - 1) : BitOf(v, j) = 0

\* bucketid: the byte and the highest bit of it at which the IDs differ; for
\* equal IDs the loop ends at the last byte with bitDiff zero.
Bucketid(ownerid, nid) ==
    LET v == [i \in 1..Bytes |-> Xor(ownerid[i], nid[i])]
        diff == {i \in 1..Bytes : v[i] # 0}
        at == IF diff = {} THEN Bytes ELSE FirstByte(diff)
        bitDiff == IF diff = {} THEN 0 ELSE HighestBit(v[at])
    IN  (at - 1) * Bits + (Bits - 1 - bitDiff)

=============================================================================
