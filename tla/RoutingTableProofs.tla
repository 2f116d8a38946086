------------------------- MODULE RoutingTableProofs -------------------------
(***************************************************************************)
(* Proofs about RoutingTable, for every set of IDs and addresses, every    *)
(* number and size of buckets and all timeouts; and about ClosestNodes,    *)
(* which is what routingTable.Closest does with the slots, and the metric  *)
(* of NodeDistance by which it sorts them, for IDs of any length.          *)
(***************************************************************************)
EXTENDS RoutingTable, ClosestByXor, SequenceTheorems, WellFoundedInduction, TLAPS

-----------------------------------------------------------------------------
(***************************************************************************)
(* What the operators on the slots of a bucket return                      *)
(***************************************************************************)

\* The constants as the provers use them: Cap is a natural number.
LEMMA CapNat == Cap \in Nat /\ Cap > Bad /\ MaxLag < Cap
BY ConstantsAssumption DEF Cap

\* Time changes the age of a node, never its identity, and equal nodes age
\* equally.
LEMMA AgedNodes ==
    ASSUME NEW s \in Seq(Node)
    PROVE  /\ Aged(s) \in Seq(Node)
           /\ Len(Aged(s)) = Len(s)
           /\ DOMAIN Aged(s) = 1..Len(s)
           /\ \A k \in 1..Len(s) : /\ Aged(s)[k].id = s[k].id
                                   /\ Aged(s)[k].addr = s[k].addr
           /\ \A j, k \in 1..Len(s) : s[j] = s[k] => Aged(s)[j] = Aged(s)[k]
<1>1. /\ Len(s) \in Nat
      /\ DOMAIN s = 1..Len(s)
      /\ \A k \in 1..Len(s) : s[k] \in Node
    OBVIOUS
<1>2. \A k \in 1..Len(s) : [s[k] EXCEPT !.age = Older(s[k].age)] \in Node
    <2> SUFFICES ASSUME NEW n \in Node
                 PROVE  [n EXCEPT !.age = Older(n.age)] \in Node
        BY <1>1
    <2>1. Older(n.age) \in 0..Cap
        BY CapNat DEF Node, Older
    <2> QED
        BY <2>1 DEF Node
<1>3. Aged(s) \in Seq(Node)
    BY <1>1, <1>2, IsASeq DEF Aged
<1>4. DOMAIN Aged(s) = 1..Len(s) /\ Len(Aged(s)) = Len(s)
    BY <1>1, <1>3 DEF Aged
<1>5. \A k \in 1..Len(s) : Aged(s)[k] = [s[k] EXCEPT !.age = Older(s[k].age)]
    BY <1>1 DEF Aged
<1>6. \A k \in 1..Len(s) : Aged(s)[k].id = s[k].id /\ Aged(s)[k].addr = s[k].addr
    BY <1>1, <1>5, Zenon DEF Node
<1> QED
    BY <1>3, <1>4, <1>5, <1>6

\* copy(nodes[i:], nodes[i+1:]) keeps the length, invents no node and loses
\* at most the node at i.
LEMMA CopyDownNodes ==
    ASSUME NEW s \in Seq(Node), NEW i \in 1..Len(s)
    PROVE  /\ CopyDown(s, i) \in Seq(Node)
           /\ Len(CopyDown(s, i)) = Len(s)
           /\ \A k \in 1..Len(s) : \E j \in 1..Len(s) : CopyDown(s, i)[k] = s[j]
           /\ \A j \in 1..Len(s) : j = i \/ \E k \in 1..Len(s) : CopyDown(s, i)[k] = s[j]
<1>1. /\ Len(s) \in Nat
      /\ DOMAIN s = 1..Len(s)
      /\ \A k \in 1..Len(s) : s[k] \in Node
    OBVIOUS
<1> DEFINE e(k) == IF i <= k /\ k < Len(s) THEN s[k + 1] ELSE s[k]
<1>2. \A k \in 1..Len(s) : e(k) \in Node /\ \E j \in 1..Len(s) : e(k) = s[j]
    BY <1>1
<1>3. CopyDown(s, i) = [k \in 1..Len(s) |-> e(k)]
    BY <1>1 DEF CopyDown
<1>4. [k \in 1..Len(s) |-> e(k)] \in Seq(Node)
    <2> HIDE DEF e
    <2> QED  BY <1>1, <1>2, IsASeq
<1>5. CopyDown(s, i) \in Seq(Node) /\ Len(CopyDown(s, i)) = Len(s)
    BY <1>1, <1>3, <1>4
<1>6. \A k \in 1..Len(s) : CopyDown(s, i)[k] = e(k)
    BY <1>3
<1>7. ASSUME NEW j \in 1..Len(s), j # i
      PROVE  \E k \in 1..Len(s) : CopyDown(s, i)[k] = s[j]
    <2>1. CASE j < i
        <3>1. CopyDown(s, i)[j] = s[j]
            BY <1>1, <1>6, <2>1
        <3> QED  BY <3>1
    <2>2. CASE j > i
        <3>1. j - 1 \in 1..Len(s) /\ CopyDown(s, i)[j - 1] = s[j]
            BY <1>1, <1>6, <2>2
        <3> QED  BY <3>1
    <2> QED  BY <1>1, <1>7, <2>1, <2>2
<1> QED
    BY <1>2, <1>5, <1>6, <1>7

\* append(nodes, n) puts n behind the other slots.
LEMMA AppendedNodes ==
    ASSUME NEW s \in Seq(Node), NEW n \in Node
    PROVE  /\ Append(s, n) \in Seq(Node)
           /\ Len(Append(s, n)) = Len(s) + 1
           /\ \A k \in 1..Len(s) : Append(s, n)[k] = s[k]
           /\ Append(s, n)[Len(s) + 1] = n
OBVIOUS

\* delNodeByIndex shortens the bucket and invents no node.
LEMMA RemovedNodes ==
    ASSUME NEW s \in Seq(Node), NEW i \in 1..Len(s)
    PROVE  /\ RemovePosition(s, i) \in Seq(Node)
           /\ Len(RemovePosition(s, i)) = Len(s) - 1
           /\ \A k \in 1..Len(RemovePosition(s, i)) :
                \E j \in 1..Len(s) : RemovePosition(s, i)[k] = s[j]
<1> DEFINE e(k) == IF k < i THEN s[k] ELSE s[k + 1]
<1>1. /\ Len(s) \in Nat
      /\ Len(s) - 1 \in Nat
      /\ \A k \in 1..Len(s) : s[k] \in Node
    OBVIOUS
<1>2. \A k \in 1..(Len(s) - 1) : e(k) \in Node /\ \E j \in 1..Len(s) : e(k) = s[j]
    BY <1>1
<1>3. RemovePosition(s, i) = [k \in 1..(Len(s) - 1) |-> e(k)]
    BY DEF RemovePosition
<1> HIDE DEF e
<1>4. [k \in 1..(Len(s) - 1) |-> e(k)] \in Seq(Node)
    BY <1>1, <1>2, IsASeq
<1> QED
    BY <1>1, <1>2, <1>3, <1>4

-----------------------------------------------------------------------------
(***************************************************************************)
(* What bucket.AddNode does to a table                                     *)
(***************************************************************************)

SlotsType == slots \in [Bucket -> Seq(Node)] /\ bktAge \in [Bucket -> 0..Cap]

\* Every slot after bucket.AddNode is the added node or was there before, no
\* other slot has the ID of a node that was added or updated, only a bad node
\* loses its slot, and a known node is updated only under its own address.
AddNodeEffect(b, n) ==
    /\ \A c \in Bucket : c # b => slots'[c] = slots[c]
    /\ \A k \in 1..Len(slots'[b]) :
        slots'[b][k] = n \/ \E j \in 1..Len(slots[b]) : slots'[b][k] = slots[b][j]
    /\ \/ slots'[b] = slots[b]
       \/ \A k \in 1..Len(slots'[b]) : slots'[b][k].id = n.id => slots'[b][k] = n
    /\ \A j \in 1..Len(slots[b]) :
        \/ slots[b][j].age > Bad
        \/ \E k \in 1..Len(slots'[b]) : slots'[b][k].id = slots[b][j].id
    /\ \/ slots'[b] = slots[b]
       \/ \A j \in 1..Len(slots[b]) : slots[b][j].id # n.id
       \/ \E j \in 1..Len(slots[b]) : slots[b][j].id = n.id /\ slots[b][j].addr = n.addr

\* bucket.AddNode has that effect in each of its five cases.
LEMMA BucketAddNodeEffect ==
    ASSUME SlotsType, NEW b \in Bucket, NEW n \in Node, BucketAddNode(b, n)
    PROVE  SlotsType' /\ AddNodeEffect(b, n)
<1>1. /\ slots[b] \in Seq(Node)
      /\ Len(slots[b]) \in Nat
      /\ DOMAIN slots[b] = 1..Len(slots[b])
      /\ \A k \in 1..Len(slots[b]) : slots[b][k] \in Node
    BY DEF SlotsType
<1>2. \A m \in Node : m.age \in 0..Cap
    BY DEF Node
<1>3. ASSUME NEW t \in Seq(Node), slots' = [slots EXCEPT ![b] = t],
             bktAge' = [bktAge EXCEPT ![b] = n.age]
      PROVE  SlotsType' /\ slots'[b] = t /\ \A c \in Bucket : c # b => slots'[c] = slots[c]
    BY <1>2, <1>3 DEF SlotsType
<1>4. CASE UpdateNode(b, n)
    <2> DEFINE e(k) == IF slots[b][k].id = n.id THEN n ELSE slots[b][k]
               t == [k \in 1..Len(slots[b]) |-> e(k)]
    <2>1. \A k \in 1..Len(slots[b]) : e(k) \in Node
        BY <1>1
    <2>2. t \in Seq(Node)
        <3> HIDE DEF e
        <3> QED  BY <1>1, <2>1, IsASeq
    <2>3. Len(t) = Len(slots[b]) /\ \A k \in 1..Len(slots[b]) : t[k] = e(k)
        BY <1>1, <2>2
    <2>4. slots' = [slots EXCEPT ![b] = t] /\ bktAge' = [bktAge EXCEPT ![b] = n.age]
        BY <1>1, <1>4 DEF UpdateNode
    <2> HIDE DEF t
    <2>5. SlotsType' /\ slots'[b] = t /\ \A c \in Bucket : c # b => slots'[c] = slots[c]
        BY <1>3, <2>2, <2>4, Zenon
    <2>6. \E j \in 1..Len(slots[b]) : slots[b][j].id = n.id /\ slots[b][j].addr = n.addr
        BY <1>1, <1>4 DEF UpdateNode
    <2> QED
        BY <2>3, <2>5, <2>6 DEF AddNodeEffect
<1>5. CASE UNCHANGED <<slots, bktAge>>
    BY <1>5 DEF SlotsType, AddNodeEffect
<1>6. CASE AppendNode(b, n)
    <2> DEFINE t == Append(slots[b], n)
    <2>1. /\ t \in Seq(Node)
          /\ Len(t) = Len(slots[b]) + 1
          /\ \A k \in 1..Len(slots[b]) : t[k] = slots[b][k]
          /\ t[Len(slots[b]) + 1] = n
        BY <1>1
    <2>2. slots' = [slots EXCEPT ![b] = t] /\ bktAge' = [bktAge EXCEPT ![b] = n.age]
        BY <1>6 DEF AppendNode
    <2> HIDE DEF t
    <2>3. SlotsType' /\ slots'[b] = t /\ \A c \in Bucket : c # b => slots'[c] = slots[c]
        BY <1>3, <2>1, <2>2, Zenon
    <2>4. \A k \in 1..Len(slots[b]) : slots[b][k].id # n.id
        BY <1>1, <1>6 DEF AppendNode, Holds
    <2>5. \A k \in 1..Len(t) : k \in 1..Len(slots[b]) \/ k = Len(slots[b]) + 1
        BY <1>1, <2>1
    <2>6. \A k \in 1..Len(slots[b]) : k \in 1..Len(t)
        BY <1>1, <2>1
    <2>7. \A j \in 1..Len(slots[b]) : \E k \in 1..Len(t) : t[k].id = slots[b][j].id
        BY <2>1, <2>6
    <2>8. \A k \in 1..Len(t) : t[k] = n \/ \E j \in 1..Len(slots[b]) : t[k] = slots[b][j]
        BY <2>1, <2>5
    <2>9. \A k \in 1..Len(t) : t[k].id = n.id => t[k] = n
        BY <2>4, <2>8
    <2> QED
        BY <2>3, <2>4, <2>7, <2>8, <2>9 DEF AddNodeEffect
<1>7. CASE ReplaceBadNode(b, n)
    <2>1. PICK i \in 1..Len(slots[b]) :
            /\ IsBad(slots[b][i], n.age)
            /\ slots' = [slots EXCEPT ![b] = Append(CopyDown(slots[b], i), n)]
        BY <1>1, <1>7, Zenon DEF ReplaceBadNode
    <2> DEFINE u == CopyDown(slots[b], i)
               t == Append(u, n)
    <2>2. /\ u \in Seq(Node)
          /\ Len(u) = Len(slots[b])
          /\ \A k \in 1..Len(slots[b]) : \E j \in 1..Len(slots[b]) : u[k] = slots[b][j]
          /\ \A j \in 1..Len(slots[b]) :
                j = i \/ \E k \in 1..Len(slots[b]) : u[k] = slots[b][j]
        BY <1>1, CopyDownNodes, Zenon
    <2> HIDE DEF u
    <2>3. /\ t \in Seq(Node)
          /\ Len(t) = Len(slots[b]) + 1
          /\ \A k \in 1..Len(slots[b]) : t[k] = u[k]
          /\ t[Len(slots[b]) + 1] = n
        <3>1. u \in Seq(Node) /\ Len(u) = Len(slots[b])
            BY <2>2
        <3>2. /\ t \in Seq(Node)
              /\ Len(t) = Len(u) + 1
              /\ \A k \in 1..Len(u) : t[k] = u[k]
              /\ t[Len(u) + 1] = n
            BY <3>1, AppendedNodes
        <3> QED  BY ONLY <3>1, <3>2, Zenon
    <2>4. slots' = [slots EXCEPT ![b] = t] /\ bktAge' = [bktAge EXCEPT ![b] = n.age]
        BY <1>7, <2>1, Zenon DEF ReplaceBadNode, u
    <2> HIDE DEF t
    <2>5. SlotsType' /\ slots'[b] = t /\ \A c \in Bucket : c # b => slots'[c] = slots[c]
        BY <1>3, <2>3, <2>4, Zenon
    <2>6. \A k \in 1..Len(slots[b]) : slots[b][k].id # n.id
        BY <1>1, <1>7 DEF ReplaceBadNode, Holds
    <2>7. \A k \in 1..Len(t) : k \in 1..Len(slots[b]) \/ k = Len(slots[b]) + 1
        BY <1>1, <2>3
    <2>8. \A k \in 1..Len(slots[b]) : k \in 1..Len(t)
        BY <1>1, <2>3
    <2>9. slots[b][i].age > Bad
        BY <1>1, <1>2, <2>1, ConstantsAssumption, CapNat DEF IsBad
    <2>10. \A j \in 1..Len(slots[b]) :
            slots[b][j].age > Bad \/ \E k \in 1..Len(t) : t[k].id = slots[b][j].id
        <3> TAKE j \in 1..Len(slots[b])
        <3>1. CASE j = i
            BY <2>9, <3>1
        <3>2. CASE j # i
            <4>1. PICK k \in 1..Len(slots[b]) : u[k] = slots[b][j]
                BY <2>2, <3>2
            <4>2. k \in 1..Len(t) /\ t[k] = slots[b][j]
                BY ONLY <2>3, <2>8, <4>1, k \in 1..Len(slots[b]), Zenon
            <4> QED  BY ONLY <4>2, Zenon
        <3> QED  BY ONLY <3>1, <3>2, Zenon
    <2>11. \A k \in 1..Len(t) : t[k] = n \/ \E j \in 1..Len(slots[b]) : t[k] = slots[b][j]
        <3> TAKE k \in 1..Len(t)
        <3>1. CASE k \in 1..Len(slots[b])
            <4>1. PICK j \in 1..Len(slots[b]) : u[k] = slots[b][j]
                BY <2>2, <3>1, Zenon
            <4> QED  BY ONLY <2>3, <3>1, <4>1, Zenon
        <3>2. CASE k = Len(slots[b]) + 1
            BY ONLY <2>3, <3>2, Zenon
        <3> QED  BY ONLY <2>7, <3>1, <3>2, k \in 1..Len(t), Zenon
    <2>12. \A k \in 1..Len(t) : t[k].id = n.id => t[k] = n
        BY <2>6, <2>11
    <2> QED
        BY <2>5, <2>6, <2>10, <2>11, <2>12 DEF AddNodeEffect
<1> QED
    BY <1>4, <1>5, <1>6, <1>7 DEF BucketAddNode, KeepNode, DiscardNode

-----------------------------------------------------------------------------
(***************************************************************************)
(* Type correctness                                                        *)
(***************************************************************************)

\* Every step keeps the types: what CheckAllNodes, AddNode and the loading of
\* stored nodes leave in a bucket is a list of nodes again.
LEMMA TypeStep == TypeOK /\ [Next]_vars => TypeOK'
<1> SUFFICES ASSUME TypeOK, [Next]_vars
             PROVE  TypeOK'
    OBVIOUS
<1> USE ConstantsAssumption, CapNat
<1>1. SlotsType
    BY DEF TypeOK, SlotsType
<1>2. ASSUME NEW id \in ID, NEW a \in Addr, NEW stamp \in 0..MaxLag, AddNode(id, a, stamp)
      PROVE  TypeOK'
    <2> DEFINE n == [id |-> id, addr |-> a, age |-> stamp]
    <2>1. n \in Node /\ BucketOf[id] \in Bucket
        BY DEF Node
    <2>2. BucketAddNode(BucketOf[id], n)
        BY <1>2 DEF AddNode
    <2> HIDE DEF n
    <2>3. SlotsType'
        BY <1>1, <2>1, <2>2, BucketAddNodeEffect
    <2> QED
        BY <1>2, <2>3, Zenon DEF AddNode, TypeOK, SlotsType
<1>3. ASSUME NEW late \in 0..MaxLag, CheckAllBuckets(late)
      PROVE  TypeOK'
    BY <1>3 DEF CheckAllBuckets, TypeOK
<1>4. CASE CheckAllNodes
    <2>1. cursor \in Bucket /\ NextBucket \in 0..NumBuckets
        BY <1>4 DEF CheckAllNodes, TypeOK, NextBucket, Bucket
    <2>2. DOMAIN slots[cursor] = 1..Len(slots[cursor]) /\ Len(slots[cursor]) \in Nat
        BY <2>1 DEF TypeOK
    <2>3. BadPositions(cursor) \in SUBSET (Nat \ {0})
        BY <2>2 DEF BadPositions
    <2>4. cursor' \in 0..NumBuckets /\ dels' \in SUBSET (Nat \ {0}) /\ lag' \in 0..MaxLag
        BY <1>4, <2>1, <2>3 DEF CheckAllNodes, TypeOK
    <2> QED
        BY <1>4, <2>4 DEF CheckAllNodes, TypeOK
<1>5. CASE DelNodeByIndex
    <2>1. cursor \in Bucket /\ NextBucket \in 0..NumBuckets
        BY <1>5 DEF DelNodeByIndex, TypeOK, NextBucket, Bucket
    <2>2. slots[cursor] \in Seq(Node)
        BY <2>1 DEF TypeOK
    <2>3. PICK i \in dels :
            \/ /\ i <= Len(slots[cursor])
               /\ slots' = [slots EXCEPT ![cursor] = RemovePosition(slots[cursor], i)]
               /\ dels' = dels \ {i}
               /\ cursor' = IF dels' = {} THEN NextBucket ELSE cursor
            \/ /\ dels' = {}
               /\ cursor' = 0
               /\ UNCHANGED slots
        BY <1>5 DEF DelNodeByIndex
    <2>4. i \in Nat \ {0}
        BY DEF TypeOK
    <2>5. slots' \in [Bucket -> Seq(Node)]
        <3>1. CASE UNCHANGED slots
            BY <3>1 DEF TypeOK
        <3>2. CASE /\ i <= Len(slots[cursor])
                   /\ slots' = [slots EXCEPT ![cursor] = RemovePosition(slots[cursor], i)]
            <4>1. i \in 1..Len(slots[cursor])
                BY <2>2, <2>4, <3>2
            <4>2. RemovePosition(slots[cursor], i) \in Seq(Node)
                BY <2>2, <4>1, RemovedNodes
            <4> QED
                BY <3>2, <4>2, Zenon DEF TypeOK
        <3> QED  BY <2>3, <3>1, <3>2
    <2>6. cursor' \in 0..NumBuckets /\ dels' \in SUBSET (Nat \ {0})
        <3>1. dels' \in SUBSET (Nat \ {0})
            BY <2>3, Zenon DEF TypeOK
        <3>2. cursor' \in {0, cursor, NextBucket}
            BY <2>3
        <3> QED  BY <2>1, <3>1, <3>2 DEF TypeOK
    <2>7. lag' \in 0..MaxLag
        BY <1>5 DEF DelNodeByIndex, TypeOK
    <2> QED
        BY <1>5, <2>5, <2>6, <2>7, Zenon DEF DelNodeByIndex, TypeOK
<1>6. CASE Started
    BY <1>6 DEF Started, TypeOK
<1>7. ASSUME NEW b \in Bucket, LoadNode(b)
      PROVE  TypeOK'
    <2> DEFINE n == Head(todo[b])
    <2>1. todo[b] \in Seq(Node) /\ todo[b] # <<>>
        BY <1>7 DEF LoadNode, TypeOK
    <2>2. n \in Node /\ Tail(todo[b]) \in Seq(Node)
        BY <2>1
    <2>3. BucketOf[n.id] \in Bucket
        BY <2>2 DEF Node
    <2>4. BucketAddNode(BucketOf[n.id], n) \/ UNCHANGED <<slots, bktAge>>
        BY <1>7 DEF LoadNode
    <2> HIDE DEF n
    <2>5. SlotsType'
        BY <1>1, <2>2, <2>3, <2>4, BucketAddNodeEffect DEF SlotsType
    <2>6. todo' \in [Bucket -> Seq(Node)]
        BY <1>7, <2>2 DEF LoadNode, TypeOK
    <2> QED
        BY <1>7, <2>5, <2>6, Zenon DEF LoadNode, TypeOK, SlotsType
<1>8. CASE Sync
    BY <1>8, Zenon DEF Sync, Dump, TypeOK
<1>9. CASE Stop
    BY <1>9 DEF Stop, TypeOK
<1>10. CASE Exit
    BY <1>10, Zenon DEF Exit, Dump, TypeOK
<1>11. CASE Restart
    <2>1. Empty \in [Bucket -> Seq(Node)]
        BY DEF Empty
    <2>2. todo' \in [Bucket -> Seq(Node)] /\ slots' \in [Bucket -> Seq(Node)]
        BY <1>11, <2>1, Zenon DEF Restart, TypeOK
    <2>3. bktAge' \in [Bucket -> 0..Cap]
        BY <1>11 DEF Restart
    <2>4. /\ phase' \in {"loading", "running", "exiting", "stopped"}
          /\ cursor' \in 0..NumBuckets /\ dels' \in SUBSET (Nat \ {0}) /\ lag' \in 0..MaxLag
        BY <1>11 DEF Restart
    <2>5. storage' \in [Bucket -> Seq(Node)] /\ traffic' \in BOOLEAN
        BY <1>11, Zenon DEF Restart, TypeOK
    <2> QED
        BY <2>2, <2>3, <2>4, <2>5, Zenon DEF TypeOK
<1>12. CASE Tick
    <2>1. /\ slots' \in [Bucket -> Seq(Node)]
          /\ storage' \in [Bucket -> Seq(Node)]
        BY <1>12, AgedNodes DEF Tick, TypeOK
    <2>2. bktAge' \in [Bucket -> 0..Cap]
        BY <1>12 DEF Tick, TypeOK, Older
    <2>3. lag' \in 0..MaxLag
        BY <1>12 DEF Tick, TypeOK
    <2> QED
        BY <1>12, <2>1, <2>2, <2>3 DEF Tick, TypeOK
<1>13. CASE Silence
    BY <1>13, Zenon DEF Silence, TypeOK
<1>14. CASE UNCHANGED vars
    BY <1>14 DEF vars, TypeOK
<1> QED
    BY <1>2, <1>3, <1>4, <1>5, <1>6, <1>7, <1>8, <1>9, <1>10, <1>11, <1>12, <1>13, <1>14
    DEF Next, Receive, Check, Load

\* The variables of the table always have their types.
THEOREM TypeCorrect == Spec => []TypeOK
<1>1. Init => TypeOK
    BY ConstantsAssumption, CapNat DEF Init, TypeOK, Empty
<1> QED
    BY <1>1, TypeStep, PTL DEF Spec

-----------------------------------------------------------------------------
(***************************************************************************)
(* The server is not in its own table; slots of one ID are one object      *)
(***************************************************************************)

NoRoot(s) == \A k \in DOMAIN s : s[k].id # Root

OneObject(s) == \A j, k \in DOMAIN s : s[j].id = s[k].id => s[j] = s[k]

\* The inductive invariant: what is stored is as sound as the table it was
\* dumped from, and so is what newRoutingTable has still to load.
SlotsInv ==
    \A b \in Bucket :
        /\ NoRoot(slots[b]) /\ NoRoot(storage[b]) /\ NoRoot(todo[b])
        /\ OneObject(slots[b]) /\ OneObject(storage[b])

\* A list all of whose nodes are in a sound list is sound.
LEMMA SoundSublist ==
    ASSUME NEW s \in Seq(Node), NEW t \in Seq(Node),
           \A k \in 1..Len(t) : \E j \in 1..Len(s) : t[k] = s[j],
           NoRoot(s), OneObject(s)
    PROVE  NoRoot(t) /\ OneObject(t)
<1>1. DOMAIN s = 1..Len(s) /\ DOMAIN t = 1..Len(t)
    OBVIOUS
<1>2. NoRoot(t)
    BY <1>1 DEF NoRoot
<1>3. ASSUME NEW j \in DOMAIN t, NEW k \in DOMAIN t, t[j].id = t[k].id
      PROVE  t[j] = t[k]
    <2>1. PICK i \in DOMAIN s, l \in DOMAIN s : t[j] = s[i] /\ t[k] = s[l]
        BY <1>1, Zenon
    <2> QED  BY <1>3, <2>1 DEF OneObject
<1> QED
    BY <1>2, <1>3 DEF OneObject

\* Time leaves a sound list sound.
LEMMA SoundAged ==
    ASSUME NEW s \in Seq(Node)
    PROVE  (NoRoot(s) => NoRoot(Aged(s))) /\ (OneObject(s) => OneObject(Aged(s)))
<1>1. DOMAIN s = 1..Len(s)
    OBVIOUS
<1> QED
    BY <1>1, AgedNodes DEF NoRoot, OneObject

\* bucket.AddNode leaves a table sound unless it is given the server's own ID.
LEMMA SoundAddNode ==
    ASSUME SlotsType, NEW b \in Bucket, NEW n \in Node, BucketAddNode(b, n),
           n.id # Root,
           \A c \in Bucket : NoRoot(slots[c]) /\ OneObject(slots[c])
    PROVE  \A c \in Bucket : NoRoot(slots'[c]) /\ OneObject(slots'[c])
<1>1. SlotsType' /\ AddNodeEffect(b, n)
    BY BucketAddNodeEffect
<1>2. /\ DOMAIN slots[b] = 1..Len(slots[b])
      /\ DOMAIN slots'[b] = 1..Len(slots'[b])
    BY <1>1 DEF SlotsType
<1>3. NoRoot(slots'[b])
    BY <1>1, <1>2 DEF AddNodeEffect, NoRoot
<1>4. ASSUME NEW j \in 1..Len(slots'[b]), NEW k \in 1..Len(slots'[b]),
             slots'[b][j].id = slots'[b][k].id
      PROVE  slots'[b][j] = slots'[b][k]
    <2>1. CASE slots'[b] = slots[b]
        BY <1>2, <1>4, <2>1 DEF OneObject
    <2>2. CASE \A i \in 1..Len(slots'[b]) : slots'[b][i].id = n.id => slots'[b][i] = n
        <3>1. CASE slots'[b][j].id = n.id
            BY <1>4, <2>2, <3>1, Zenon
        <3>2. CASE slots'[b][j].id # n.id
            <4>1. PICK i, l \in 1..Len(slots[b]) :
                    slots'[b][j] = slots[b][i] /\ slots'[b][k] = slots[b][l]
                BY <1>1, <1>4, <3>2 DEF AddNodeEffect
            <4> QED  BY <1>2, <1>4, <4>1 DEF OneObject
        <3> QED  BY <3>1, <3>2
    <2> QED  BY <1>1, <2>1, <2>2 DEF AddNodeEffect
<1>5. OneObject(slots'[b])
    BY <1>2, <1>4 DEF OneObject
<1> QED
    BY <1>1, <1>3, <1>5 DEF AddNodeEffect

\* Every step keeps the table, the storage and the list to load sound.
LEMMA SoundStep == TypeOK /\ SlotsInv /\ [Next]_vars => SlotsInv'
<1> SUFFICES ASSUME TypeOK, SlotsInv, [Next]_vars
             PROVE  SlotsInv'
    OBVIOUS
<1> USE ConstantsAssumption
<1>1. SlotsType
    BY DEF TypeOK, SlotsType
<1>2. ASSUME NEW id \in ID, NEW a \in Addr, NEW stamp \in 0..MaxLag, AddNode(id, a, stamp)
      PROVE  SlotsInv'
    <2> DEFINE n == [id |-> id, addr |-> a, age |-> stamp]
    <2>1. n \in Node /\ BucketOf[id] \in Bucket /\ n.id # Root
        BY <1>2, CapNat DEF Node, AddNode
    <2>2. BucketAddNode(BucketOf[id], n)
        BY <1>2 DEF AddNode
    <2> HIDE DEF n
    <2>3. \A c \in Bucket : NoRoot(slots'[c]) /\ OneObject(slots'[c])
        BY <1>1, <2>1, <2>2, SoundAddNode DEF SlotsInv
    <2> QED
        BY <1>2, <2>3 DEF AddNode, SlotsInv
<1>3. CASE UNCHANGED <<slots, storage, todo>>
    BY <1>3 DEF SlotsInv
<1>4. CASE DelNodeByIndex
    <2>1. cursor \in Bucket
        BY <1>4 DEF DelNodeByIndex, TypeOK, Bucket
    <2>2. slots[cursor] \in Seq(Node)
        BY <2>1 DEF TypeOK
    <2>3. CASE UNCHANGED slots
        BY <1>4, <2>3 DEF DelNodeByIndex, SlotsInv
    <2>4. ASSUME NEW i \in dels, i <= Len(slots[cursor]),
                 slots' = [slots EXCEPT ![cursor] = RemovePosition(slots[cursor], i)]
          PROVE  SlotsInv'
        <3>1. i \in 1..Len(slots[cursor])
            BY <2>2, <2>4 DEF TypeOK
        <3>2. /\ RemovePosition(slots[cursor], i) \in Seq(Node)
              /\ \A k \in 1..Len(RemovePosition(slots[cursor], i)) :
                    \E j \in 1..Len(slots[cursor]) :
                        RemovePosition(slots[cursor], i)[k] = slots[cursor][j]
            BY <2>2, <3>1, RemovedNodes, Zenon
        <3>3. /\ NoRoot(RemovePosition(slots[cursor], i))
              /\ OneObject(RemovePosition(slots[cursor], i))
            BY <2>1, <2>2, <3>2, SoundSublist DEF SlotsInv
        <3>4. \A c \in Bucket : NoRoot(slots'[c]) /\ OneObject(slots'[c])
            BY <2>1, <2>4, <3>3 DEF SlotsInv, TypeOK
        <3> QED
            BY <1>4, <3>4 DEF DelNodeByIndex, SlotsInv
    <2> QED
        BY <1>4, <2>3, <2>4 DEF DelNodeByIndex
<1>5. ASSUME NEW b \in Bucket, LoadNode(b)
      PROVE  SlotsInv'
    <2> DEFINE n == Head(todo[b])
    <2>1. todo[b] \in Seq(Node) /\ todo[b] # <<>> /\ NoRoot(todo[b])
        BY <1>5 DEF LoadNode, TypeOK, SlotsInv
    <2>2. n \in Node /\ n.id # Root /\ NoRoot(Tail(todo[b]))
        BY <2>1 DEF NoRoot
    <2>3. BucketOf[n.id] \in Bucket
        BY <2>2 DEF Node
    <2>4. BucketAddNode(BucketOf[n.id], n) \/ UNCHANGED <<slots, bktAge>>
        BY <1>5 DEF LoadNode
    <2> HIDE DEF n
    <2>5. \A c \in Bucket : NoRoot(slots'[c]) /\ OneObject(slots'[c])
        BY <1>1, <2>2, <2>3, <2>4, SoundAddNode DEF SlotsInv
    <2>6. \A c \in Bucket : NoRoot(todo'[c])
        BY <1>5, <2>2 DEF LoadNode, TypeOK, SlotsInv
    <2> QED
        BY <1>5, <2>5, <2>6 DEF LoadNode, SlotsInv
<1>6. CASE Sync \/ Exit
    BY <1>6 DEF Sync, Exit, Dump, SlotsInv
<1>7. CASE Restart
    <2>1. \A c \in Bucket : NoRoot(Empty[c]) /\ OneObject(Empty[c])
        BY DEF Empty, NoRoot, OneObject
    <2> QED
        BY <1>7, <2>1 DEF Restart, SlotsInv
<1>8. CASE Tick
    <2>1. \A c \in Bucket : slots'[c] = Aged(slots[c]) /\ storage'[c] = Aged(storage[c])
        BY <1>8 DEF Tick
    <2> QED
        BY <1>8, <2>1, SoundAged DEF Tick, TypeOK, SlotsInv
<1> QED
    BY <1>2, <1>3, <1>4, <1>5, <1>6, <1>7, <1>8
    DEF Next, Receive, Check, Load, CheckAllBuckets, CheckAllNodes, Started, Stop, Silence, vars

\* The table, its storage and the list to load are sound in every state.
LEMMA Soundness == Spec => [](TypeOK /\ SlotsInv)
<1>1. Init => SlotsInv
    <2>1. \A b \in Bucket : Empty[b] = <<>>
        BY Zenon DEF Empty
    <2>2. NoRoot(<<>>) /\ OneObject(<<>>)
        BY DEF NoRoot, OneObject
    <2> QED
        BY <2>1, <2>2, Zenon DEF Init, SlotsInv
<1> QED
    BY <1>1, SoundStep, TypeCorrect, PTL DEF Spec

\* Over any sequence of messages, dumps, crashes and loads the server is
\* neither in its own table nor in its storage.
THEOREM ServerIsNotItsOwnNode == Spec => []RootNeverStored
<1>1. SlotsInv => RootNeverStored
    BY DEF SlotsInv, NoRoot, RootNeverStored
<1> QED
    BY <1>1, Soundness, PTL

\* The duplicate slot that bucket.AddNode makes when it replaces a bad node
\* never comes apart from the slot it duplicates.
THEOREM DuplicatesAgree == Spec => []OneObjectPerID
<1>1. SlotsInv => OneObjectPerID
    BY DEF SlotsInv, OneObject, OneObjectPerID
<1> QED
    BY <1>1, Soundness, PTL

-----------------------------------------------------------------------------
(***************************************************************************)
(* What a step does to the nodes of the table                              *)
(***************************************************************************)

\* A message evicts no node that is not bad.
THEOREM OnlyBadNodesAreEvicted == Spec => AddNodeEvictsOnlyBad
<1>1. TypeOK /\ [Next]_vars =>
        [Receive =>
            \A b \in Bucket : \A k \in DOMAIN slots[b] :
                \/ slots[b][k].age > Bad
                \/ \E j \in DOMAIN slots'[b] : slots'[b][j].id = slots[b][k].id]_vars
    <2> SUFFICES ASSUME TypeOK, NEW id \in ID, NEW a \in Addr, NEW stamp \in 0..MaxLag,
                        AddNode(id, a, stamp), NEW b \in Bucket, NEW k \in DOMAIN slots[b]
                 PROVE  \/ slots[b][k].age > Bad
                        \/ \E j \in DOMAIN slots'[b] : slots'[b][j].id = slots[b][k].id
        BY DEF Receive
    <2> DEFINE n == [id |-> id, addr |-> a, age |-> stamp]
    <2>1. SlotsType
        BY DEF TypeOK, SlotsType
    <2>2. n \in Node /\ BucketOf[id] \in Bucket
        BY ConstantsAssumption, CapNat DEF Node
    <2>3. BucketAddNode(BucketOf[id], n)
        BY DEF AddNode
    <2> HIDE DEF n
    <2>4. SlotsType' /\ AddNodeEffect(BucketOf[id], n)
        BY <2>1, <2>2, <2>3, BucketAddNodeEffect
    <2>5. DOMAIN slots[b] = 1..Len(slots[b]) /\ DOMAIN slots'[b] = 1..Len(slots'[b])
        BY <2>1, <2>4 DEF SlotsType
    <2>6. CASE b # BucketOf[id]
        <3>1. slots'[b] = slots[b]
            BY <2>4, <2>6 DEF AddNodeEffect
        <3> QED  BY ONLY <3>1, k \in DOMAIN slots[b], Zenon
    <2>7. CASE b = BucketOf[id]
        <3>1. \A j \in 1..Len(slots[b]) :
                \/ slots[b][j].age > Bad
                \/ \E l \in 1..Len(slots'[b]) : slots'[b][l].id = slots[b][j].id
            BY ONLY <2>4, <2>7, Zenon DEF AddNodeEffect
        <3> QED  BY ONLY <2>5, <3>1, k \in DOMAIN slots[b], Zenon
    <2> QED
        BY <2>6, <2>7
<1> QED
    BY <1>1, TypeCorrect, PTL DEF Spec, AddNodeEvictsOnlyBad

\* What AddressIsStable says of one step.
SameAddress ==
    \A b \in Bucket : \A j \in DOMAIN slots[b] : \A k \in DOMAIN slots'[b] :
        slots[b][j].id = slots'[b][k].id => slots[b][j].addr = slots'[b][k].addr

\* A node that stays in the table keeps its address, duplicates included.
THEOREM AddressesAreStable == Spec => AddressIsStable
<1>1. ASSUME TypeOK, SlotsInv, Next, phase' # "loading"
      PROVE  SameAddress
    <2>1. \A b \in Bucket : DOMAIN slots[b] = 1..Len(slots[b]) /\ OneObject(slots[b])
        BY <1>1 DEF TypeOK, SlotsInv
    <2>2. CASE UNCHANGED slots
        BY <2>1, <2>2 DEF SameAddress, OneObject
    <2>3. CASE Receive
        <3>1. PICK id \in ID, a \in Addr, stamp \in 0..MaxLag : AddNode(id, a, stamp)
            BY <2>3 DEF Receive
        <3> DEFINE n == [id |-> id, addr |-> a, age |-> stamp]
                   c == BucketOf[id]
        <3>2. n \in Node /\ c \in Bucket
            BY ConstantsAssumption, CapNat DEF Node
        <3>3. BucketAddNode(c, n) /\ SlotsType
            BY <1>1, <3>1 DEF AddNode, TypeOK, SlotsType
        <3> HIDE DEF n, c
        <3>4. SlotsType' /\ AddNodeEffect(c, n)
            BY <3>2, <3>3, BucketAddNodeEffect
        <3>5. \A b \in Bucket : DOMAIN slots'[b] = 1..Len(slots'[b])
            BY <3>4 DEF SlotsType
        <3>6. ASSUME NEW j \in DOMAIN slots[c], NEW k \in DOMAIN slots'[c],
                     slots[c][j].id = slots'[c][k].id
              PROVE  slots[c][j].addr = slots'[c][k].addr
            <4>1. CASE \E i \in 1..Len(slots[c]) : slots'[c][k] = slots[c][i]
                BY <2>1, <3>2, <3>6, <4>1 DEF OneObject
            <4>2. CASE slots'[c][k] = n /\ slots'[c] # slots[c]
                <5>1. j \in 1..Len(slots[c]) /\ slots[c][j].id = n.id
                    BY <2>1, <3>2, <3>6, <4>2
                <5>2. \/ slots'[c] = slots[c]
                      \/ \A i \in 1..Len(slots[c]) : slots[c][i].id # n.id
                      \/ \E i \in 1..Len(slots[c]) : slots[c][i].id = n.id /\ slots[c][i].addr = n.addr
                    BY <3>4 DEF AddNodeEffect
                <5>3. PICK i \in 1..Len(slots[c]) : slots[c][i].id = n.id /\ slots[c][i].addr = n.addr
                    BY <4>2, <5>1, <5>2
                <5> QED  BY <2>1, <3>2, <3>6, <4>2, <5>3 DEF OneObject
            <4>3. CASE slots'[c] = slots[c]
                BY <2>1, <3>2, <3>6, <4>3 DEF OneObject
            <4> QED  BY <3>2, <3>4, <3>5, <4>1, <4>2, <4>3 DEF AddNodeEffect
        <3>7. ASSUME NEW b \in Bucket, b # c, NEW j \in DOMAIN slots[b],
                     NEW k \in DOMAIN slots'[b], slots[b][j].id = slots'[b][k].id
              PROVE  slots[b][j].addr = slots'[b][k].addr
            <4>1. slots'[b] = slots[b]
                BY <3>4, <3>7 DEF AddNodeEffect
            <4> QED  BY <2>1, <3>7, <4>1 DEF OneObject
        <3> QED
            BY <3>6, <3>7 DEF SameAddress
    <2>4. CASE DelNodeByIndex
        <3>1. cursor \in Bucket
            BY <1>1, <2>4 DEF DelNodeByIndex, TypeOK, Bucket
        <3>2. slots[cursor] \in Seq(Node)
            BY <1>1, <3>1 DEF TypeOK
        <3>3. ASSUME NEW i \in dels, i <= Len(slots[cursor]),
                     slots' = [slots EXCEPT ![cursor] = RemovePosition(slots[cursor], i)]
              PROVE  SameAddress
            <4> DEFINE t == RemovePosition(slots[cursor], i)
            <4>1. i \in 1..Len(slots[cursor])
                BY <1>1, <3>2, <3>3 DEF TypeOK
            <4>2. t \in Seq(Node) /\ \A k \in 1..Len(t) : \E j \in 1..Len(slots[cursor]) : t[k] = slots[cursor][j]
                BY <3>2, <4>1, RemovedNodes, Zenon
            <4> HIDE DEF t
            <4>3. slots'[cursor] = t /\ \A b \in Bucket : b # cursor => slots'[b] = slots[b]
                BY <1>1, <3>1, <3>3 DEF TypeOK, t
            <4>4. DOMAIN t = 1..Len(t)
                BY <4>2
            <4>5. \A j \in DOMAIN slots[cursor], k \in DOMAIN t :
                    slots[cursor][j].id = t[k].id => slots[cursor][j].addr = t[k].addr
                BY <2>1, <3>1, <4>2, <4>4 DEF OneObject
            <4> QED
                BY <2>1, <4>3, <4>5 DEF SameAddress, OneObject
        <3> QED
            BY <2>2, <2>4, <3>3 DEF DelNodeByIndex
    <2>5. CASE Tick
        <3>1. \A b \in Bucket : slots'[b] = Aged(slots[b]) /\ slots[b] \in Seq(Node)
            BY <1>1, <2>5 DEF Tick, TypeOK
        <3>2. ASSUME NEW b \in Bucket, NEW j \in DOMAIN slots[b], NEW k \in DOMAIN slots'[b],
                     slots[b][j].id = slots'[b][k].id
              PROVE  slots[b][j].addr = slots'[b][k].addr
            <4>1. k \in DOMAIN slots[b]
                BY <2>1, <3>1, AgedNodes
            <4>2. slots'[b][k].id = slots[b][k].id /\ slots'[b][k].addr = slots[b][k].addr
                BY <2>1, <3>1, <4>1, AgedNodes
            <4> QED  BY <2>1, <3>2, <4>1, <4>2 DEF OneObject
        <3> QED
            BY <3>2 DEF SameAddress
    <2>6. CASE Load \/ Restart
        BY <1>1, <2>2, <2>6 DEF Load, Started, LoadNode, Restart
    <2> QED
        BY <1>1, <2>2, <2>3, <2>4, <2>5, <2>6
        DEF Next, Check, CheckAllBuckets, CheckAllNodes, Sync, Stop, Exit, Silence
<1>2. TypeOK /\ SlotsInv /\ [Next]_vars => [phase' # "loading" => SameAddress]_vars
    BY <1>1
<1> QED
    BY <1>2, Soundness, PTL DEF Spec, AddressIsStable, SameAddress

-----------------------------------------------------------------------------
(***************************************************************************)
(* Loading cleans the table                                                *)
(***************************************************************************)

Clean(s) ==
    /\ Len(s) <= K
    /\ \A k \in DOMAIN s : s[k].age < Dubious
    /\ \A j, k \in DOMAIN s : s[j].id = s[k].id => j = k

\* A node that is not dubious is added to clean buckets without a duplicate:
\* none of them is bad, so the faulty replacement does not happen.
LEMMA CleanAddNode ==
    ASSUME SlotsType, NEW b \in Bucket, NEW n \in Node, BucketAddNode(b, n),
           n.age < Dubious, \A c \in Bucket : Clean(slots[c])
    PROVE  \A c \in Bucket : Clean(slots'[c])
<1>1. /\ slots[b] \in Seq(Node)
      /\ Len(slots[b]) \in Nat
      /\ DOMAIN slots[b] = 1..Len(slots[b])
      /\ \A k \in 1..Len(slots[b]) : slots[b][k] \in Node
    BY DEF SlotsType
<1>2. SlotsType' /\ \A c \in Bucket : c # b => slots'[c] = slots[c]
    BY BucketAddNodeEffect DEF AddNodeEffect
<1>3. Clean(slots[b])
    OBVIOUS
<1>4. CASE UpdateNode(b, n)
    <2> DEFINE e(k) == IF slots[b][k].id = n.id THEN n ELSE slots[b][k]
    <2>1. slots'[b] = [k \in 1..Len(slots[b]) |-> e(k)]
        BY <1>1, <1>4 DEF UpdateNode, SlotsType
    <2>2. DOMAIN slots'[b] = 1..Len(slots[b]) /\ slots'[b] \in Seq(Node)
        BY <1>2, <2>1 DEF SlotsType
    <2>3. Len(slots'[b]) = Len(slots[b])
        BY <1>1, <2>2
    <2>4. \A k \in 1..Len(slots[b]) : /\ slots'[b][k].id = slots[b][k].id
                                      /\ slots'[b][k].age < Dubious
        BY <1>1, <1>3, <2>1 DEF Clean
    <2>5. Clean(slots'[b])
        BY <1>1, <1>3, <2>2, <2>3, <2>4 DEF Clean
    <2> QED  BY <1>2, <2>5
<1>5. CASE UNCHANGED <<slots, bktAge>>
    BY <1>5
<1>6. CASE AppendNode(b, n)
    <2> DEFINE t == Append(slots[b], n)
    <2>1. /\ t \in Seq(Node)
          /\ Len(t) = Len(slots[b]) + 1
          /\ \A k \in 1..Len(slots[b]) : t[k] = slots[b][k]
          /\ t[Len(slots[b]) + 1] = n
        BY <1>1
    <2>2. slots'[b] = t
        BY <1>6 DEF AppendNode, SlotsType
    <2> HIDE DEF t
    <2>3. DOMAIN t = 1..(Len(slots[b]) + 1)
        BY <2>1
    <2>4. \A k \in 1..(Len(slots[b]) + 1) : k \in 1..Len(slots[b]) \/ k = Len(slots[b]) + 1
        BY <1>1
    <2>5. \A k \in 1..Len(slots[b]) : slots[b][k].id # n.id
        BY <1>1, <1>6 DEF AppendNode, Holds
    <2>6. Len(t) <= K
        BY <1>1, <1>6, <2>1, ConstantsAssumption DEF AppendNode
    <2>7. \A k \in DOMAIN t : t[k].age < Dubious
        BY <1>1, <1>3, <2>1, <2>3, <2>4 DEF Clean
    <2>8. \A j, k \in DOMAIN t : t[j].id = t[k].id => j = k
        BY <1>1, <1>3, <2>1, <2>3, <2>4, <2>5 DEF Clean
    <2> QED  BY <1>2, <2>2, <2>6, <2>7, <2>8 DEF Clean
<1>7. ~ReplaceBadNode(b, n)
    <2>1. ASSUME NEW i \in DOMAIN slots[b]
          PROVE  ~IsBad(slots[b][i], n.age)
        <3>1. slots[b][i].age < Dubious /\ slots[b][i].age \in 0..Cap /\ n.age \in 0..Cap
            BY <1>1, <1>3 DEF Clean, Node
        <3> QED  BY <3>1, ConstantsAssumption, CapNat DEF IsBad
    <2> QED  BY <2>1 DEF ReplaceBadNode
<1> QED
    BY <1>4, <1>5, <1>6, <1>7 DEF BucketAddNode, KeepNode, DiscardNode

\* newRoutingTable turns whatever was stored into a table of at most K nodes in
\* a bucket, none twice and none dubious.
THEOREM LoadingCleansTheTable == Spec => []LoadedTableIsClean
<1> DEFINE Inv == phase = "loading" => cursor = 0 /\ \A b \in Bucket : Clean(slots[b])
<1>1. \A b \in Bucket : Clean(Empty[b])
    BY ConstantsAssumption DEF Empty, Clean
<1>2. Init => Inv
    BY <1>1 DEF Init
<1>3. ASSUME TypeOK, Inv, [Next]_vars, phase' = "loading"
      PROVE  cursor' = 0 /\ \A b \in Bucket : Clean(slots'[b])
    <2>1. CASE Restart
        BY <1>1, <2>1 DEF Restart
    <2>2. ASSUME NEW b \in Bucket, LoadNode(b)
          PROVE  cursor' = 0 /\ \A c \in Bucket : Clean(slots'[c])
        <3> DEFINE n == Head(todo[b])
        <3>1. \A c \in Bucket : Clean(slots[c])
            BY <1>3, <2>2 DEF LoadNode
        <3>2. SlotsType /\ n \in Node
            BY <1>3, <2>2 DEF LoadNode, TypeOK, SlotsType
        <3>3. BucketOf[n.id] \in Bucket
            BY <3>2, ConstantsAssumption DEF Node
        <3>4. (n.age < Dubious /\ BucketAddNode(BucketOf[n.id], n)) \/ UNCHANGED slots
            BY <2>2 DEF LoadNode
        <3> HIDE DEF n
        <3>5. \A c \in Bucket : Clean(slots'[c])
            BY <3>1, <3>2, <3>3, <3>4, CleanAddNode
        <3> QED
            BY <1>3, <2>2, <3>5 DEF LoadNode
    <2>3. CASE UNCHANGED <<slots, phase, cursor>>
        BY <1>3, <2>3
    <2>4. CASE phase # "loading"
        <3>1. phase' # "loading" \/ Restart
            <4>1. Receive \/ Check => UNCHANGED phase
                BY Zenon DEF Receive, AddNode, Check, CheckAllBuckets, CheckAllNodes, DelNodeByIndex
            <4>2. ~Load
                BY <2>4, Zenon DEF Load, Started, LoadNode
            <4>3. Sync \/ Tick \/ Silence \/ UNCHANGED vars => UNCHANGED phase
                BY Zenon DEF Sync, Tick, Silence, vars
            <4>4. Stop \/ Exit => phase' # "loading"
                BY DEF Stop, Exit
            <4> QED
                BY <1>3, <2>4, <4>1, <4>2, <4>3, <4>4, Zenon DEF Next
        <3> QED
            BY <1>3, <2>1, <3>1, Zenon
    <2>5. CASE phase = "loading"
        <3>1. cursor = 0 /\ \A b \in Bucket : Clean(slots[b])
            BY <1>3, <2>5
        <3>2. ~Receive
            BY <2>5 DEF Receive, AddNode
        <3>3. ~Check
            BY <2>5, <3>1 DEF Check, CheckAllBuckets, CheckAllNodes, DelNodeByIndex
        <3>4. ~Sync /\ ~Stop /\ ~Exit /\ ~Restart /\ ~Tick
            BY <2>5 DEF Sync, Stop, Exit, Restart, Tick
        <3>5. ~Started
            BY <1>3 DEF Started
        <3>6. Silence \/ UNCHANGED vars => UNCHANGED <<slots, phase, cursor>>
            BY DEF Silence, vars
        <3> QED
            BY <1>3, <2>2, <2>3, <3>2, <3>3, <3>4, <3>5, <3>6 DEF Next, Load
    <2> QED
        BY <2>4, <2>5
<1>4. TypeOK /\ Inv /\ [Next]_vars => Inv'
    BY <1>3
<1>5. Inv => LoadedTableIsClean
    BY DEF Clean, LoadedTableIsClean
<1> HIDE DEF Inv
<1> QED
    BY <1>2, <1>4, <1>5, TypeCorrect, PTL DEF Spec

-----------------------------------------------------------------------------
(***************************************************************************)
(* Duplicates stay side by side                                            *)
(***************************************************************************)

Adjacent(s) ==
    \A i, j \in 1..Len(s) : s[i].id = s[j].id => \A k \in i..j : s[k].id = s[i].id

\* Moving slots without changing their order keeps duplicates side by side.
LEMMA AdjacentMoved ==
    ASSUME NEW s \in Seq(Node), NEW t \in Seq(Node), Adjacent(s), NEW from \in [1..Len(t) -> 1..Len(s)],
           \A k \in 1..Len(t) : t[k].id = s[from[k]].id,
           \A j, k \in 1..Len(t) : j <= k => from[j] <= from[k]
    PROVE  Adjacent(t)
<1>1. SUFFICES ASSUME NEW i \in 1..Len(t), NEW j \in 1..Len(t), t[i].id = t[j].id, NEW k \in i..j
               PROVE  t[k].id = t[i].id
    BY Zenon DEF Adjacent
<1>2. Len(s) \in Nat /\ Len(t) \in Nat
    OBVIOUS
<1>3. k \in 1..Len(t) /\ i <= k /\ k <= j
    BY <1>2
<1>4. from[i] \in 1..Len(s) /\ from[j] \in 1..Len(s) /\ from[k] \in 1..Len(s)
    BY <1>3, Zenon
<1>5. from[i] <= from[k] /\ from[k] <= from[j]
    BY <1>3, Zenon
<1>6. from[k] \in from[i]..from[j]
    BY <1>2, <1>4, <1>5
<1>7. s[from[i]].id = s[from[j]].id
    BY <1>1, Zenon
<1>8. s[from[k]].id = s[from[i]].id
    BY <1>4, <1>6, <1>7, Zenon DEF Adjacent
<1>9. QED
    BY <1>3, <1>8, Zenon

\* A node with an ID that is not in the list may be appended.
LEMMA AdjacentAppend ==
    ASSUME NEW s \in Seq(Node), NEW n \in Node, Adjacent(s), \A k \in 1..Len(s) : s[k].id # n.id
    PROVE  Adjacent(Append(s, n))
<1> DEFINE t == Append(s, n)
<1>1. /\ t \in Seq(Node) /\ Len(t) = Len(s) + 1 /\ t[Len(s) + 1] = n
      /\ \A k \in 1..Len(s) : t[k] = s[k]
    BY AppendedNodes, Zenon
<1> HIDE DEF t
<1>2. SUFFICES ASSUME NEW i \in 1..Len(t), NEW j \in 1..Len(t), t[i].id = t[j].id, NEW k \in i..j
               PROVE  t[k].id = t[i].id
    BY Zenon DEF Adjacent, t
<1>3. Len(s) \in Nat
    OBVIOUS
<1>4. i <= Len(s) \/ i = Len(s) + 1
    BY <1>1, <1>3
<1>5. CASE i <= Len(s) /\ j <= Len(s)
    <2>1. i \in 1..Len(s) /\ j \in 1..Len(s) /\ k \in 1..Len(s)
        BY <1>1, <1>3, <1>5
    <2>2. s[k].id = s[i].id
        BY <1>1, <1>2, <2>1, Zenon DEF Adjacent
    <2>3. QED
        BY <1>1, <2>1, <2>2, Zenon
<1>6. CASE i = Len(s) + 1
    <2>1. k = i
        BY <1>1, <1>3, <1>6
    <2>2. QED
        BY <2>1, Zenon
<1>7. CASE i <= Len(s) /\ ~(j <= Len(s))
    <2>1. i \in 1..Len(s) /\ j = Len(s) + 1
        BY <1>1, <1>3, <1>7
    <2>2. QED
        BY <1>1, <1>2, <2>1, Zenon
<1>8. QED
    BY <1>4, <1>5, <1>6, <1>7, Zenon

\* Replacing a bad node moves the later ones down and repeats the last,
LEMMA AdjacentCopyDown ==
    ASSUME NEW s \in Seq(Node), NEW i \in 1..Len(s), Adjacent(s)
    PROVE  Adjacent(CopyDown(s, i))
<1> DEFINE t == CopyDown(s, i)
           from == [k \in 1..Len(s) |-> IF i <= k /\ k < Len(s) THEN k + 1 ELSE k]
<1>1. t \in Seq(Node) /\ Len(t) = Len(s)
    BY CopyDownNodes, Zenon
<1>2. Len(s) \in Nat /\ DOMAIN s = 1..Len(s)
    OBVIOUS
<1>3. /\ from \in [1..Len(s) -> 1..Len(s)]
      /\ \A j, k \in 1..Len(s) : j <= k => from[j] <= from[k]
    BY <1>2
<1>4. \A k \in 1..Len(s) : t[k] = s[from[k]]
    BY <1>2 DEF CopyDown
<1> HIDE DEF t, from
<1>5. Adjacent(t)
    BY <1>1, <1>3, <1>4, AdjacentMoved, Zenon
<1>6. QED
    BY <1>5, Zenon DEF t

\* and deleting a position closes the gap: neither parts duplicates.
LEMMA AdjacentRemove ==
    ASSUME NEW s \in Seq(Node), NEW i \in 1..Len(s), Adjacent(s)
    PROVE  Adjacent(RemovePosition(s, i))
<1> DEFINE t == RemovePosition(s, i)
           from == [k \in 1..(Len(s) - 1) |-> IF k < i THEN k ELSE k + 1]
<1>1. t \in Seq(Node) /\ Len(t) = Len(s) - 1
    BY RemovedNodes, Zenon
<1>2. Len(s) \in Nat /\ DOMAIN s = 1..Len(s)
    OBVIOUS
<1>3. /\ from \in [1..(Len(s) - 1) -> 1..Len(s)]
      /\ \A j, k \in 1..(Len(s) - 1) : j <= k => from[j] <= from[k]
    BY <1>2
<1>4. \A k \in 1..(Len(s) - 1) : t[k] = s[from[k]]
    BY <1>2 DEF RemovePosition
<1> HIDE DEF t, from
<1>5. Adjacent(t)
    BY <1>1, <1>3, <1>4, AdjacentMoved, Zenon
<1>6. QED
    BY <1>5, Zenon DEF t

\* A list with the same IDs in the same places.
LEMMA AdjacentSame ==
    ASSUME NEW s \in Seq(Node), NEW t \in Seq(Node), Adjacent(s), Len(t) = Len(s),
           \A k \in 1..Len(s) : t[k].id = s[k].id
    PROVE  Adjacent(t)
<1>1. SUFFICES ASSUME NEW i \in 1..Len(t), NEW j \in 1..Len(t), t[i].id = t[j].id, NEW k \in i..j
               PROVE  t[k].id = t[i].id
    BY Zenon DEF Adjacent
<1>2. k \in 1..Len(s)
    BY Len(s) \in Nat
<1>3. s[k].id = s[i].id
    BY <1>1, <1>2, Zenon DEF Adjacent
<1>4. QED
    BY <1>2, <1>3, Zenon

\* Nor does AddNode, whichever way it takes.
LEMMA AdjacentAddNode ==
    ASSUME SlotsType, NEW b \in Bucket, NEW n \in Node, BucketAddNode(b, n),
           \A c \in Bucket : Adjacent(slots[c])
    PROVE  \A c \in Bucket : Adjacent(slots'[c])
<1> DEFINE s == slots[b]
<1>1. /\ s \in Seq(Node) /\ Len(s) \in Nat /\ DOMAIN s = 1..Len(s)
      /\ slots \in [Bucket -> Seq(Node)] /\ Adjacent(s)
    BY DEF SlotsType
<1>2. SlotsType' /\ \A c \in Bucket : c # b => slots'[c] = slots[c]
    BY BucketAddNodeEffect, Zenon DEF AddNodeEffect
<1>3. SUFFICES ASSUME slots' # slots PROVE Adjacent(slots'[b])
    BY <1>2, Zenon
<1>4. CASE UpdateNode(b, n)
    <2>1. slots'[b] = [k \in 1..Len(s) |-> IF s[k].id = n.id THEN n ELSE s[k]]
        BY <1>1, <1>4, Zenon DEF UpdateNode
    <2>2. slots'[b] \in Seq(Node)
        BY <1>2, Zenon DEF SlotsType
    <2> HIDE DEF s
    <2>3. Len(slots'[b]) = Len(s) /\ \A k \in 1..Len(s) : slots'[b][k].id = s[k].id
        BY <1>1, <2>1, <2>2
    <2>4. QED
        BY <1>1, <2>2, <2>3, AdjacentSame, Zenon
<1>5. CASE AppendNode(b, n)
    <2>1. slots'[b] = Append(s, n) /\ \A k \in 1..Len(s) : s[k].id # n.id
        BY <1>1, <1>5, Zenon DEF AppendNode, Holds
    <2>2. QED
        BY <1>1, <2>1, AdjacentAppend, Zenon
<1>6. CASE ReplaceBadNode(b, n)
    <2>1. PICK i \in 1..Len(s) : slots' = [slots EXCEPT ![b] = Append(CopyDown(s, i), n)]
        BY <1>1, <1>6, Zenon DEF ReplaceBadNode
    <2>2. slots'[b] = Append(CopyDown(s, i), n)
        BY <1>1, <2>1, Zenon
    <2> DEFINE u == CopyDown(s, i)
    <2>3. \A k \in 1..Len(s) : s[k].id # n.id
        BY <1>1, <1>6, Zenon DEF ReplaceBadNode, Holds
    <2>4. /\ u \in Seq(Node) /\ Len(u) = Len(s)
          /\ \A k \in 1..Len(s) : \E j \in 1..Len(s) : u[k] = s[j]
        BY <1>1, CopyDownNodes, Zenon
    <2>5. Adjacent(u)
        BY <1>1, AdjacentCopyDown, Zenon
    <2> HIDE DEF s, u
    <2>6. \A k \in 1..Len(u) : u[k].id # n.id
        BY <2>3, <2>4, Zenon
    <2>7. Adjacent(Append(u, n))
        BY <2>4, <2>5, <2>6, AdjacentAppend, Zenon
    <2>8. QED
        BY <2>2, <2>7, Zenon DEF u
<1>7. QED
    BY <1>3, <1>4, <1>5, <1>6, Zenon DEF BucketAddNode, KeepNode, DiscardNode

\* Through every replacement and every deletion, with stale positions too, the
\* duplicates of a bucket stay side by side.
THEOREM DuplicatesStaySideBySide == Spec => []DuplicatesAreAdjacent
<1> DEFINE Inv == \A b \in Bucket : Adjacent(slots[b])
<1>1. \A b \in Bucket : Adjacent(Empty[b])
    BY DEF Empty, Adjacent
<1>2. Init => Inv
    BY <1>1, Zenon DEF Init
<1>3. TypeOK /\ Inv /\ [Next]_vars => Inv'
    <2>1. SUFFICES ASSUME TypeOK, Inv, [Next]_vars PROVE \A b \in Bucket : Adjacent(slots'[b])
        BY Zenon DEF Adjacent
    <2>2. SlotsType /\ slots \in [Bucket -> Seq(Node)]
        BY <2>1, Zenon DEF TypeOK, SlotsType
    <2>3. CASE UNCHANGED slots
        BY <2>1, <2>3, Zenon
    <2>4. ASSUME NEW id \in ID, NEW a \in Addr, NEW stamp \in 0..MaxLag, AddNode(id, a, stamp)
          PROVE  \A b \in Bucket : Adjacent(slots'[b])
        <3> DEFINE n == [id |-> id, addr |-> a, age |-> stamp]
        <3>1. n \in Node /\ BucketOf[id] \in Bucket
            BY ConstantsAssumption, CapNat DEF Node
        <3>2. BucketAddNode(BucketOf[id], n)
            BY <2>4, Zenon DEF AddNode
        <3> HIDE DEF n
        <3>3. QED
            BY <2>1, <2>2, <3>1, <3>2, AdjacentAddNode, Zenon
    <2>5. ASSUME NEW c \in Bucket, LoadNode(c)
          PROVE  \A b \in Bucket : Adjacent(slots'[b])
        <3> DEFINE n == Head(todo[c])
        <3>1. todo[c] \in Seq(Node) /\ todo[c] # <<>>
            BY <2>1, <2>5, Zenon DEF LoadNode, TypeOK
        <3>2. n \in Node
            BY <3>1
        <3>3. BucketOf[n.id] \in Bucket
            BY <3>2, ConstantsAssumption DEF Node
        <3>4. BucketAddNode(BucketOf[n.id], n) \/ UNCHANGED slots
            BY <2>5, Zenon DEF LoadNode
        <3> HIDE DEF n
        <3>5. QED
            BY <2>1, <2>2, <2>3, <3>2, <3>3, <3>4, AdjacentAddNode, Zenon
    <2>6. CASE DelNodeByIndex
        <3>1. cursor \in Bucket
            BY <2>1, <2>6 DEF DelNodeByIndex, TypeOK, Bucket
        <3>2. slots[cursor] \in Seq(Node) /\ Adjacent(slots[cursor])
            BY <2>1, <2>2, <3>1, Zenon
        <3>3. ASSUME NEW i \in dels, i <= Len(slots[cursor]),
                     slots' = [slots EXCEPT ![cursor] = RemovePosition(slots[cursor], i)]
              PROVE  \A b \in Bucket : Adjacent(slots'[b])
            <4>1. i \in Nat \ {0}
                BY <2>1, <3>3, Zenon DEF TypeOK
            <4>2. i \in 1..Len(slots[cursor])
                BY <3>2, <3>3, <4>1
            <4>3. Adjacent(RemovePosition(slots[cursor], i))
                BY <3>2, <4>2, AdjacentRemove, Zenon
            <4>4. QED
                BY <2>1, <2>2, <3>1, <3>3, <4>3, Zenon
        <3>4. QED
            BY <2>3, <2>6, <3>3, Zenon DEF DelNodeByIndex
    <2>7. CASE Restart
        BY <1>1, <2>7, Zenon DEF Restart
    <2>8. CASE Tick
        <3>1. \A b \in Bucket : slots'[b] = Aged(slots[b]) /\ slots[b] \in Seq(Node)
            BY <2>2, <2>8, Zenon DEF Tick
        <3>2. TAKE b \in Bucket
        <3>3. /\ Aged(slots[b]) \in Seq(Node) /\ Len(Aged(slots[b])) = Len(slots[b])
              /\ \A k \in 1..Len(slots[b]) : Aged(slots[b])[k].id = slots[b][k].id
            BY <3>1, AgedNodes, Zenon
        <3>4. Adjacent(Aged(slots[b]))
            BY <2>1, <3>1, <3>3, AdjacentSame, Zenon
        <3>5. QED
            BY <3>1, <3>4, Zenon
    <2>9. Sync \/ Stop \/ Exit \/ Silence \/ Started \/ UNCHANGED vars => UNCHANGED slots
        BY Zenon DEF Sync, Stop, Exit, Silence, Started, vars
    <2>10. CheckAllNodes \/ (\E late \in 0..MaxLag : CheckAllBuckets(late)) => UNCHANGED slots
        BY Zenon DEF CheckAllNodes, CheckAllBuckets
    <2>11. QED
        BY <2>1, <2>3, <2>4, <2>5, <2>6, <2>7, <2>8, <2>9, <2>10, Zenon DEF Next, Receive, Check, Load
<1>4. TypeOK /\ Inv => DuplicatesAreAdjacent
    <2>1. TypeOK => \A b \in Bucket : DOMAIN slots[b] = 1..Len(slots[b])
        BY DEF TypeOK
    <2>2. QED
        BY <2>1, Zenon DEF Adjacent, DuplicatesAreAdjacent
<1> HIDE DEF Inv
<1>5. QED
    BY <1>2, <1>3, <1>4, TypeCorrect, PTL DEF Spec

-----------------------------------------------------------------------------
(***************************************************************************)
(* Closest, for every table, target and maxnum                             *)
(***************************************************************************)

\* The inductive invariant.  ClosestAreKept alone is not inductive: a node may
\* be left out only once the list is full, or a farther node that is pushed
\* next would be kept in its place.
LeftOutOnlyIfFull ==
    \A i \in 1..pos :
        \/ \E k \in DOMAIN nodes : nodes[k] = table[i]
        \/ Len(nodes) = maxnum

ClosestInv ==
    /\ CTypeOK
    /\ SortedByDistance
    /\ AsManyAsAsked
    /\ ClosestAreKept
    /\ LeftOutOnlyIfFull

\* The list after a push: the nodes up to the insertion point stay, the others
\* move by one, and only in a full list the last one is lost.
LEMMA SlideNodes ==
    ASSUME NEW s \in Seq(NodeID), NEW ix \in 0..Len(s), NEW node \in NodeID, maxnum \in Nat,
           Len(s) <= maxnum
    PROVE  /\ Slide(s, ix, node) \in Seq(NodeID)
           /\ Len(Slide(s, ix, node)) = IF Len(s) < maxnum THEN Len(s) + 1 ELSE Len(s)
           /\ \A k \in 1..Len(Slide(s, ix, node)) :
                Slide(s, ix, node)[k] =
                    IF k <= ix THEN s[k] ELSE IF k = ix + 1 THEN node ELSE s[k - 1]
<1> DEFINE len == IF Len(s) < maxnum THEN Len(s) + 1 ELSE Len(s)
           e(k) == IF k <= ix THEN s[k] ELSE IF k = ix + 1 THEN node ELSE s[k - 1]
<1>1. len \in Nat /\ Len(s) \in Nat /\ \A k \in 1..Len(s) : s[k] \in NodeID
    OBVIOUS
<1>2. \A k \in 1..len : e(k) \in NodeID
    BY <1>1
<1>3. Slide(s, ix, node) = [k \in 1..len |-> e(k)]
    BY DEF Slide
<1>4. [k \in 1..len |-> e(k)] \in Seq(NodeID)
    <2> HIDE DEF e, len
    <2> QED  BY <1>1, <1>2, IsASeq
<1>5. Len(Slide(s, ix, node)) = len
    <2> HIDE DEF e, len
    <2> QED  BY <1>1, <1>3, <1>4
<1> QED
    BY <1>3, <1>4, <1>5

\* A push keeps the invariant.
LEMMA PushStep == ClosestInv /\ Push => ClosestInv'
<1> SUFFICES ASSUME ClosestInv, Push
             PROVE  ClosestInv'
    OBVIOUS
<1> DEFINE s == nodes
           t == nodes'
           node == table[pos + 1]
<1>1. /\ table \in Seq(NodeID) /\ maxnum \in Nat /\ pos \in Nat /\ pos < Len(table)
      /\ s \in Seq(NodeID) /\ Len(s) \in Nat
      /\ table' = table /\ maxnum' = maxnum /\ pos' = pos + 1
    BY DEF ClosestInv, CTypeOK, Push
<1>2. /\ node \in NodeID
      /\ \A k \in 1..Len(s) : s[k] \in NodeID
      /\ \A i \in 1..(pos + 1) : table[i] \in NodeID
    BY <1>1
<1>3. \A x \in NodeID : Dist[x] \in Nat
    BY DistAssumption
<1>4. PICK ix \in 0..Len(s) :
        /\ \A k \in 1..ix : Dist[s[k]] <= Dist[node]
        /\ ix < Len(s) => Dist[s[ix + 1]] > Dist[node]
        /\ t = Slide(s, ix, node)
    BY DEF Push, Search
<1>5. Len(s) = IF pos < maxnum THEN pos ELSE maxnum
    BY DEF ClosestInv, AsManyAsAsked
<1>6. Len(s) <= maxnum
    BY <1>1, <1>5
<1>7. /\ t \in Seq(NodeID)
      /\ Len(t) = IF Len(s) < maxnum THEN Len(s) + 1 ELSE Len(s)
      /\ \A k \in 1..Len(t) :
            t[k] = IF k <= ix THEN s[k] ELSE IF k = ix + 1 THEN node ELSE s[k - 1]
    <2>1. s \in Seq(NodeID) /\ ix \in 0..Len(s) /\ node \in NodeID /\ maxnum \in Nat /\ t = Slide(s, ix, node)
        BY <1>1, <1>2, <1>4
    <2> HIDE DEF s, t, node
    <2> QED  BY ONLY <1>6, <2>1, SlideNodes, ZenonT(60)
<1>8. DOMAIN s = 1..Len(s) /\ DOMAIN t = 1..Len(t) /\ Len(t) \in Nat
    BY <1>1, <1>7
<1>9. \/ Len(s) < maxnum /\ Len(t) = Len(s) + 1
      \/ Len(s) = maxnum /\ Len(t) = maxnum
    <2>1. Len(s) \in Nat /\ maxnum \in Nat
        BY <1>1
    <2>2. Len(t) = IF Len(s) < maxnum THEN Len(s) + 1 ELSE Len(s)
        BY <1>7
    <2> HIDE DEF s, t
    <2> QED  BY ONLY <1>6, <2>1, <2>2
<1>10. \A j, k \in 1..Len(s) : j <= k => Dist[s[j]] <= Dist[s[k]]
    BY <1>2, <1>3, <1>8 DEF ClosestInv, SortedByDistance
<1>11. \A k \in 1..Len(s) : k > ix => Dist[node] < Dist[s[k]]
    <2> SUFFICES ASSUME NEW k \in 1..Len(s), k > ix
                 PROVE  Dist[node] < Dist[s[k]]
        OBVIOUS
    <2>1. ix + 1 \in 1..Len(s) /\ ix + 1 <= k /\ ix < Len(s)
        BY <1>1
    <2>2. Dist[s[ix + 1]] > Dist[node] /\ Dist[s[ix + 1]] <= Dist[s[k]]
        BY <1>4, <1>10, <2>1
    <2> QED  BY <1>2, <1>3, <2>1, <2>2
<1>12. CTypeOK'
    BY <1>1, <1>7 DEF CTypeOK
<1>13. AsManyAsAsked'
    BY <1>1, <1>5, <1>7 DEF AsManyAsAsked
<1> HIDE DEF s, t, node
<1>14. ASSUME NEW j \in 1..Len(t), NEW k \in 1..Len(t), j < k
       PROVE  Dist[t[j]] <= Dist[t[k]]
    <2>1. CASE k <= ix
        <3>1. t[j] = s[j] /\ t[k] = s[k] /\ j \in 1..Len(s) /\ k \in 1..Len(s) /\ j <= k
            BY <1>1, <1>7, <1>14, <2>1
        <3> QED  BY <1>10, <3>1
    <2>2. CASE k = ix + 1
        <3>1. t[j] = s[j] /\ t[k] = node /\ j \in 1..ix
            BY <1>1, <1>7, <1>14, <2>2
        <3> QED  BY <1>4, <3>1
    <2>3. CASE k > ix + 1 /\ j = ix + 1
        <3>1. t[j] = node /\ t[k] = s[k - 1] /\ k - 1 \in 1..Len(s) /\ k - 1 > ix
            BY <1>1, <1>7, <1>8, <1>14, <2>3
        <3>2. Dist[node] < Dist[s[k - 1]]
            BY <1>11, <3>1
        <3> QED  BY <1>2, <1>3, <3>1, <3>2
    <2>4. CASE k > ix + 1 /\ j <= ix
        <3>1. t[j] = s[j] /\ t[k] = s[k - 1] /\ j \in 1..Len(s) /\ k - 1 \in 1..Len(s) /\ j <= k - 1
            BY <1>1, <1>7, <1>8, <1>14, <2>4
        <3> QED  BY <1>10, <3>1
    <2>5. CASE k > ix + 1 /\ j > ix + 1
        <3>1. t[j] = s[j - 1] /\ t[k] = s[k - 1]
              /\ j - 1 \in 1..Len(s) /\ k - 1 \in 1..Len(s) /\ j - 1 <= k - 1
            BY <1>1, <1>7, <1>8, <1>14, <2>5
        <3> QED  BY <1>10, <3>1
    <2> QED  BY <1>1, <1>8, <2>1, <2>2, <2>3, <2>4, <2>5
<1>15. SortedByDistance'
    BY <1>8, <1>14 DEF SortedByDistance, t
\* A node of the old list is kept unless it is the last of a full list.
<1>16. ASSUME NEW k \in 1..Len(s), ~(k = Len(s) /\ Len(s) = maxnum /\ ix < k)
       PROVE  \E l \in 1..Len(t) : t[l] = s[k]
    <2>1. CASE k <= ix
        <3>1. k \in 1..Len(t) /\ t[k] = s[k]
            BY <1>1, <1>7, <1>8, <2>1
        <3> QED  BY <3>1
    <2>2. CASE k > ix
        <3>1. k + 1 \in 1..Len(t)
            <4>1. k \in 1..Len(s) /\ Len(s) \in Nat /\ maxnum \in Nat /\ ix < k
                BY <1>1, <2>2
            <4> QED  BY ONLY <1>9, <1>16, <4>1
        <3>2. t[k + 1] = s[k]
            <4>1. k \in Nat /\ ix \in Nat
                BY <1>1
            <4>2. ~(k + 1 <= ix) /\ k + 1 # ix + 1 /\ (k + 1) - 1 = k
                BY ONLY <2>2, <4>1
            <4> HIDE DEF s, t, node
            <4>3. t[k + 1] = IF k + 1 <= ix THEN s[k + 1]
                             ELSE IF k + 1 = ix + 1 THEN node ELSE s[(k + 1) - 1]
                BY ONLY <1>7, <3>1, Zenon
            <4> QED  BY ONLY <4>2, <4>3
        <3> QED  BY <3>1, <3>2, Zenon
    <2>3. k <= ix \/ k > ix
        BY <1>1
    <2> QED  BY <2>1, <2>2, <2>3, Zenon
\* Every node of the new list is the pushed node or a node of the old list.
<1>17. ASSUME NEW k \in 1..Len(t)
       PROVE  (t[k] = node /\ k = ix + 1) \/ \E l \in 1..Len(s) : t[k] = s[l]
    <2>1. CASE k <= ix
        BY <1>1, <1>7, <2>1
    <2>2. CASE k = ix + 1
        BY <1>1, <1>7, <2>2
    <2>3. CASE k > ix + 1
        <3>1. t[k] = s[k - 1] /\ k - 1 \in 1..Len(s)
            BY <1>1, <1>7, <1>8, <2>3
        <3> QED  BY <3>1
    <2> QED  BY <1>1, <1>8, <2>1, <2>2, <2>3
\* The pushed node is kept unless it is farther than a full list.
<1>18. (\E k \in 1..Len(t) : t[k] = node) \/ (ix = Len(s) /\ Len(s) = maxnum)
    <2>1. CASE ix + 1 \in 1..Len(t)
        <3>1. t[ix + 1] = node
            BY <1>7, <2>1
        <3> QED  BY <2>1, <3>1
    <2>2. CASE ix + 1 \notin 1..Len(t)
        <3>1. ix \in 0..Len(s) /\ Len(s) \in Nat /\ maxnum \in Nat
            BY <1>1
        <3> QED  BY ONLY <1>9, <2>2, <3>1
    <2> QED  BY <2>1, <2>2
<1>19. \A k \in 1..Len(s) : \E i \in 1..pos : s[k] = table[i]
    BY <1>8 DEF ClosestInv, ClosestAreKept, s
<1>20. \A i \in 1..pos :
        \/ \E k \in 1..Len(s) : s[k] = table[i]
        \/ Len(s) = maxnum /\ \A k \in 1..Len(s) : Dist[s[k]] <= Dist[table[i]]
    BY <1>8 DEF ClosestInv, ClosestAreKept, LeftOutOnlyIfFull, s
\* Whatever is left out, the list is full and holds nothing farther.
<1>21. ASSUME NEW i \in 1..(pos + 1), \A k \in 1..Len(t) : t[k] # table[i]
       PROVE  Len(s) = maxnum /\ \A k \in 1..Len(t) : Dist[t[k]] <= Dist[table[i]]
    <2>1. CASE i = pos + 1
        <3>1. ix = Len(s) /\ Len(s) = maxnum
            BY <1>18, <1>21, <2>1 DEF node
        <3>2. \A k \in 1..Len(t) : k <= ix /\ k \in 1..ix
            BY <1>1, <1>7, <1>8, <3>1
        <3>3. \A k \in 1..Len(t) : t[k] = s[k]
            BY <1>7, <3>2
        <3> QED  BY <1>4, <2>1, <3>1, <3>2, <3>3 DEF node
    <2>2. CASE i \in 1..pos /\ \E k \in 1..Len(s) : s[k] = table[i]
        <3>1. PICK l \in 1..Len(s) : s[l] = table[i]
            BY <2>2
        <3>2. l = Len(s) /\ Len(s) = maxnum /\ ix < l
            BY <1>16, <1>21, <3>1
        <3>3. \A k \in 1..Len(s) : Dist[s[k]] <= Dist[s[l]]
            BY <1>1, <1>10, <3>2
        <3>4. Dist[node] <= Dist[s[l]]
            BY <1>2, <1>3, <1>11, <3>2
        <3> QED  BY <1>17, <3>1, <3>2, <3>3, <3>4
    <2>3. CASE i \in 1..pos /\ ~\E k \in 1..Len(s) : s[k] = table[i]
        <3>1. Len(s) = maxnum /\ \A k \in 1..Len(s) : Dist[s[k]] <= Dist[table[i]]
            BY <1>20, <2>3
        <3>2. ASSUME NEW k \in 1..Len(t), k = ix + 1, t[k] = node
              PROVE  Dist[node] <= Dist[table[i]]
            <4>1. ix + 1 \in 1..Len(s) /\ ix + 1 > ix
                BY <1>1, <1>7, <3>1, <3>2
            <4>2. Dist[node] < Dist[s[ix + 1]] /\ Dist[s[ix + 1]] <= Dist[table[i]]
                BY <1>11, <3>1, <4>1
            <4> QED  BY <1>2, <1>3, <4>1, <4>2
        <3> QED  BY <1>17, <3>1, <3>2
    <2> QED  BY <1>1, <2>1, <2>2, <2>3
<1>22. ClosestAreKept'
    <2>1. \A k \in 1..Len(t) : \E i \in 1..(pos + 1) : t[k] = table[i]
        <3>1. \A i \in 1..pos : i \in 1..(pos + 1)
            BY <1>1
        <3>2. pos + 1 \in 1..(pos + 1)
            BY <1>1
        <3>3. table[pos + 1] = node
            BY DEF node
        <3> HIDE DEF s, t, node
        <3> TAKE k \in 1..Len(t)
        <3>4. CASE t[k] = node
            BY ONLY <3>2, <3>3, <3>4, Zenon
        <3>5. CASE \E l \in 1..Len(s) : t[k] = s[l]
            BY ONLY <1>19, <3>1, <3>5, Zenon
        <3> QED  BY ONLY <1>17, <3>4, <3>5, k \in 1..Len(t), Zenon
    <2> QED
        BY <1>1, <1>8, <1>21, <2>1 DEF ClosestAreKept, t
<1>23. LeftOutOnlyIfFull'
    <2>1. \A i \in 1..(pos + 1) : (\E k \in 1..Len(t) : t[k] = table[i]) \/ Len(t) = maxnum
        BY <1>1, <1>21, <1>9
    <2> QED  BY <1>1, <1>8, <2>1 DEF LeftOutOnlyIfFull, t
<1> QED
    BY <1>12, <1>13, <1>15, <1>22, <1>23 DEF ClosestInv

\* A state in which nothing has been pushed satisfies the invariant.
LEMMA ClosestInit == CInit => ClosestInv
<1> SUFFICES ASSUME CInit
             PROVE  ClosestInv
    OBVIOUS
<1>1. PICK n \in 0..MaxTable : table \in [1..n -> NodeID]
    BY DEF CInit
<1>2. table \in Seq(NodeID) /\ Len(table) \in Nat
    BY <1>1, DistAssumption
<1> QED
    BY <1>2, DistAssumption
    DEF CInit, ClosestInv, CTypeOK, SortedByDistance, AsManyAsAsked, ClosestAreKept, LeftOutOnlyIfFull

\* The invariant holds in every state of every call.
LEMMA ClosestInvariance == CSpec => []ClosestInv
<1>1. ClosestInv /\ [Push]_cvars => ClosestInv'
    <2>1. ClosestInv /\ UNCHANGED cvars => ClosestInv'
        BY DEF cvars, ClosestInv, CTypeOK, SortedByDistance, AsManyAsAsked, ClosestAreKept, LeftOutOnlyIfFull
    <2> QED  BY <2>1, PushStep
<1> QED
    BY <1>1, ClosestInit, PTL DEF CSpec

\* What Closest returns is sorted by the distance to the target.
THEOREM ClosestIsSorted == CSpec => []SortedByDistance
BY ClosestInvariance, PTL DEF ClosestInv

\* Closest returns maxnum nodes, or as many as the table has slots.
THEOREM ClosestReturnsEnough == CSpec => []AsManyAsAsked
BY ClosestInvariance, PTL DEF ClosestInv

\* Closest returns as many nodes as asked for, and no node of the table that it
\* leaves out is closer to the target than one it returns.
THEOREM ClosestReturnsTheClosest == CSpec => []ClosestAreReturned
<1>1. ClosestInv => ClosestAreReturned
    BY DEF ClosestInv, ClosestAreReturned
<1> QED
    BY ClosestInvariance, <1>1, PTL

-----------------------------------------------------------------------------
(***************************************************************************)
(* The metric.  Its operators are loops over the bits of a byte: a set of  *)
(* numbers with 0 and all successors is how the proofs follow them.        *)
(***************************************************************************)

\* A set of numbers has a least element.
LEMMA LeastNumber ==
    ASSUME NEW S \in SUBSET Nat, S # {}
    PROVE  \E m \in S : \A n \in S : m <= n
<1>1. PICK m \in S : \A y \in S : ~(<<y, m>> \in OpToRel(<, Nat))
  BY NatLessThanWellFounded, WFMin, Zenon
<1>2. \A y \in S : ~(y < m)
  BY <1>1 DEF OpToRel
<1>3. QED
  BY <1>2

\* Induction: a set with 0 that has with each number below N its successor.
LEMMA NumbersUpTo ==
    ASSUME NEW N \in Nat, NEW T, 0 \in T, \A n \in 0..(N - 1) : n \in T => n + 1 \in T
    PROVE  0..N \subseteq T
<1>1. SUFFICES ASSUME (0..N) \ T # {} PROVE FALSE
  BY Zenon
<1>2. (0..N) \ T \in SUBSET Nat
  OBVIOUS
<1>3. PICK m \in (0..N) \ T : \A n \in (0..N) \ T : m <= n
  BY <1>1, <1>2, LeastNumber, Zenon
<1>4. m \in 0..N /\ m \notin T /\ m # 0
  BY <1>3, Zenon
<1>5. m - 1 \in 0..(N - 1) /\ m - 1 \in 0..N /\ ~(m <= m - 1) /\ (m - 1) + 1 = m
  BY <1>4
<1>6. QED
  BY <1>3, <1>4, <1>5, Zenon

\* A loop of N rounds that begins with a and makes F[n][g] of g in round n.
Runs(g, a, F, N) ==
    /\ g \in [0..N -> Nat]
    /\ g[0] = a
    /\ \A n \in 1..N : g[n] = F[n][g[n - 1]]

\* The recursive functions of NodeDistance exist.
LEMMA LoopRuns ==
    ASSUME NEW N \in Nat, NEW a \in Nat, NEW F, \A n \in 1..N : F[n] \in [Nat -> Nat]
    PROVE  \E g : Runs(g, a, F, N)
<1> DEFINE T == {n \in Nat : \E g : Runs(g, a, F, n)}
<1>1. 0 \in T
  <2>1. Runs([n \in 0..0 |-> a], a, F, 0)
    BY DEF Runs
  <2>2. QED
    BY <2>1
<1>2. ASSUME NEW n \in 0..(N - 1), n \in T PROVE n + 1 \in T
  <2>1. PICK g : Runs(g, a, F, n)
    BY <1>2
  <2>2. n \in Nat /\ n \in 0..n /\ n + 1 \in 1..N /\ n + 1 \in 0..(n + 1) /\ n + 1 \notin 0..n /\ (n + 1) - 1 = n
    OBVIOUS
  <2>3. PICK v : v = F[n + 1][g[n]]
    BY Zenon
  <2>4. v \in Nat
    BY <2>1, <2>2, <2>3, Zenon DEF Runs
  <2> DEFINE h == [k \in 0..(n + 1) |-> IF k = n + 1 THEN v ELSE g[k]]
  <2>5. \A k \in 0..(n + 1) : k # n + 1 => k \in 0..n
    OBVIOUS
  <2>6. h \in [0..(n + 1) -> Nat]
    BY <2>1, <2>4, <2>5, Zenon DEF Runs
  <2>7. h[n + 1] = v /\ \A k \in 0..n : h[k] = g[k]
    <3>1. \A k \in 0..n : k \in 0..(n + 1) /\ k # n + 1
      OBVIOUS
    <3>2. QED
      BY <3>1, <2>2, Zenon
  <2> HIDE DEF h
  <2>8. h[0] = a
    <3>1. 0 \in 0..n
      OBVIOUS
    <3>2. QED
      BY <3>1, <2>1, <2>7, Zenon DEF Runs
  <2>9. ASSUME NEW k \in 1..(n + 1) PROVE h[k] = F[k][h[k - 1]]
    <3>1. CASE k = n + 1
      BY <3>1, <2>2, <2>3, <2>7, Zenon
    <3>2. CASE k # n + 1
      <4>1. k \in 1..n /\ k \in 0..n /\ k - 1 \in 0..n
        BY <3>2
      <4>2. QED
        BY <4>1, <2>1, <2>7, Zenon DEF Runs
    <3>3. QED
      BY <3>1, <3>2
  <2>10. Runs(h, a, F, n + 1)
    BY <2>6, <2>8, <2>9, Zenon DEF Runs
  <2>11. QED
    BY <2>2, <2>10
<1> HIDE DEF T
<1>3. N \in T
  <2>1. 0..N \subseteq T
    BY <1>1, <1>2, NumbersUpTo, Zenon
  <2>2. N \in 0..N
    OBVIOUS
  <2>3. QED
    BY <2>1, <2>2, Zenon
<1>4. QED
  BY <1>3, Zenon DEF T

\* A loop that makes numbers of numbers.
LEMMA LoopOfNumbers ==
    ASSUME NEW N \in Nat, NEW f, f[0] \in Nat, \A n \in 1..N : f[n - 1] \in Nat => f[n] \in Nat
    PROVE  \A n \in 0..N : f[n] \in Nat
<1> DEFINE T == {n \in Nat : f[n] \in Nat}
<1>1. 0 \in T
  OBVIOUS
<1>2. ASSUME NEW n \in 0..(N - 1), n \in T PROVE n + 1 \in T
  <2>1. n + 1 \in 1..N /\ (n + 1) - 1 = n /\ n + 1 \in Nat
    OBVIOUS
  <2>2. f[n + 1] \in Nat
    BY <1>2, <2>1, Zenon
  <2>3. QED
    BY <2>1, <2>2
<1> HIDE DEF T
<1>3. 0..N \subseteq T
  BY <1>1, <1>2, NumbersUpTo, Zenon
<1>4. QED
  BY <1>3, Zenon DEF T

-----------------------------------------------------------------------------
(***************************************************************************)
(* Bytes: powers of two, shifts and exclusive or                           *)
(***************************************************************************)
\* The numbers that a byte may be are twice as many with each bit.
LEMMA PowersAre ==
    /\ Powers \in [0..Bits -> Nat] /\ Powers[0] = 1
    /\ \A n \in 1..Bits : Powers[n] = 2 * Powers[n - 1]
<1> DEFINE F == [n \in 1..Bits |-> [v \in Nat |-> 2 * v]]
           Is(g) == g = [n \in 0..Bits |-> IF n = 0 THEN 1 ELSE 2 * g[n - 1]]
<1>1. PICK g : Runs(g, 1, F, Bits)
  <2>1. Bits \in Nat /\ \A n \in 1..Bits : F[n] \in [Nat -> Nat]
    BY SizeAssumption
  <2> HIDE DEF F
  <2>2. QED
    BY <2>1, LoopRuns
<1>2. \A n \in 1..Bits : n - 1 \in 0..Bits /\ n \in 0..Bits /\ n # 0
  BY SizeAssumption
<1>3. \A n \in 1..Bits : g[n] = 2 * g[n - 1]
  BY <1>1, <1>2 DEF Runs
<1>4. Is(g)
  <2>1. g = [n \in 0..Bits |-> g[n]]
    BY <1>1, Zenon DEF Runs
  <2>2. \A n \in 0..Bits : n = 0 \/ n \in 1..Bits
    BY SizeAssumption
  <2>3. \A n \in 0..Bits : g[n] = IF n = 0 THEN 1 ELSE 2 * g[n - 1]
    BY <1>1, <1>3, <2>2, Zenon DEF Runs
  <2>4. QED
    BY <2>1, <2>3, Zenon
<1>5. Is(Powers)
  <2>1. Powers = CHOOSE f : Is(f)
    BY Zenon DEF Powers
  <2> HIDE DEF Is
  <2>2. QED
    BY <1>4, <2>1, Zenon
<1>6. \A n \in 0..Bits : Powers[n] = IF n = 0 THEN 1 ELSE 2 * Powers[n - 1]
  BY <1>5, Zenon
<1>7. 0 \in 0..Bits
  BY SizeAssumption
<1>8. Powers[0] = 1 /\ \A n \in 1..Bits : Powers[n] = 2 * Powers[n - 1]
  BY <1>2, <1>6, <1>7, Zenon
<1>9. \A n \in 0..Bits : Powers[n] \in Nat
  <2>1. \A n \in 1..Bits : Powers[n - 1] \in Nat => Powers[n] \in Nat
    BY <1>8
  <2>2. QED
    BY <2>1, <1>8, LoopOfNumbers, SizeAssumption
<1>10. DOMAIN Powers = 0..Bits /\ Powers = [n \in 0..Bits |-> Powers[n]]
  BY <1>5, Zenon
<1>11. QED
  BY <1>8, <1>9, <1>10, Zenon

\* v >> k is v >> (k - 1), shifted once more.
LEMMA ShiftsAre ==
    ASSUME NEW v \in Nat
    PROVE  /\ Shifts(v) \in [0..Bits -> Nat] /\ Shifts(v)[0] = v
           /\ \A k \in 1..Bits : Shifts(v)[k] = Shifts(v)[k - 1] \div 2
<1> DEFINE F == [n \in 1..Bits |-> [u \in Nat |-> u \div 2]]
           Is(g) == g = [k \in 0..Bits |-> IF k = 0 THEN v ELSE g[k - 1] \div 2]
<1>1. PICK g : Runs(g, v, F, Bits)
  <2>1. Bits \in Nat /\ \A n \in 1..Bits : F[n] \in [Nat -> Nat]
    BY SizeAssumption
  <2> HIDE DEF F
  <2>2. QED
    BY <2>1, LoopRuns
<1>2. \A n \in 1..Bits : n - 1 \in 0..Bits /\ n \in 0..Bits /\ n # 0
  BY SizeAssumption
<1>3. \A n \in 1..Bits : g[n] = g[n - 1] \div 2
  BY <1>1, <1>2 DEF Runs
<1>4. Is(g)
  <2>1. g = [n \in 0..Bits |-> g[n]]
    BY <1>1, Zenon DEF Runs
  <2>2. \A n \in 0..Bits : n = 0 \/ n \in 1..Bits
    BY SizeAssumption
  <2>3. \A n \in 0..Bits : g[n] = IF n = 0 THEN v ELSE g[n - 1] \div 2
    BY <1>1, <1>3, <2>2, Zenon DEF Runs
  <2>4. QED
    BY <2>1, <2>3, Zenon
<1>5. PICK s : s = Shifts(v)
  BY Zenon
<1>6. Is(s)
  <2>1. s = CHOOSE f : Is(f)
    BY <1>5, Zenon DEF Shifts
  <2> HIDE DEF Is
  <2>2. QED
    BY <1>4, <2>1, Zenon
<1>7. \A n \in 0..Bits : s[n] = IF n = 0 THEN v ELSE s[n - 1] \div 2
  BY <1>6, Zenon
<1>8. 0 \in 0..Bits
  BY SizeAssumption
<1>9. s[0] = v /\ \A n \in 1..Bits : s[n] = s[n - 1] \div 2
  BY <1>2, <1>7, <1>8, Zenon
<1>10. \A n \in 0..Bits : s[n] \in Nat
  <2>1. \A n \in 1..Bits : s[n - 1] \in Nat => s[n] \in Nat
    BY <1>9
  <2>2. QED
    BY <2>1, <1>9, LoopOfNumbers, SizeAssumption
<1>11. s = [n \in 0..Bits |-> s[n]]
  BY <1>6, Zenon
<1>12. QED
  BY <1>5, <1>9, <1>10, <1>11, Zenon

\* The same, for the next shift and the next power.
LEMMA NextOnes ==
    ASSUME NEW v \in Nat, NEW n \in 0..(Bits - 1)
    PROVE  /\ Shifts(v)[n + 1] = Shifts(v)[n] \div 2 /\ Shifts(v)[n] \in Nat
           /\ Powers[n + 1] = 2 * Powers[n] /\ Powers[n] \in Nat
<1>1. PICK m : m = n + 1
  BY Zenon
<1>2. m \in 1..Bits /\ m - 1 = n /\ n \in 0..Bits
  BY <1>1, SizeAssumption
<1>3. Shifts(v)[m] = Shifts(v)[m - 1] \div 2 /\ Powers[m] = 2 * Powers[m - 1]
  BY <1>2, ShiftsAre, PowersAre, Zenon
<1>4. Shifts(v)[n] \in Nat /\ Powers[n] \in Nat
  BY <1>2, ShiftsAre, PowersAre, Zenon
<1>5. QED
  BY <1>1, <1>2, <1>3, <1>4, Zenon

\* A bit is 0 or 1, and shifting drops it.
LEMMA BitsAre ==
    ASSUME NEW v \in Nat, NEW k \in 0..(Bits - 1)
    PROVE  /\ BitOf(v, k) \in {0, 1}
           /\ Shifts(v)[k] \in Nat /\ Shifts(v)[k + 1] \in Nat
           /\ Shifts(v)[k] = 2 * Shifts(v)[k + 1] + BitOf(v, k)
<1>1. k \in 0..Bits /\ k + 1 \in 0..Bits /\ k + 1 \in 1..Bits /\ (k + 1) - 1 = k
  BY SizeAssumption
<1>2. PICK s, t : s = Shifts(v)[k] /\ t = Shifts(v)[k + 1]
  BY Zenon
<1>3. s \in Nat /\ t \in Nat /\ t = s \div 2
  BY <1>1, <1>2, ShiftsAre, Zenon
<1>4. s % 2 \in {0, 1} /\ s = 2 * t + (s % 2)
  BY <1>3
<1>5. QED
  BY <1>2, <1>3, <1>4, Zenon DEF BitOf

\* The rounds of Xor, from the highest bit on.
IsXor(x, a, b) ==
    /\ x \in [0..Bits -> Nat] /\ x[0] = 0 /\ x[Bits] = Xor(a, b)
    /\ \A n \in 1..Bits : x[n] = 2 * x[n - 1] + (IF BitOf(a, Bits - n) = BitOf(b, Bits - n) THEN 0 ELSE 1)

\* They exist, for numbers of any size.
LEMMA XorRuns ==
    ASSUME NEW a \in Nat, NEW b \in Nat
    PROVE  \E x : IsXor(x, a, b)
<1> DEFINE bit(n) == IF BitOf(a, Bits - n) = BitOf(b, Bits - n) THEN 0 ELSE 1
           F == [n \in 1..Bits |-> [u \in Nat |-> 2 * u + bit(n)]]
           Is(g) == g = [n \in 0..Bits |-> IF n = 0 THEN 0 ELSE 2 * g[n - 1] + bit(n)]
<1>0. \A n : bit(n) \in Nat
  OBVIOUS
<1>5. PICK s : s = CHOOSE f : Is(f)
  BY Zenon
<1>51. Xor(a, b) = s[Bits]
  BY <1>5, Zenon DEF Xor
<1> HIDE DEF bit
<1>1. PICK g : Runs(g, 0, F, Bits)
  <2>1. Bits \in Nat /\ \A n \in 1..Bits : F[n] \in [Nat -> Nat]
    BY <1>0, SizeAssumption
  <2> HIDE DEF F
  <2>2. QED
    BY <2>1, LoopRuns
<1>2. \A n \in 1..Bits : n - 1 \in 0..Bits /\ n \in 0..Bits /\ n # 0
  BY SizeAssumption
<1>3. \A n \in 1..Bits : g[n] = 2 * g[n - 1] + bit(n)
  BY <1>1, <1>2 DEF Runs
<1>4. Is(g)
  <2>1. g = [n \in 0..Bits |-> g[n]]
    BY <1>1, Zenon DEF Runs
  <2>2. \A n \in 0..Bits : n = 0 \/ n \in 1..Bits
    BY SizeAssumption
  <2>3. \A n \in 0..Bits : g[n] = IF n = 0 THEN 0 ELSE 2 * g[n - 1] + bit(n)
    BY <1>1, <1>3, <2>2, Zenon DEF Runs
  <2>4. QED
    BY <2>1, <2>3, Zenon
<1>6. Is(s)
  <2> HIDE DEF Is
  <2>2. QED
    BY <1>4, <1>5, Zenon
<1>7. \A n \in 0..Bits : s[n] = IF n = 0 THEN 0 ELSE 2 * s[n - 1] + bit(n)
  BY <1>6, Zenon
<1>8. 0 \in 0..Bits
  BY SizeAssumption
<1>9. s[0] = 0 /\ \A n \in 1..Bits : s[n] = 2 * s[n - 1] + bit(n)
  BY <1>2, <1>7, <1>8, Zenon
<1>10. \A n \in 0..Bits : s[n] \in Nat
  <2>1. \A n \in 1..Bits : s[n - 1] \in Nat => s[n] \in Nat
    BY <1>0, <1>9
  <2>2. QED
    BY <2>1, <1>9, LoopOfNumbers, SizeAssumption
<1>11. s = [n \in 0..Bits |-> s[n]]
  BY <1>6, Zenon
<1>12. s \in [0..Bits -> Nat]
  BY <1>10, <1>11, Zenon
<1>13. QED
  BY <1>51, <1>9, <1>12, Zenon DEF IsXor, bit

\* Nothing is left of a byte after Bits shifts.
LEMMA ByteEnds ==
    ASSUME NEW v \in Byte
    PROVE  v \in Nat /\ Shifts(v)[Bits] = 0
<1> DEFINE T == {n \in Nat : Shifts(v)[n] < Powers[Bits - n]}
<1>0. Bits \in Nat /\ Bits \in 0..Bits /\ Powers[Bits] \in Nat
  BY PowersAre, SizeAssumption
<1>1. v \in Nat /\ v < Powers[Bits]
  BY <1>0 DEF Byte
<1>2. 0 \in T
  <2>1. Shifts(v)[0] = v /\ Bits - 0 = Bits
    BY <1>0, <1>1, ShiftsAre
  <2>2. Shifts(v)[0] < Powers[Bits - 0]
    BY <1>1, <2>1, Zenon
  <2>3. QED
    BY <2>2
<1>3. ASSUME NEW n \in 0..(Bits - 1), n \in T PROVE n + 1 \in T
  <2>1. /\ n + 1 \in 1..Bits /\ (n + 1) - 1 = n /\ n + 1 \in Nat /\ n \in 0..Bits /\ n + 1 \in 0..Bits
        /\ Bits - (n + 1) \in 0..(Bits - 1) /\ (Bits - (n + 1)) + 1 = Bits - n
    BY <1>0
  <2>2. PICK s, t, p, q : s = Shifts(v)[n] /\ t = Shifts(v)[n + 1] /\ p = Powers[Bits - n] /\ q = Powers[Bits - (n + 1)]
    BY Zenon
  <2>3. s \in Nat /\ t = s \div 2 /\ q \in Nat /\ p = 2 * q
    BY <1>1, <2>1, <2>2, NextOnes, Zenon
  <2>4. s < p
    BY <1>3, <2>2, Zenon
  <2>5. t < q
    BY <2>3, <2>4
  <2>6. QED
    BY <2>1, <2>2, <2>5, Zenon
<1> HIDE DEF T
<1>4. 0..Bits \subseteq T
  BY <1>0, <1>2, <1>3, NumbersUpTo, Zenon
<1>5. Shifts(v)[Bits] < Powers[Bits - Bits] /\ Shifts(v)[Bits] \in Nat
  BY <1>0, <1>1, <1>4, ShiftsAre, Zenon DEF T
<1>6. Bits - Bits = 0
  BY <1>0
<1>7. QED
  BY <1>1, <1>5, <1>6, PowersAre

\* The exclusive or of two bytes is a byte, whose bits tell where they differ.
LEMMA XorIs ==
    ASSUME NEW a \in Byte, NEW b \in Byte
    PROVE  /\ Xor(a, b) \in Byte
           /\ \A k \in 0..(Bits - 1) : BitOf(Xor(a, b), k) = IF BitOf(a, k) = BitOf(b, k) THEN 0 ELSE 1
<1>0. Bits \in Nat /\ a \in Nat /\ b \in Nat
  BY ByteEnds, SizeAssumption
<1>1. PICK x : IsXor(x, a, b)
  BY <1>0, XorRuns
<1> DEFINE bit(n) == IF BitOf(a, n) = BitOf(b, n) THEN 0 ELSE 1
<1>2. \A n : bit(n) \in {0, 1}
  OBVIOUS
<1>3. \A n \in 1..Bits : x[n] = 2 * x[n - 1] + bit(Bits - n)
  BY <1>1, Zenon DEF IsXor
<1>4. \A n \in 0..Bits : x[n] \in Nat
  BY <1>1, Zenon DEF IsXor
<1> HIDE DEF bit
<1>5. Xor(a, b) \in Byte
  <2> DEFINE T == {n \in Nat : x[n] < Powers[n]}
  <2>1. 0 \in T
    BY <1>1, PowersAre DEF IsXor
  <2>2. ASSUME NEW n \in 0..(Bits - 1), n \in T PROVE n + 1 \in T
    <3>1. n + 1 \in 1..Bits /\ (n + 1) - 1 = n /\ n + 1 \in Nat /\ n \in 0..Bits
      BY <1>0
    <3>2. PICK s, p, d : s = x[n] /\ p = Powers[n] /\ d = bit(Bits - (n + 1))
      BY Zenon
    <3>3. s \in Nat /\ p \in Nat /\ d \in {0, 1} /\ s < p
      BY <1>2, <1>4, <2>2, <3>1, <3>2, PowersAre, Zenon
    <3>4. x[n + 1] = 2 * s + d /\ Powers[n + 1] = 2 * p
      BY <1>3, <3>1, <3>2, PowersAre, Zenon
    <3>5. QED
      BY <3>1, <3>3, <3>4
  <2> HIDE DEF T
  <2>3. 0..Bits \subseteq T
    BY <1>0, <2>1, <2>2, NumbersUpTo, Zenon
  <2>4. Bits \in 0..Bits
    BY <1>0
  <2>5. x[Bits] < Powers[Bits] /\ x[Bits] \in Nat /\ Powers[Bits] \in Nat
    BY <1>4, <2>3, <2>4, PowersAre, Zenon DEF T
  <2>6. QED
    BY <1>1, <2>5 DEF IsXor, Byte
<1>6. PICK u : u = Xor(a, b)
  BY Zenon
<1>7. u \in Nat
  BY <1>5, <1>6, ByteEnds, Zenon
<1>8. \A k \in 0..Bits : Shifts(u)[k] = x[Bits - k]
  <2> DEFINE T == {n \in Nat : Shifts(u)[n] = x[Bits - n]}
  <2>1. 0 \in T
    <3>1. Bits - 0 = Bits
      BY <1>0
    <3>2. Shifts(u)[0] = x[Bits - 0]
      BY <3>1, <1>1, <1>6, <1>7, ShiftsAre, Zenon DEF IsXor
    <3>3. QED
      BY <3>2
  <2>2. ASSUME NEW n \in 0..(Bits - 1), n \in T PROVE n + 1 \in T
    <3>1. /\ n + 1 \in 1..Bits /\ (n + 1) - 1 = n /\ n + 1 \in Nat
          /\ Bits - n \in 1..Bits /\ (Bits - n) - 1 = Bits - (n + 1) /\ Bits - (n + 1) \in 0..Bits
      BY <1>0
    <3>2. PICK s, y, d : s = Shifts(u)[n] /\ y = x[Bits - (n + 1)] /\ d = bit(Bits - (Bits - n))
      BY Zenon
    <3>3. y \in Nat /\ d \in {0, 1} /\ s = 2 * y + d
      BY <1>2, <1>3, <1>4, <2>2, <3>1, <3>2, Zenon
    <3>4. Shifts(u)[n + 1] = s \div 2
      BY <1>7, <3>2, NextOnes, Zenon
    <3>5. s \div 2 = y
      BY <3>3
    <3>6. QED
      BY <3>1, <3>2, <3>4, <3>5, Zenon
  <2> HIDE DEF T
  <2>3. 0..Bits \subseteq T
    BY <1>0, <2>1, <2>2, NumbersUpTo, Zenon
  <2>4. QED
    BY <2>3, Zenon DEF T
<1>9. ASSUME NEW k \in 0..(Bits - 1) PROVE BitOf(u, k) = bit(k)
  <2>1. k \in 0..Bits /\ Bits - k \in 1..Bits /\ (Bits - k) - 1 \in 0..Bits /\ Bits - (Bits - k) = k
    BY <1>0
  <2>2. PICK y, d : y = x[(Bits - k) - 1] /\ d = bit(k)
    BY Zenon
  <2>3. y \in Nat /\ d \in {0, 1} /\ x[Bits - k] = 2 * y + d
    BY <1>2, <1>3, <1>4, <2>1, <2>2, Zenon
  <2>4. (2 * y + d) % 2 = d
    BY <2>3
  <2>5. QED
    BY <1>8, <2>1, <2>2, <2>3, <2>4, Zenon DEF BitOf
<1>10. QED
  BY <1>5, <1>6, <1>9, Zenon DEF bit

-----------------------------------------------------------------------------
(***************************************************************************)
(* The order of bytes is that of their highest different bit               *)
(***************************************************************************)
\* u and v have the same bits from k on.
SameFrom(u, v, k) == \A j \in k..(Bits - 1) : BitOf(u, j) = BitOf(v, j)

\* Numbers with the same bits from k on are the same after k shifts.
LEMMA SameShifts ==
    ASSUME NEW u \in Byte, NEW v \in Byte, NEW k \in 0..Bits, SameFrom(u, v, k)
    PROVE  Shifts(u)[k] = Shifts(v)[k]
<1> DEFINE T == {n \in Nat : Shifts(u)[Bits - n] = Shifts(v)[Bits - n]}
<1>0. Bits \in Nat /\ Bits - k \in Nat /\ Bits - 0 = Bits /\ Bits - (Bits - k) = k /\ Bits - k \in 0..(Bits - k)
  BY SizeAssumption
<1>1. 0 \in T
  <2>1. Shifts(u)[Bits - 0] = Shifts(v)[Bits - 0]
    BY <1>0, ByteEnds, Zenon
  <2>2. QED
    BY <2>1
<1>2. ASSUME NEW n \in 0..((Bits - k) - 1), n \in T PROVE n + 1 \in T
  <2>1. PICK m : m = Bits - (n + 1)
    BY Zenon
  <2>2. n + 1 \in Nat /\ m \in 0..(Bits - 1) /\ m \in k..(Bits - 1) /\ m + 1 = Bits - n
    BY <1>0, <2>1
  <2>3. u \in Nat /\ v \in Nat
    BY ByteEnds, Zenon
  <2>4. Shifts(u)[m] = 2 * Shifts(u)[m + 1] + BitOf(u, m) /\ Shifts(v)[m] = 2 * Shifts(v)[m + 1] + BitOf(v, m)
    BY <2>2, <2>3, BitsAre, Zenon
  <2>5. Shifts(u)[m + 1] = Shifts(v)[m + 1] /\ BitOf(u, m) = BitOf(v, m)
    BY <1>2, <2>2, Zenon DEF SameFrom
  <2>6. Shifts(u)[m] = Shifts(v)[m]
    BY <2>4, <2>5, Zenon
  <2>7. QED
    BY <2>1, <2>2, <2>6, Zenon
<1> HIDE DEF T
<1>3. 0..(Bits - k) \subseteq T
  BY <1>0, <1>1, <1>2, NumbersUpTo, Zenon
<1>4. QED
  BY <1>0, <1>3, Zenon DEF T

\* Two bytes with the same bits are equal.
LEMMA SameBytes ==
    ASSUME NEW u \in Byte, NEW v \in Byte, SameFrom(u, v, 0)
    PROVE  u = v
<1>1. 0 \in 0..Bits
  BY SizeAssumption
<1>2. Shifts(u)[0] = u /\ Shifts(v)[0] = v
  BY ByteEnds, ShiftsAre, Zenon
<1>3. QED
  BY <1>1, <1>2, SameShifts, Zenon

\* Shifting keeps the order.
LEMMA ShiftsKeepOrder ==
    ASSUME NEW u \in Nat, NEW v \in Nat, u <= v, NEW k \in 0..Bits
    PROVE  Shifts(u)[k] <= Shifts(v)[k]
<1> DEFINE T == {n \in Nat : Shifts(u)[n] <= Shifts(v)[n]}
<1>1. 0 \in T
  BY ShiftsAre
<1>2. ASSUME NEW n \in 0..(Bits - 1), n \in T PROVE n + 1 \in T
  <2>1. PICK s, t : s = Shifts(u)[n] /\ t = Shifts(v)[n]
    BY Zenon
  <2>2. s \in Nat /\ t \in Nat /\ Shifts(u)[n + 1] = s \div 2 /\ Shifts(v)[n + 1] = t \div 2
    BY <2>1, NextOnes, Zenon
  <2>3. s <= t
    BY <1>2, <2>1, Zenon
  <2>4. s \div 2 <= t \div 2 /\ n + 1 \in Nat
    BY <2>2, <2>3
  <2>5. QED
    BY <2>2, <2>4, Zenon
<1> HIDE DEF T
<1>3. 0..Bits \subseteq T
  BY <1>1, <1>2, NumbersUpTo, SizeAssumption, Zenon
<1>4. QED
  BY <1>3, Zenon DEF T

\* The highest bit at which two bytes differ.
SplitAt(u, v, k) == BitOf(u, k) # BitOf(v, k) /\ SameFrom(u, v, k + 1)

\* It says which one is smaller.
LEMMA SplitDecides ==
    ASSUME NEW u \in Byte, NEW v \in Byte, NEW k \in 0..(Bits - 1), SplitAt(u, v, k)
    PROVE  /\ u # v /\ (u < v => BitOf(u, k) = 0 /\ BitOf(v, k) = 1)
           /\ (~(u < v) => BitOf(u, k) = 1 /\ BitOf(v, k) = 0)
<1>1. u \in Nat /\ v \in Nat /\ k \in 0..Bits /\ k + 1 \in 0..Bits
  BY ByteEnds, SizeAssumption
<1>2. PICK s, t, y, c, d : /\ s = Shifts(u)[k] /\ t = Shifts(v)[k] /\ y = Shifts(u)[k + 1]
                           /\ c = BitOf(u, k) /\ d = BitOf(v, k)
  BY Zenon
<1>3. y = Shifts(v)[k + 1]
  BY <1>1, <1>2, SameShifts, Zenon DEF SplitAt
<1>4. y \in Nat /\ c \in {0, 1} /\ d \in {0, 1} /\ s = 2 * y + c /\ t = 2 * y + d
  BY <1>1, <1>2, <1>3, BitsAre, Zenon
<1>5. c # d
  BY <1>2, Zenon DEF SplitAt
<1>6. (u <= v => s <= t) /\ (v <= u => t <= s)
  BY <1>1, <1>2, ShiftsKeepOrder, Zenon
<1>7. u # v
  BY <1>2, <1>5, Zenon
<1>8. QED
  <2>1. CASE u < v
    <3>1. c = 0 /\ d = 1
      BY <2>1, <1>1, <1>4, <1>5, <1>6
    <3>2. QED
      BY <3>1, <1>2, <1>7, <2>1, Zenon
  <2>2. CASE ~(u < v)
    <3>1. c = 1 /\ d = 0
      BY <2>2, <1>1, <1>4, <1>5, <1>6
    <3>2. QED
      BY <3>1, <1>2, <1>7, <2>2, Zenon
  <2>3. QED
    BY <2>1, <2>2, Zenon

\* Two different bytes have one.
LEMMA SplitExists ==
    ASSUME NEW u \in Byte, NEW v \in Byte, u # v
    PROVE  \E k \in 0..(Bits - 1) : SplitAt(u, v, k)
<1> DEFINE S == {n \in 0..(Bits - 1) : BitOf(u, (Bits - 1) - n) # BitOf(v, (Bits - 1) - n)}
<1>0. Bits \in Nat
  BY SizeAssumption
<1>1. S \in SUBSET Nat
  BY <1>0
<1>2. PICK j \in 0..(Bits - 1) : BitOf(u, j) # BitOf(v, j)
  BY SameBytes, Zenon DEF SameFrom
<1>3. (Bits - 1) - j \in 0..(Bits - 1) /\ (Bits - 1) - ((Bits - 1) - j) = j
  BY <1>0
<1>4. S # {}
  BY <1>2, <1>3, Zenon
<1>5. PICK m \in S : \A n \in S : m <= n
  BY <1>1, <1>4, LeastNumber, Zenon
<1>6. PICK k : k = (Bits - 1) - m
  BY Zenon
<1>7. m \in 0..(Bits - 1) /\ BitOf(u, k) # BitOf(v, k)
  BY <1>5, <1>6, Zenon
<1>8. k \in 0..(Bits - 1)
  BY <1>0, <1>6, <1>7
<1>9. ASSUME NEW i \in (k + 1)..(Bits - 1) PROVE BitOf(u, i) = BitOf(v, i)
  <2>1. (Bits - 1) - i \in 0..(Bits - 1) /\ (Bits - 1) - ((Bits - 1) - i) = i /\ ~(m <= (Bits - 1) - i)
    BY <1>0, <1>6, <1>7, <1>8
  <2>2. (Bits - 1) - i \notin S
    BY <1>5, <2>1, Zenon
  <2>3. QED
    BY <2>1, <2>2, Zenon
<1>10. QED
  BY <1>7, <1>8, <1>9, Zenon DEF SplitAt, SameFrom

-----------------------------------------------------------------------------
(***************************************************************************)
(* distcmp and bucketid, by the first bit at which two IDs differ          *)
(***************************************************************************)
\* Distances to t differ where the bytes do, and the smaller one is that of the
\* byte which has the bit of t.
LEMMA SplitOfXor ==
    ASSUME NEW a \in Byte, NEW b \in Byte, NEW t \in Byte, NEW k \in 0..(Bits - 1), SplitAt(a, b, k)
    PROVE  /\ Xor(a, t) # Xor(b, t)
           /\ Xor(a, t) < Xor(b, t) <=> BitOf(a, k) = BitOf(t, k)
<1>1. PICK u, v : u = Xor(a, t) /\ v = Xor(b, t)
  BY Zenon
<1>2. u \in Byte /\ v \in Byte
  BY <1>1, XorIs, Zenon
<1>3. \A j \in 0..(Bits - 1) : /\ BitOf(u, j) = IF BitOf(a, j) = BitOf(t, j) THEN 0 ELSE 1
                               /\ BitOf(v, j) = IF BitOf(b, j) = BitOf(t, j) THEN 0 ELSE 1
  <2>1. \A j \in 0..(Bits - 1) : BitOf(Xor(a, t), j) = IF BitOf(a, j) = BitOf(t, j) THEN 0 ELSE 1
    BY XorIs
  <2>2. \A j \in 0..(Bits - 1) : BitOf(Xor(b, t), j) = IF BitOf(b, j) = BitOf(t, j) THEN 0 ELSE 1
    BY XorIs
  <2>3. QED
    BY <1>1, <2>1, <2>2
<1>4. BitOf(a, k) \in {0, 1} /\ BitOf(b, k) \in {0, 1} /\ BitOf(t, k) \in {0, 1} /\ BitOf(a, k) # BitOf(b, k)
  BY ByteEnds, BitsAre, Zenon DEF SplitAt
<1>5. BitOf(u, k) # BitOf(v, k) /\ (BitOf(u, k) = 0 <=> BitOf(a, k) = BitOf(t, k))
  BY <1>3, <1>4
<1>6. \A j \in (k + 1)..(Bits - 1) : j \in 0..(Bits - 1)
  OBVIOUS
<1>7. SameFrom(u, v, k + 1)
  BY <1>3, <1>6, Zenon DEF SplitAt, SameFrom
<1>8. SplitAt(u, v, k)
  BY <1>5, <1>7, Zenon DEF SplitAt
<1>9. u # v /\ (u < v => BitOf(u, k) = 0) /\ (~(u < v) => BitOf(u, k) = 1)
  BY <1>2, <1>8, SplitDecides, Zenon
<1>10. u # v /\ (u < v <=> BitOf(u, k) = 0)
  BY <1>9
<1>11. QED
  BY <1>1, <1>5, <1>10, Zenon

\* The first byte and the highest bit of it at which two IDs differ.
FirstSplit(a, b, i, k) ==
    /\ i \in 1..Bytes /\ k \in 0..(Bits - 1)
    /\ \A j \in 1..(i - 1) : a[j] = b[j]
    /\ SplitAt(a[i], b[i], k)

\* The byte that a loop finds is the first of those it looks for.
LEMMA FirstByteIs ==
    ASSUME NEW S \in SUBSET (1..Bytes), NEW i \in S, \A j \in 1..(i - 1) : j \notin S
    PROVE  FirstByte(S) = i
<1>0. Bytes \in Nat
  BY SizeAssumption
<1>1. \A j \in S : i <= j
  BY <1>0
<1>2. FirstByte(S) \in S /\ \A j \in S : FirstByte(S) <= j
  BY <1>1, Zenon DEF FirstByte
<1>3. FirstByte(S) <= i /\ i <= FirstByte(S) /\ FirstByte(S) \in 1..Bytes /\ i \in 1..Bytes
  BY <1>1, <1>2, Zenon
<1>4. QED
  BY <1>0, <1>3

\* Different IDs differ first somewhere.
LEMMA FirstSplitExists ==
    ASSUME NEW a \in Hash, NEW b \in Hash, a # b
    PROVE  \E i, k : FirstSplit(a, b, i, k)
<1> DEFINE S == {i \in 1..Bytes : a[i] # b[i]}
<1>0. Bytes \in Nat /\ S \in SUBSET Nat
  BY SizeAssumption
<1>1. S # {}
  <2>1. a = [i \in 1..Bytes |-> a[i]] /\ b = [i \in 1..Bytes |-> b[i]]
    BY Zenon DEF Hash
  <2>2. QED
    BY <2>1, Zenon
<1>2. PICK i \in S : \A j \in S : i <= j
  BY <1>0, <1>1, LeastNumber, Zenon
<1>3. i \in 1..Bytes /\ a[i] # b[i] /\ a[i] \in Byte /\ b[i] \in Byte
  BY <1>2, Zenon DEF Hash
<1>4. PICK k \in 0..(Bits - 1) : SplitAt(a[i], b[i], k)
  BY <1>3, SplitExists, Zenon
<1>5. \A j \in 1..(i - 1) : j \in 1..Bytes /\ ~(i <= j)
  BY <1>0, <1>3
<1>6. \A j \in 1..(i - 1) : a[j] = b[j]
  BY <1>2, <1>5, Zenon
<1>7. QED
  BY <1>3, <1>4, <1>6, Zenon DEF FirstSplit

\* distcmp: closer is the ID that has the bit of the target where the two differ
\* first.
LEMMA DistcmpIs ==
    ASSUME NEW target \in Hash, NEW a \in Hash, NEW b \in Hash, NEW i, NEW k, FirstSplit(a, b, i, k)
    PROVE  Distcmp(target, a, b) = IF BitOf(a[i], k) = BitOf(target[i], k) THEN -1 ELSE 1
<1>0. /\ i \in 1..Bytes /\ k \in 0..(Bits - 1) /\ SplitAt(a[i], b[i], k)
      /\ a[i] \in Byte /\ b[i] \in Byte /\ target[i] \in Byte
  BY Zenon DEF FirstSplit, Hash
<1>1. PICK da, db : /\ da = [j \in 1..Bytes |-> Xor(a[j], target[j])]
                    /\ db = [j \in 1..Bytes |-> Xor(b[j], target[j])]
  BY Zenon
<1>2. PICK diff : diff = {j \in 1..Bytes : da[j] # db[j]}
  BY Zenon
<1>3. Distcmp(target, a, b) = IF diff = {} THEN 0
                              ELSE IF da[FirstByte(diff)] > db[FirstByte(diff)] THEN 1 ELSE -1
  BY <1>1, <1>2, Zenon DEF Distcmp
<1>4. \A j \in 1..Bytes : da[j] = Xor(a[j], target[j]) /\ db[j] = Xor(b[j], target[j])
  BY <1>1, Zenon
<1>5. PICK u, v : u = da[i] /\ v = db[i]
  BY Zenon
<1>6. u # v /\ (u < v <=> BitOf(a[i], k) = BitOf(target[i], k)) /\ u \in Byte /\ v \in Byte
  <2>1. PICK x, y, z : x = a[i] /\ y = b[i] /\ z = target[i]
    BY Zenon
  <2>2. x \in Byte /\ y \in Byte /\ z \in Byte /\ SplitAt(x, y, k) /\ u = Xor(x, z) /\ v = Xor(y, z)
    BY <1>0, <1>4, <1>5, <2>1, Zenon
  <2>3. Xor(x, z) # Xor(y, z) /\ (Xor(x, z) < Xor(y, z) <=> BitOf(x, k) = BitOf(z, k))
    BY <1>0, <2>2, SplitOfXor
  <2>4. Xor(x, z) \in Byte /\ Xor(y, z) \in Byte
    BY <2>2, XorIs, Zenon
  <2>5. QED
    BY <2>1, <2>2, <2>3, <2>4
<1>7. \A j \in 1..(i - 1) : j \in 1..Bytes
  BY <1>0, SizeAssumption
<1>8. \A j \in 1..(i - 1) : j \notin diff
  BY <1>2, <1>4, <1>7, Zenon DEF FirstSplit
<1>9. i \in diff /\ diff \in SUBSET (1..Bytes)
  BY <1>0, <1>2, <1>5, <1>6, Zenon
<1>10. FirstByte(diff) = i /\ diff # {}
  BY <1>8, <1>9, FirstByteIs, Zenon
<1>11. Distcmp(target, a, b) = IF u > v THEN 1 ELSE -1
  BY <1>3, <1>5, <1>10, Zenon
<1>12. u \in Nat /\ v \in Nat
  BY <1>6, ByteEnds, Zenon
<1>13. u > v <=> ~(u < v)
  BY <1>6, <1>12
<1>14. QED
  BY <1>6, <1>11, <1>13

\* 0 has no bits.
LEMMA ZeroBits ==
    ASSUME NEW v \in Byte
    PROVE  0 \in Byte /\ \A k \in 0..(Bits - 1) : BitOf(0, k) = 0
<1>1. 0 \in Byte
  <2>1. Powers[Bits] \in Nat
    BY PowersAre, SizeAssumption
  <2>2. QED
    BY <2>1 DEF Byte
<1> DEFINE T == {n \in Nat : Shifts(0)[n] = 0}
<1>2. 0 \in T
  BY ShiftsAre
<1>3. ASSUME NEW n \in 0..(Bits - 1), n \in T PROVE n + 1 \in T
  <2>1. Shifts(0)[n + 1] = Shifts(0)[n] \div 2 /\ Shifts(0)[n] = 0
    BY <1>3, NextOnes
  <2>2. n + 1 \in Nat /\ 0 \div 2 = 0
    OBVIOUS
  <2>3. QED
    BY <2>1, <2>2, Zenon
<1> HIDE DEF T
<1>4. 0..Bits \subseteq T
  BY <1>2, <1>3, NumbersUpTo, SizeAssumption, Zenon
<1>5. \A k \in 0..(Bits - 1) : k \in 0..Bits
  BY SizeAssumption
<1>6. \A k \in 0..(Bits - 1) : Shifts(0)[k] = 0
  BY <1>4, <1>5, Zenon DEF T
<1>7. 0 % 2 = 0
  OBVIOUS
<1>8. QED
  BY <1>1, <1>6, <1>7, Zenon DEF BitOf

\* The switch of bucketid finds the highest bit at which a byte differs from 0.
LEMMA HighestBitIs ==
    ASSUME NEW v \in Byte, NEW k \in 0..(Bits - 1), SplitAt(v, 0, k)
    PROVE  HighestBit(v) = k
<1> DEFINE P(m) == BitOf(v, m) = 1 /\ \A j \in (m + 1)..(Bits - 1) : BitOf(v, j) = 0
<1>1. \A j \in 0..(Bits - 1) : BitOf(0, j) = 0 /\ BitOf(v, j) \in {0, 1}
  BY ZeroBits, ByteEnds, BitsAre, Zenon
<1>2. \A j \in (k + 1)..(Bits - 1) : j \in 0..(Bits - 1)
  OBVIOUS
<1>3. P(k)
  <2>1. BitOf(v, k) = 1
    BY <1>1, Zenon DEF SplitAt
  <2>2. \A j \in (k + 1)..(Bits - 1) : BitOf(v, j) = 0
    BY <1>1, <1>2, Zenon DEF SplitAt, SameFrom
  <2>3. QED
    BY <2>1, <2>2, Zenon
<1>4. ASSUME NEW m \in 0..(Bits - 1), P(m) PROVE m = k
  <2>1. m < k => k \in (m + 1)..(Bits - 1)
    BY SizeAssumption
  <2>2. k < m => m \in (k + 1)..(Bits - 1)
    BY SizeAssumption
  <2>3. 0 # 1
    OBVIOUS
  <2>4. ~(m < k) /\ ~(k < m)
    BY <1>3, <1>4, <2>1, <2>2, <2>3, Zenon
  <2>5. QED
    BY <2>4, SizeAssumption
<1>5. PICK h : h = HighestBit(v)
  BY Zenon
<1>6. h = CHOOSE m \in 0..(Bits - 1) : P(m)
  BY <1>5, Zenon DEF HighestBit
<1> HIDE DEF P
<1>7. h \in 0..(Bits - 1) /\ P(h)
  BY <1>3, <1>6, Zenon
<1>8. QED
  BY <1>4, <1>5, <1>7, Zenon

\* Where two bytes differ first their exclusive or has its highest bit.
LEMMA XorAgainstZero ==
    ASSUME NEW a \in Byte, NEW b \in Byte
    PROVE  /\ a = b => Xor(a, b) = 0
           /\ \A k \in 0..(Bits - 1) : SplitAt(a, b, k) => Xor(a, b) # 0 /\ HighestBit(Xor(a, b)) = k
<1>1. PICK x : x = Xor(a, b)
  BY Zenon
<1>2. x \in Byte /\ \A j \in 0..(Bits - 1) : BitOf(x, j) = IF BitOf(a, j) = BitOf(b, j) THEN 0 ELSE 1
  BY <1>1, XorIs
<1>3. 0 \in Byte /\ \A j \in 0..(Bits - 1) : BitOf(0, j) = 0
  BY ZeroBits, Zenon
<1>4. ASSUME a = b PROVE x = 0
  <2>1. SameFrom(x, 0, 0)
    BY <1>2, <1>3, <1>4, Zenon DEF SameFrom
  <2>2. QED
    BY <1>2, <1>3, <2>1, SameBytes, Zenon
<1>5. ASSUME NEW k \in 0..(Bits - 1), SplitAt(a, b, k) PROVE x # 0 /\ HighestBit(x) = k
  <2>1. \A j \in (k + 1)..(Bits - 1) : j \in 0..(Bits - 1)
    OBVIOUS
  <2>2. BitOf(x, k) # BitOf(0, k)
    <3>1. BitOf(x, k) = 1 /\ BitOf(0, k) = 0
      BY <1>2, <1>3, <1>5, Zenon DEF SplitAt
    <3>2. QED
      BY <3>1
  <2>3. SameFrom(x, 0, k + 1)
    BY <1>2, <1>3, <1>5, <2>1, Zenon DEF SplitAt, SameFrom
  <2>4. SplitAt(x, 0, k)
    BY <2>2, <2>3, Zenon DEF SplitAt
  <2>5. x # 0
    BY <2>2, Zenon
  <2>6. QED
    BY <1>2, <2>4, <2>5, HighestBitIs, Zenon
<1>6. QED
  BY <1>1, <1>4, <1>5, Zenon

\* The place of a bit in an ID, counted from its first.
Place(i, k) == (i - 1) * Bits + (Bits - 1 - k)

\* bucketid: the place where the node differs first from the owner, and the last
\* place for the owner itself.
LEMMA BucketidIs ==
    ASSUME NEW ownerid \in Hash, NEW nid \in Hash
    PROVE  /\ ownerid = nid => Bucketid(ownerid, nid) = Place(Bytes, 0)
           /\ \A i, k : FirstSplit(ownerid, nid, i, k) => Bucketid(ownerid, nid) = Place(i, k)
<1> DEFINE v == [i \in 1..Bytes |-> Xor(ownerid[i], nid[i])]
           diff == {i \in 1..Bytes : v[i] # 0}
           at == IF diff = {} THEN Bytes ELSE FirstByte(diff)
           bitDiff == IF diff = {} THEN 0 ELSE HighestBit(v[at])
<1>1. Bucketid(ownerid, nid) = Place(at, bitDiff)
  BY Zenon DEF Bucketid, Place
<1> HIDE DEF bitDiff, at, diff, v
<1>2. \A j \in 1..Bytes : v[j] = Xor(ownerid[j], nid[j]) /\ ownerid[j] \in Byte /\ nid[j] \in Byte
  BY Zenon DEF Hash, v
<1>3. \A j \in 1..Bytes : ownerid[j] = nid[j] => v[j] = 0
  BY <1>2, XorAgainstZero, Zenon
<1>4. ASSUME ownerid = nid PROVE at = Bytes /\ bitDiff = 0
  <2>1. diff = {}
    BY <1>3, <1>4, Zenon DEF diff
  <2>2. QED
    BY <2>1, Zenon DEF at, bitDiff
<1>5. ASSUME NEW i, NEW k, FirstSplit(ownerid, nid, i, k) PROVE at = i /\ bitDiff = k
  <2>1. i \in 1..Bytes /\ k \in 0..(Bits - 1) /\ SplitAt(ownerid[i], nid[i], k)
    BY <1>5, Zenon DEF FirstSplit
  <2>2. v[i] # 0 /\ HighestBit(v[i]) = k
    BY <1>2, <2>1, XorAgainstZero, Zenon
  <2>3. \A j \in 1..(i - 1) : j \in 1..Bytes
    BY <2>1, SizeAssumption
  <2>4. \A j \in 1..(i - 1) : j \notin diff
    BY <1>3, <1>5, <2>3, Zenon DEF FirstSplit, diff
  <2>5. i \in diff /\ diff \in SUBSET (1..Bytes)
    BY <2>1, <2>2, Zenon DEF diff
  <2>6. FirstByte(diff) = i /\ diff # {}
    BY <2>4, <2>5, FirstByteIs, Zenon
  <2>7. QED
    BY <2>2, <2>6, Zenon DEF at, bitDiff
<1>6. QED
  BY <1>1, <1>4, <1>5, Zenon

\* Multiples of n are n apart.
LEMMA Multiples ==
    ASSUME NEW a \in Nat, NEW b \in Nat, NEW n \in Nat
    PROVE  a * n \in Nat /\ b * n \in Nat /\ (a < b => a * n + n <= b * n)
<1>1. a * n \in Nat /\ b * n \in Nat
  OBVIOUS
<1>2. ASSUME a < b PROVE a * n + n <= b * n
  <2>1. PICK d \in Nat : b = a + 1 + d
    <3>1. b - a - 1 \in Nat /\ b = a + 1 + (b - a - 1)
      BY <1>2
    <3>2. QED
      BY <3>1
  <2>2. b * n = a * n + n + d * n
    BY <2>1
  <2>3. d * n \in Nat
    OBVIOUS
  <2>4. QED
    BY <2>2, <2>3, <1>1
<1>3. QED
  BY <1>1, <1>2

\* Places are ordered by byte, and in a byte from its highest bit on.
LEMMA PlaceOrder ==
    ASSUME NEW i \in 1..Bytes, NEW k \in 0..(Bits - 1), NEW j \in 1..Bytes, NEW c \in 0..(Bits - 1)
    PROVE  /\ Place(i, k) \in Nat /\ Place(i, k) <= Place(Bytes, 0)
           /\ Place(i, k) < Place(j, c) <=> i < j \/ (i = j /\ c < k)
<1>0. Bytes \in Nat /\ Bits \in Nat
  BY SizeAssumption
<1>1. PICK a, b, d : a = (i - 1) * Bits /\ b = (j - 1) * Bits /\ d = (Bytes - 1) * Bits
  BY Zenon
<1>2. /\ a \in Nat /\ b \in Nat /\ d \in Nat
      /\ i - 1 < j - 1 => a + Bits <= b
      /\ j - 1 < i - 1 => b + Bits <= a
      /\ i - 1 < Bytes - 1 => a + Bits <= d
  <2>1. i - 1 \in Nat /\ j - 1 \in Nat /\ Bytes - 1 \in Nat
    BY <1>0
  <2>2. QED
    BY <2>1, <1>0, <1>1, Multiples, Zenon
<1>3. i = j => a = b
  BY <1>1, Zenon
<1>4. i = Bytes => a = d
  BY <1>1, Zenon
<1>5. /\ a + (Bits - 1 - k) \in Nat /\ a + (Bits - 1 - k) <= d + (Bits - 1 - 0)
      /\ a + (Bits - 1 - k) < b + (Bits - 1 - c) <=> i < j \/ (i = j /\ c < k)
  BY <1>0, <1>2, <1>3, <1>4
<1>6. QED
  BY <1>1, <1>5, Zenon DEF Place

\* A node that differs from the owner at a later place is closer to it.
LEMMA LaterPlaceIsCloser ==
    ASSUME NEW owner \in Hash, NEW x \in Hash, NEW y \in Hash, Bucketid(owner, x) > Bucketid(owner, y)
    PROVE  Distcmp(owner, x, y) = -1
<1>0. Bytes \in 1..Bytes /\ 0 \in 0..(Bits - 1)
  BY SizeAssumption
<1>1. ASSUME NEW z \in Hash
      PROVE  \/ z = owner /\ Bucketid(owner, z) = Place(Bytes, 0)
             \/ \E i, k : FirstSplit(owner, z, i, k) /\ Bucketid(owner, z) = Place(i, k)
  <2>1. CASE z = owner
    <3>1. Bucketid(owner, owner) = Place(Bytes, 0)
      BY BucketidIs
    <3>2. QED
      BY <2>1, <3>1, Zenon
  <2>2. CASE z # owner
    <3>1. PICK i, k : FirstSplit(owner, z, i, k)
      BY <2>2, FirstSplitExists, Zenon
    <3>2. Bucketid(owner, z) = Place(i, k)
      BY <3>1, BucketidIs
    <3>3. QED
      BY <3>1, <3>2, Zenon
  <2>3. QED
    BY <2>1, <2>2, Zenon
<1>2. \A i, k : FirstSplit(owner, x, i, k) => i \in 1..Bytes /\ k \in 0..(Bits - 1)
  BY Zenon DEF FirstSplit
<1>3. Bucketid(owner, x) \in Nat /\ Bucketid(owner, x) <= Place(Bytes, 0) /\ Place(Bytes, 0) \in Nat
  BY <1>0, <1>1, <1>2, PlaceOrder
<1>4. ~(Bucketid(owner, y) = Place(Bytes, 0))
  BY <1>3
<1>5. PICK i, k : FirstSplit(owner, y, i, k) /\ Bucketid(owner, y) = Place(i, k)
  BY <1>1, <1>4, Zenon
<1>6. /\ i \in 1..Bytes /\ k \in 0..(Bits - 1) /\ \A j \in 1..(i - 1) : owner[j] = y[j]
      /\ BitOf(owner[i], k) # BitOf(y[i], k) /\ SameFrom(owner[i], y[i], k + 1)
  BY <1>5, Zenon DEF FirstSplit, SplitAt
<1>7. (\A j \in 1..(i - 1) : owner[j] = x[j]) /\ SameFrom(owner[i], x[i], k)
  <2>1. CASE x = owner
    BY <2>1, Zenon DEF SameFrom
  <2>2. CASE x # owner
    <3>1. PICK p, c : FirstSplit(owner, x, p, c) /\ Bucketid(owner, x) = Place(p, c)
      BY <1>1, <2>2, Zenon
    <3>2. /\ p \in 1..Bytes /\ c \in 0..(Bits - 1) /\ \A j \in 1..(p - 1) : owner[j] = x[j]
          /\ SameFrom(owner[p], x[p], c + 1)
      BY <3>1, Zenon DEF FirstSplit, SplitAt
    <3>3. Place(i, k) < Place(p, c)
      <4>1. Place(i, k) \in Nat /\ Place(p, c) \in Nat
        BY <1>6, <3>2, PlaceOrder, Zenon
      <4>2. QED
        BY <4>1, <1>5, <3>1
    <3>4. i < p \/ (i = p /\ c < k)
      BY <1>6, <3>2, <3>3, PlaceOrder
    <3>5. CASE i < p
      <4>1. i \in 1..(p - 1) /\ \A j \in 1..(i - 1) : j \in 1..(p - 1)
        BY <1>6, <3>2, <3>5, SizeAssumption
      <4>2. QED
        BY <3>2, <4>1, Zenon DEF SameFrom
    <3>6. CASE i = p /\ c < k
      <4>1. \A j \in k..(Bits - 1) : j \in (c + 1)..(Bits - 1)
        BY <1>6, <3>2, <3>6, SizeAssumption
      <4>2. QED
        BY <3>2, <3>6, <4>1, Zenon DEF SameFrom
    <3>7. QED
      BY <3>4, <3>5, <3>6, Zenon
  <2>3. QED
    BY <2>1, <2>2, Zenon
<1>8. k \in k..(Bits - 1) /\ \A j \in (k + 1)..(Bits - 1) : j \in k..(Bits - 1)
  BY <1>6, SizeAssumption
<1>9. BitOf(x[i], k) = BitOf(owner[i], k)
  BY <1>7, <1>8, Zenon DEF SameFrom
<1>10. SplitAt(x[i], y[i], k)
  <2>1. BitOf(x[i], k) # BitOf(y[i], k)
    BY <1>6, <1>9, Zenon
  <2>2. \A j \in (k + 1)..(Bits - 1) : BitOf(x[i], j) = BitOf(y[i], j)
    BY <1>6, <1>7, <1>8, Zenon DEF SameFrom
  <2>3. QED
    BY <2>1, <2>2, Zenon DEF SplitAt, SameFrom
<1>11. FirstSplit(x, y, i, k)
  BY <1>6, <1>7, <1>10, Zenon DEF FirstSplit
<1>12. QED
  BY <1>9, <1>11, DistcmpIs, Zenon

\* Quotient and rest.
LEMMA DivMod ==
    ASSUME NEW a \in Nat, NEW b \in Nat \ {0}
    PROVE  a \div b \in Nat /\ a % b \in Nat /\ a % b < b /\ a = (a \div b) * b + (a % b)
OBVIOUS

\* There is one way to write a number as a multiple of n and a rest below n.
LEMMA OneQuotient ==
    ASSUME NEW n \in Nat, NEW q \in Nat, NEW r \in Nat, r < n, NEW s \in Nat, NEW t \in Nat, t < n,
           q * n + r = s * n + t
    PROVE  q = s /\ r = t
<1>1. PICK x, y : x = q * n /\ y = s * n
  BY Zenon
<1>2. x \in Nat /\ y \in Nat /\ (q < s => x + n <= y) /\ (s < q => y + n <= x)
  BY <1>1, Multiples, Zenon
<1>3. x + r = y + t
  BY <1>1, Zenon
<1>4. q = s
  BY <1>2, <1>3
<1>5. x = y
  BY <1>1, <1>4, Zenon
<1>6. QED
  BY <1>2, <1>3, <1>4, <1>5

\* The places are the positions of bits.
LEMMA PlaceIs ==
    ASSUME NEW i \in 1..Bytes, NEW k \in 0..(Bits - 1)
    PROVE  /\ Place(i, k) \in Position
           /\ \A id : BitAt(id, Place(i, k)) = BitOf(id[i], k)
<1>0. Bytes \in Nat /\ Bits \in Nat \ {0} /\ Bits \in Nat
  BY SizeAssumption
<1>1. PICK q, r, p : q = i - 1 /\ r = Bits - 1 - k /\ p = Place(i, k)
  BY Zenon
<1>2. q \in Nat /\ r \in Nat /\ r < Bits /\ q < Bytes /\ q + 1 = i /\ Bits - 1 - r = k
  BY <1>0, <1>1
<1>3. p = q * Bits + r
  BY <1>1, Zenon DEF Place
<1>4. q * Bits \in Nat /\ Bytes * Bits \in Nat /\ q * Bits + Bits <= Bytes * Bits
  BY <1>0, <1>2, Multiples, Zenon
<1>5. p \in Nat /\ p \in Position
  <2>1. PICK a, b : a = q * Bits /\ b = Bytes * Bits
    BY Zenon
  <2>2. a \in Nat /\ b \in Nat /\ a + Bits <= b /\ p = a + r
    BY <1>3, <1>4, <2>1, Zenon
  <2>3. p \in Nat /\ p \in 0..(b - 1)
    BY <1>0, <1>2, <2>2
  <2>4. QED
    BY <2>1, <2>3, Zenon DEF Position
<1>6. p \div Bits = q /\ p % Bits = r
  <2>1. PICK s, t : s = p \div Bits /\ t = p % Bits
    BY Zenon
  <2>2. s \in Nat /\ t \in Nat /\ t < Bits /\ p = s * Bits + t
    BY <1>0, <1>5, <2>1, DivMod, Zenon
  <2>3. q = s /\ r = t
    <3>1. q * Bits + r = s * Bits + t
      BY <1>3, <2>2, Zenon
    <3>2. QED
      BY <1>0, <1>2, <2>2, <3>1, OneQuotient
  <2>4. QED
    BY <2>1, <2>3, Zenon
<1>7. ASSUME NEW id PROVE BitAt(id, p) = BitOf(id[i], k)
  BY <1>2, <1>6, Zenon DEF BitAt
<1>8. QED
  BY <1>1, <1>5, <1>7, Zenon

\* Each position is the place of a bit.
LEMMA PlaceOf ==
    ASSUME NEW p \in Position
    PROVE  \E i \in 1..Bytes, k \in 0..(Bits - 1) : p = Place(i, k)
<1>0. Bytes \in Nat /\ Bits \in Nat \ {0} /\ Bits \in Nat
  BY SizeAssumption
<1>1. PICK b : b = Bytes * Bits
  BY Zenon
<1>2. b \in Nat
  BY <1>0, <1>1, Multiples, Zenon
<1>3. p \in Nat /\ p < b
  <2>1. p \in 0..(b - 1)
    BY <1>1, Zenon DEF Position
  <2>2. QED
    BY <1>2, <2>1
<1>4. PICK q, r : q = p \div Bits /\ r = p % Bits
  BY Zenon
<1>5. q \in Nat /\ r \in Nat /\ r < Bits /\ p = q * Bits + r
  BY <1>0, <1>3, <1>4, DivMod, Zenon
<1>6. q < Bytes
  <2>1. PICK a : a = q * Bits
    BY Zenon
  <2>2. a \in Nat /\ (Bytes < q => b + Bits <= a) /\ p = a + r
    BY <1>0, <1>1, <1>5, <2>1, Multiples, Zenon
  <2>3. q = Bytes => a = b
    BY <1>1, <2>1, Zenon
  <2>4. QED
    BY <1>0, <1>2, <1>3, <1>5, <2>2, <2>3
<1>7. /\ q + 1 \in 1..Bytes /\ (q + 1) - 1 = q
      /\ Bits - 1 - r \in 0..(Bits - 1) /\ Bits - 1 - (Bits - 1 - r) = r
  BY <1>0, <1>5, <1>6
<1>8. p = Place(q + 1, Bits - 1 - r)
  BY <1>5, <1>7, Zenon DEF Place
<1>9. QED
  BY <1>7, <1>8, Zenon

\* Of two IDs in the order of distcmp, the first has the bit of the target where
\* they differ first.
LEMMA CloserHasTheBit ==
    ASSUME NEW a \in Hash, NEW b \in Hash, ~(Distcmp(Target, b, a) < 0), NEW p \in Position,
           BitAt(a, p) # BitAt(b, p), \A q \in Position : BitAt(a, q) # BitAt(b, q) => p <= q
    PROVE  BitAt(a, p) = BitAt(Target, p)
<1>1. PICK i \in 1..Bytes, k \in 0..(Bits - 1) : p = Place(i, k)
  BY PlaceOf, Zenon
<1>2. Target \in Hash /\ a[i] \in Byte /\ b[i] \in Byte /\ Target[i] \in Byte
  BY <1>1, XorAssumption, Zenon DEF Hash
<1>3. \A id : BitAt(id, p) = BitOf(id[i], k)
  BY <1>1, PlaceIs, Zenon
<1>4. BitOf(a[i], k) # BitOf(b[i], k)
  BY <1>3, Zenon
<1>5. ASSUME NEW j \in 1..Bytes, NEW c \in 0..(Bits - 1), j < i \/ (j = i /\ k < c)
      PROVE  BitOf(a[j], c) = BitOf(b[j], c)
  <2>1. Place(j, c) < p /\ Place(j, c) \in Nat /\ p \in Nat
    BY <1>1, <1>5, PlaceOrder
  <2>2. ~(p <= Place(j, c))
    BY <2>1
  <2>3. BitAt(a, Place(j, c)) = BitAt(b, Place(j, c))
    BY <2>2, PlaceIs, Zenon
  <2>4. QED
    BY <2>3, PlaceIs, Zenon
<1>6. \A j \in 1..(i - 1) : j \in 1..Bytes /\ j < i
  BY <1>1, SizeAssumption
<1>7. \A j \in 1..(i - 1) : a[j] = b[j]
  <2>1. SUFFICES ASSUME NEW j \in 1..(i - 1) PROVE a[j] = b[j]
    OBVIOUS
  <2>2. a[j] \in Byte /\ b[j] \in Byte
    BY <1>6, Zenon DEF Hash
  <2>3. SameFrom(a[j], b[j], 0)
    BY <1>5, <1>6, Zenon DEF SameFrom
  <2>4. QED
    BY <2>2, <2>3, SameBytes, Zenon
<1>8. \A c \in (k + 1)..(Bits - 1) : c \in 0..(Bits - 1) /\ k < c
  BY <1>1
<1>9. \A c \in (k + 1)..(Bits - 1) : BitOf(b[i], c) = BitOf(a[i], c)
  BY <1>1, <1>5, <1>8, Zenon
<1>10. FirstSplit(b, a, i, k)
  BY <1>1, <1>4, <1>7, <1>9, Zenon DEF FirstSplit, SplitAt, SameFrom
<1>11. Distcmp(Target, b, a) = IF BitOf(b[i], k) = BitOf(Target[i], k) THEN -1 ELSE 1
  BY <1>2, <1>10, DistcmpIs
<1>12. BitOf(b[i], k) # BitOf(Target[i], k)
  <2>1. SUFFICES ASSUME BitOf(b[i], k) = BitOf(Target[i], k) PROVE FALSE
    BY Zenon
  <2>2. Distcmp(Target, b, a) = -1
    BY <1>11, <2>1, Zenon
  <2>3. -1 < 0
    OBVIOUS
  <2>4. QED
    BY <2>2, <2>3, Zenon
<1>13. BitOf(a[i], k) \in {0, 1} /\ BitOf(b[i], k) \in {0, 1} /\ BitOf(Target[i], k) \in {0, 1}
  BY <1>1, <1>2, ByteEnds, BitsAre, Zenon
<1>14. BitOf(a[i], k) = BitOf(Target[i], k)
  BY <1>4, <1>12, <1>13, Zenon
<1>15. QED
  BY <1>3, <1>14, Zenon

\* Sorted by distance is sorted by the exclusive or.
LEMMA SortedMeansByXor ==
    ASSUME CTypeOK, SortedByDistance
    PROVE  SortedByXor
<1>1. SUFFICES ASSUME NEW k \in 1..(Len(nodes) - 1), NEW p \in Position,
                      BitAt(nodes[k], p) # BitAt(nodes[k + 1], p),
                      \A q \in Position : BitAt(nodes[k], q) # BitAt(nodes[k + 1], q) => p <= q
               PROVE  BitAt(nodes[k], p) = BitAt(Target, p)
  BY Zenon DEF SortedByXor
<1>2. k \in DOMAIN nodes /\ k + 1 \in DOMAIN nodes /\ k < k + 1 /\ nodes[k] \in NodeID /\ nodes[k + 1] \in NodeID
  BY DEF CTypeOK
<1>3. Dist[nodes[k]] <= Dist[nodes[k + 1]]
  BY <1>2, Zenon DEF SortedByDistance
<1>4. Dist[nodes[k]] \in Nat /\ Dist[nodes[k + 1]] \in Nat
  BY <1>2, DistAssumption, Zenon
<1>5. ~(Dist[nodes[k + 1]] < Dist[nodes[k]])
  BY <1>3, <1>4
<1>6. nodes[k] \in Hash /\ nodes[k + 1] \in Hash /\ ~(Distcmp(Target, nodes[k + 1], nodes[k]) < 0)
  BY <1>2, <1>5, XorAssumption, Zenon
<1>7. QED
  BY <1>1, <1>6, CloserHasTheBit, Zenon

\* The slots hold IDs.
LEMMA BucketsByDistance ==
    ASSUME CTypeOK
    PROVE  LaterBucketIsCloser
<1>1. SUFFICES ASSUME pos > 0, NEW owner \in Hash, Bucketid(owner, table[pos]) > Bucketid(owner, table[1])
               PROVE  Distcmp(owner, table[pos], table[1]) = -1
  BY Zenon DEF LaterBucketIsCloser
<1>2. table[pos] \in NodeID /\ table[1] \in NodeID
  BY <1>1 DEF CTypeOK
<1>3. table[pos] \in Hash /\ table[1] \in Hash
  BY <1>2, XorAssumption, Zenon
<1>4. QED
  BY <1>1, <1>3, LaterPlaceIsCloser, Zenon

-----------------------------------------------------------------------------
(***************************************************************************)
(* Closest and the buckets, in terms of the bits of IDs                    *)
(***************************************************************************)

\* What Closest returns is in the order of BEP 5, although distcmp compares byte
\* by byte and push only by distcmp: of two neighbours the first agrees with the
\* target where they first differ.
THEOREM ClosestIsSortedByXor == CSpec => []SortedByXor
<1>1. ClosestInv => SortedByXor
  BY SortedMeansByXor DEF ClosestInv
<1>2. QED
  BY <1>1, ClosestInvariance, PTL

\* bucketid and distcmp agree on the nodes that Closest sorts: for any owner, a
\* node of a later bucket is the closer one.
THEOREM LaterBucketsAreCloser == CSpec => []LaterBucketIsCloser
<1>1. ClosestInv => LaterBucketIsCloser
  BY BucketsByDistance DEF ClosestInv
<1>2. QED
  BY <1>1, ClosestInvariance, PTL

=============================================================================
