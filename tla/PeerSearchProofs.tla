--------------------------- MODULE PeerSearchProofs ---------------------------
(***************************************************************************)
(* Proofs about PeerSearch, for any finite set of nodes, any K, depth and  *)
(* size of the responses, and any number of responses handled at once; and *)
(* about TokenManager, which issues and checks the tokens that the nodes   *)
(* of a search announce with, for any set of nodes and any expiry.         *)
(***************************************************************************)
EXTENDS PeerSearch, TokenManager, FiniteSetTheorems, SequenceTheorems, TLAPS

\* A search with findNode is not followed; one with get_peers gets shallower
\* with every level.
DepthAt(t) ==
    /\ t.level \in 1..SearchDepth
    /\ t.query = "find_node" => t.depth <= 0 /\ t.pc # "follow" /\ t.nodes = {}
    /\ t.pc = "waiting" => t.depth >= 0
    /\ t.query = "get_peers" /\ t.pc = "waiting" => t.depth >= 1 /\ t.level + t.depth <= SearchDepth + 1
    /\ t.pc = "follow" => t.depth >= 1 /\ t.level + t.depth <= SearchDepth

DepthInv == \A i \in DOMAIN trans : DepthAt(trans[i])

\* Every Visited begins with the IDs of the first nodes, which are in an array of
\* their own, and no append writes to this part of an array.
SliceAt(s) ==
    /\ s.array \in DOMAIN heap
    /\ Len(heap[1]) <= s.len /\ s.len <= Len(heap[s.array])
    /\ \A k \in 1..Len(heap[1]) : heap[s.array][k] = heap[1][k]

VisitedInv ==
    /\ heap # <<>> => Len(heap[1]) > 0 /\ "get_peers" \in started
    /\ \A i \in DOMAIN trans : trans[i].query = "get_peers" => SliceAt(trans[i].visited)

\* The nodes that were asked or are about to be.
Chosen(n) == asked[n] > 0 \/ \E i \in DOMAIN trans : n \in trans[i].nodes
First(n) == heap # <<>> /\ \E k \in DOMAIN heap[1] : heap[1][k] = n

OnceInv ==
    /\ \A n \in Node : asked[n] <= 1
    /\ \A n \in Node : \A i \in DOMAIN trans : n \in trans[i].nodes => asked[n] = 0
    /\ \A n \in Node : \A i, j \in DOMAIN trans :
          n \in trans[i].nodes /\ n \in trans[j].nodes => i = j
    /\ \A n \in Node : Chosen(n) => n \in table \ bad \/ First(n)
    /\ "get_peers" \notin started => \A n \in Node : ~Chosen(n)

IInv == TypeOK /\ DepthInv /\ VisitedInv /\ OnceInv

-----------------------------------------------------------------------------
(***************************************************************************)
(* The first nodes of a search                                             *)
(***************************************************************************)

\* Each element of a set of numbers has its place in the ascending order.
LEMMA AscendingElements ==
    ASSUME NEW S \in SUBSET Nat, IsFiniteSet(S)
    PROVE  /\ Cardinality(S) \in Nat
           /\ Ascending(S) \in Seq(S) /\ Len(Ascending(S)) = Cardinality(S)
           /\ \A n \in S : \E k \in 1..Cardinality(S) : Ascending(S)[k] = n
<1> DEFINE c == Cardinality(S)
<1> DEFINE Below(n) == {m \in S : m < n}
<1> DEFINE rank(n) == Cardinality(Below(n))
<1>1. c \in Nat
  BY FS_CardinalityType, Zenon
<1>2. ASSUME NEW n \in S PROVE IsFiniteSet(Below(n)) /\ rank(n) \in Nat /\ rank(n) < c
  <2>1. IsFiniteSet(S \ {n}) /\ Cardinality(S \ {n}) = c - 1
    BY FS_RemoveElement, Zenon
  <2>2. Below(n) \in SUBSET (S \ {n})
    BY SMT
  <2> HIDE DEF Below
  <2>3. IsFiniteSet(Below(n)) /\ Cardinality(Below(n)) <= Cardinality(S \ {n})
    BY <2>1, <2>2, FS_Subset, Zenon
  <2>4. Cardinality(Below(n)) \in Nat
    BY <2>3, FS_CardinalityType, Zenon
  <2> HIDE DEF c
  <2>5. QED
    BY <1>1, <2>1, <2>3, <2>4
<1>3. ASSUME NEW n \in S, NEW m \in S, n < m PROVE rank(n) < rank(m)
  <2>1. n \notin Below(n) /\ Below(n) \cup {n} \in SUBSET Below(m)
    <3>1. n \in Nat /\ m \in Nat /\ ~(n < n)
      OBVIOUS
    <3>2. \A x \in S : x < n => x < m
      BY <1>3, <3>1
    <3>3. QED
      BY <1>3, <3>1, <3>2, Zenon
  <2> HIDE DEF Below
  <2>2. IsFiniteSet(Below(n) \cup {n}) /\ Cardinality(Below(n) \cup {n}) = rank(n) + 1
    BY <1>2, <2>1, FS_AddElement, Zenon
  <2>3. Cardinality(Below(n) \cup {n}) <= Cardinality(Below(m))
    BY <1>2, <2>1, FS_Subset, Zenon
  <2>4. rank(n) \in Nat /\ rank(m) \in Nat
    BY <1>2, Zenon
  <2>5. QED
    BY <2>2, <2>3, <2>4
<1> DEFINE f == [n \in S |-> rank(n) + 1]
<1> HIDE DEF Below, rank, c
<1>4. \A n, m \in S : rank(n) = rank(m) => n = m
  BY <1>2, <1>3
<1>5. f \in Injection(S, 1..c)
  <2>1. f \in [S -> 1..c]
    BY <1>1, <1>2
  <2>2. \A n, m \in S : f[n] = f[m] => n = m
    BY <1>2, <1>4
  <2>3. QED
    BY <2>1, <2>2, Zenon DEF Injection, IsInjective
<1>6. f \in Surjection(S, 1..c)
  <2>1. IsFiniteSet(1..c) /\ Cardinality(1..c) = c
    BY <1>1, FS_Interval
  <2>2. QED
    BY <1>5, <2>1, FS_Injection, Zenon DEF c
<1>7. \A k \in 1..c : \E n \in S : rank(n) = k - 1
  <2> SUFFICES ASSUME NEW k \in 1..c PROVE \E n \in S : rank(n) = k - 1
    OBVIOUS
  <2>1. PICK n \in S : f[n] = k
    BY <1>6, Zenon DEF Surjection
  <2>2. rank(n) = k - 1
    BY <1>1, <1>2, <2>1
  <2>3. QED
    BY <2>2, Zenon
<1>8. Ascending(S) = [k \in 1..c |-> CHOOSE n \in S : rank(n) = k - 1]
  BY Zenon DEF Ascending, rank, Below, c
<1>9. \A k \in 1..c : Ascending(S)[k] \in S /\ rank(Ascending(S)[k]) = k - 1
  BY <1>7, <1>8, Zenon
<1>10. Ascending(S) \in Seq(S) /\ Len(Ascending(S)) = c
  BY <1>1, <1>8, <1>9
<1>11. ASSUME NEW n \in S PROVE \E k \in 1..c : Ascending(S)[k] = n
  <2>1. rank(n) + 1 \in 1..c /\ (rank(n) + 1) - 1 = rank(n)
    BY <1>1, <1>2
  <2>2. Ascending(S)[rank(n) + 1] = n
    BY <1>4, <1>9, <2>1
  <2>3. QED
    BY <2>1, <2>2, Zenon
<1>12. QED
  BY <1>1, <1>10, <1>11, Zenon DEF c

-----------------------------------------------------------------------------
(***************************************************************************)
(* The arrays behind the Visited slices                                    *)
(***************************************************************************)

\* An append leaves the beginning of every slice as it is, and its result begins
\* like the others.
LEMMA AppendKeepsFirst ==
    ASSUME TypeOK, VisitedInv, NEW s \in Slice, SliceAt(s), NEW n \in Node, heap' = HeapWith(s, n)
    PROVE  /\ heap # <<>> /\ heap' # <<>> /\ heap' \in Seq(Seq(Node \cup {0}))
           /\ heap'[1] = heap[1]
           /\ \A u \in Slice : SliceAt(u) => SliceAt(u)'
           /\ \A a : a = Appended(s) => a \in Slice /\ SliceAt(a)'
<1> DEFINE E == Node \cup {0}
<1> DEFINE first == heap[1]
<1>1. heap \in Seq(Seq(E)) /\ n \in E /\ 0 \in E
  BY Zenon DEF TypeOK
<1> HIDE DEF E
<1>2. /\ s.array \in Nat /\ s.len \in Nat /\ s.array \in 1..Len(heap)
      /\ heap # <<>> /\ 1 \in 1..Len(heap) /\ Len(heap) \in Nat /\ DOMAIN heap = 1..Len(heap)
  BY <1>1 DEF Slice, SliceAt
<1>3. /\ \A a \in 1..Len(heap) : heap[a] \in Seq(E) /\ Len(heap[a]) \in Nat /\ DOMAIN heap[a] = 1..Len(heap[a])
      /\ Len(first) \in Nat
  BY <1>1, <1>2
<1>4. /\ Len(first) > 0 /\ Len(first) <= s.len /\ s.len <= Len(heap[s.array])
      /\ \A k \in 1..Len(first) : heap[s.array][k] = first[k]
  BY <1>2, Zenon DEF VisitedInv, SliceAt
<1>5. CASE HasSpare(s)
  <2> DEFINE arr == [heap[s.array] EXCEPT ![s.len + 1] = n]
  <2>1. heap' = [heap EXCEPT ![s.array] = arr] /\ s.len < Len(heap[s.array])
    BY <1>5, Zenon DEF HeapWith, HasSpare
  <2>2. /\ arr \in Seq(E) /\ Len(arr) = Len(heap[s.array])
        /\ \A k \in 1..Len(first) : arr[k] = heap[s.array][k]
    <3>1. /\ s.len + 1 \in 1..Len(heap[s.array]) /\ heap[s.array] \in Seq(E)
          /\ \A k \in 1..Len(first) : k \in 1..Len(heap[s.array]) /\ k # s.len + 1
      BY <1>2, <1>3, <1>4, <2>1
    <3>2. QED
      BY <1>1, <3>1
  <2>3. s.array # 1
    <3>1. SUFFICES ASSUME s.array = 1 PROVE FALSE
      OBVIOUS
    <3>2. heap[s.array] = first
      BY <3>1, Zenon
    <3> HIDE DEF first
    <3>3. QED
      BY <1>2, <1>3, <1>4, <2>1, <3>2
  <2> HIDE DEF arr
  <2>4. /\ heap' \in Seq(Seq(E)) /\ Len(heap') = Len(heap) /\ DOMAIN heap' = 1..Len(heap)
        /\ heap'[s.array] = arr /\ \A a \in 1..Len(heap) : a # s.array => heap'[a] = heap[a]
    BY <1>1, <1>2, <2>1, <2>2
  <2>5. heap' # <<>> /\ heap'[1] = first
    BY <1>2, <2>3, <2>4
  <2>6. \A u \in Slice : SliceAt(u) => SliceAt(u)'
    <3>1. SUFFICES ASSUME NEW u \in Slice, SliceAt(u) PROVE SliceAt(u)'
      BY Zenon
    <3>2. /\ u.array \in 1..Len(heap)
          /\ Len(first) <= u.len /\ u.len <= Len(heap[u.array])
          /\ \A k \in 1..Len(first) : heap[u.array][k] = first[k]
      BY <1>2, <3>1, Zenon DEF SliceAt
    <3>3. Len(heap'[u.array]) = Len(heap[u.array])
      BY <2>2, <2>4, <3>2, Zenon
    <3>4. \A k \in 1..Len(first) : heap'[u.array][k] = heap[u.array][k]
      BY <2>2, <2>4, <3>2, Zenon
    <3>5. QED
      BY <2>4, <2>5, <3>2, <3>3, <3>4, Zenon DEF SliceAt
  <2>7. ASSUME NEW a, a = Appended(s) PROVE a \in Slice /\ SliceAt(a)'
    <3>1. a = [s EXCEPT !.len = @ + 1]
      BY <1>5, <2>7, Zenon DEF Appended
    <3>2. a \in Slice /\ a.array = s.array /\ a.len = s.len + 1
      BY <3>1 DEF Slice
    <3>3. Len(first) <= a.len /\ a.len <= Len(arr)
      BY <1>2, <1>3, <1>4, <2>1, <2>2, <3>2
    <3>4. QED
      <4>1. heap'[a.array] = arr /\ a.array \in DOMAIN heap'
        BY <1>2, <2>4, <3>2, Zenon
      <4>2. \A k \in 1..Len(first) : arr[k] = first[k]
        BY <1>4, <2>2, Zenon
      <4>3. QED
        BY <2>5, <3>2, <3>3, <4>1, <4>2, Zenon DEF SliceAt
  <2>8. QED
    BY <1>2, <2>4, <2>5, <2>6, <2>7, Zenon DEF E
<1>6. CASE ~HasSpare(s)
  <2> DEFINE arr == [k \in 1..(IF s.len = 0 THEN 1 ELSE 2 * s.len) |->
                        IF k <= s.len THEN heap[s.array][k] ELSE IF k = s.len + 1 THEN n ELSE 0]
  <2>1. heap' = Append(heap, arr)
    BY <1>6, Zenon DEF HeapWith
  <2>2. /\ arr \in Seq(E) /\ Len(arr) = 2 * s.len
        /\ \A k \in 1..Len(first) : arr[k] = heap[s.array][k]
    <3>1. s.len > 0 /\ 2 * s.len \in Nat /\ s.len + 1 <= 2 * s.len
      BY <1>2, <1>3, <1>4
    <3>2. arr = [k \in 1..(2 * s.len) |->
                    IF k <= s.len THEN heap[s.array][k] ELSE IF k = s.len + 1 THEN n ELSE 0]
      BY <3>1
    <3>3. \A k \in 1..(2 * s.len) : k <= s.len => heap[s.array][k] \in E
      BY <1>2, <1>3, <1>4, <3>1
    <3>4. \A k \in 1..Len(first) : k \in 1..(2 * s.len) /\ k <= s.len
      BY <1>2, <1>3, <1>4, <3>1
    <3> HIDE DEF arr
    <3>5. \A k \in 1..(2 * s.len) : arr[k] \in E
      BY <1>1, <3>2, <3>3
    <3>6. arr \in Seq(E) /\ Len(arr) = 2 * s.len
      BY <3>1, <3>2, <3>5
    <3>7. QED
      BY <3>2, <3>4, <3>6
  <2> HIDE DEF arr
  <2>3. /\ heap' \in Seq(Seq(E)) /\ DOMAIN heap' = 1..(Len(heap) + 1)
        /\ heap'[Len(heap) + 1] = arr /\ \A a \in 1..Len(heap) : heap'[a] = heap[a]
    BY <1>1, <2>1, <2>2
  <2>4. heap' # <<>> /\ heap'[1] = first /\ \A a \in 1..Len(heap) : a \in 1..(Len(heap) + 1)
    BY <1>2, <2>3
  <2>5. \A u \in Slice : SliceAt(u) => SliceAt(u)'
    BY <1>2, <2>3, <2>4, Zenon DEF SliceAt
  <2>6. ASSUME NEW a, a = Appended(s) PROVE a \in Slice /\ SliceAt(a)'
    <3>1. a = [array |-> Len(heap) + 1, len |-> s.len + 1]
      BY <1>6, <2>6, Zenon DEF Appended
    <3>2. a \in Slice /\ a.array = Len(heap) + 1 /\ a.len = s.len + 1 /\ Len(heap) + 1 \in 1..(Len(heap) + 1)
      BY <1>2, <3>1 DEF Slice
    <3>3. Len(first) <= a.len /\ a.len <= Len(arr)
      BY <1>2, <1>3, <1>4, <2>2, <3>2
    <3>4. QED
      <4>1. heap'[a.array] = arr /\ a.array \in DOMAIN heap'
        BY <2>3, <3>2, Zenon
      <4>2. \A k \in 1..Len(first) : arr[k] = first[k]
        BY <1>4, <2>2, Zenon
      <4>3. QED
        BY <2>4, <3>2, <3>3, <4>1, <4>2, Zenon DEF SliceAt
  <2>7. QED
    BY <1>2, <2>3, <2>4, <2>5, <2>6, Zenon DEF E
<1>7. QED
  BY <1>5, <1>6, Zenon

-----------------------------------------------------------------------------
(***************************************************************************)
(* Steps of a handler                                                      *)
(***************************************************************************)

\* What is known of a transaction.
LEMMA TransFields ==
    ASSUME TypeOK, NEW i \in DOMAIN trans
    PROVE  /\ trans[i] \in Trans
           /\ trans[i].query \in {"get_peers", "find_node"} /\ trans[i].node \in Node
           /\ trans[i].depth \in -1..SearchDepth /\ trans[i].visited \in Slice
           /\ trans[i].level \in Nat /\ trans[i].pc \in {"waiting", "follow", "done"}
           /\ trans[i].todo \in SUBSET Node /\ trans[i].nodes \in SUBSET Node
           /\ trans[i].found \in BOOLEAN
<1>1. trans \in Seq(Trans)
  BY Zenon DEF TypeOK
<1>2. trans[i] \in Trans
  BY <1>1, ElementOfSeq, LenProperties, Zenon
<1>3. QED
  BY <1>2, Zenon DEF Trans

\* Transaction i becomes r.
LEMMA UpdateEffect ==
    ASSUME TypeOK, NEW i \in DOMAIN trans, NEW r \in Trans, trans' = [trans EXCEPT ![i] = r]
    PROVE  /\ trans' \in Seq(Trans) /\ DOMAIN trans' = DOMAIN trans
           /\ trans'[i] = r /\ \A j \in DOMAIN trans : j # i => trans'[j] = trans[j]
<1>1. trans \in Seq(Trans)
  BY Zenon DEF TypeOK
<1>2. QED
  BY <1>1

\* A step of a handler that adds no node keeps what is known of the search.
LEMMA QuietUpdate ==
    ASSUME IInv, NEW i \in DOMAIN trans, NEW r \in Trans, trans' = [trans EXCEPT ![i] = r],
           r.query = trans[i].query, r.visited = trans[i].visited, r.nodes = trans[i].nodes,
           DepthAt(r), UNCHANGED <<heap, started, asked>>,
           \A n \in table \ bad : n \in table' \ bad'
    PROVE  trans' \in Seq(Trans) /\ DepthInv' /\ VisitedInv' /\ OnceInv'
<1>1. /\ trans' \in Seq(Trans) /\ DOMAIN trans' = DOMAIN trans
      /\ trans'[i] = r /\ \A j \in DOMAIN trans : j # i => trans'[j] = trans[j]
  BY UpdateEffect, Zenon DEF IInv
<1>2. \A j \in DOMAIN trans : /\ trans'[j].query = trans[j].query
                              /\ trans'[j].visited = trans[j].visited
                              /\ trans'[j].nodes = trans[j].nodes
  BY <1>1, Zenon
<1>3. DepthInv'
  BY <1>1, Zenon DEF DepthInv, DepthAt, IInv
<1>4. heap' = heap /\ started' = started /\ asked' = asked
  BY Zenon
<1>5. VisitedInv'
  <2>1. \A u \in Slice : SliceAt(u) => SliceAt(u)'
    BY <1>4, Zenon DEF SliceAt
  <2>2. \A j \in DOMAIN trans : trans[j].visited \in Slice
    BY TransFields, Zenon DEF IInv
  <2>3. \A j \in DOMAIN trans' : trans'[j].query = "get_peers" => SliceAt(trans[j].visited)'
    BY <1>1, <1>2, <2>1, <2>2, Zenon DEF VisitedInv, IInv
  <2>4. QED
    BY <1>2, <1>4, <2>3, Zenon DEF VisitedInv, IInv
<1>6. \A n \in Node : Chosen(n)' => Chosen(n)
  BY <1>1, <1>2, <1>4, Zenon DEF Chosen
<1>7. \A n \in Node : First(n) => First(n)'
  BY <1>4, Zenon DEF First
<1>8. OnceInv'
  <2>1. \A n \in Node : asked'[n] <= 1
    BY <1>4, Zenon DEF OnceInv, IInv
  <2>2. \A n \in Node : \A j \in DOMAIN trans' : n \in trans'[j].nodes => asked'[n] = 0
    <3>1. \A n \in Node : \A j \in DOMAIN trans : n \in trans[j].nodes => asked[n] = 0
      BY Zenon DEF OnceInv, IInv
    <3>2. TAKE n \in Node
    <3>3. TAKE j \in DOMAIN trans'
    <3>4. j \in DOMAIN trans /\ trans'[j].nodes = trans[j].nodes
      BY <1>1, <1>2, Zenon
    <3>5. QED
      BY <1>4, <3>1, <3>4, Zenon
  <2>3. \A n \in Node : \A j, k \in DOMAIN trans' :
           n \in trans'[j].nodes /\ n \in trans'[k].nodes => j = k
    <3>1. \A n \in Node : \A j, k \in DOMAIN trans :
             n \in trans[j].nodes /\ n \in trans[k].nodes => j = k
      BY Zenon DEF OnceInv, IInv
    <3>2. TAKE n \in Node
    <3>3. TAKE j, k \in DOMAIN trans'
    <3>4. /\ j \in DOMAIN trans /\ trans'[j].nodes = trans[j].nodes
          /\ k \in DOMAIN trans /\ trans'[k].nodes = trans[k].nodes
      BY <1>1, <1>2, Zenon
    <3>5. QED
      BY <3>1, <3>4, Zenon
  <2>4. \A n \in Node : Chosen(n)' => n \in table' \ bad' \/ First(n)'
    BY <1>6, <1>7, Zenon DEF OnceInv, IInv
  <2>5. "get_peers" \notin started' => \A n \in Node : ~Chosen(n)'
    BY <1>4, <1>6, Zenon DEF OnceInv, IInv
  <2>6. QED
    BY <2>1, <2>2, <2>3, <2>4, <2>5, Zenon DEF OnceInv
<1>9. QED
  BY <1>1, <1>3, <1>5, <1>8, Zenon

\* A query that fails or times out asks no one else.
LEMMA EndTransInv ==
    ASSUME IInv, NEW i \in DOMAIN trans, trans[i].pc # "done" ,
           trans' = [trans EXCEPT ![i].pc = "done"],
           UNCHANGED <<table, bad, heap, tokens, sent, started, asked, granted>>
    PROVE  IInv'
<1> DEFINE t == trans[i]
<1> DEFINE r == [t EXCEPT !.pc = "done"]
<1>1. TypeOK /\ DepthAt(t)
  BY Zenon DEF IInv, DepthInv
<1>2. t \in Trans
  BY <1>1, TransFields, Zenon
<1> HIDE DEF t
<1>3. /\ r \in Trans /\ r.query = t.query /\ r.visited = t.visited /\ r.nodes = t.nodes
      /\ r.level = t.level /\ r.depth = t.depth /\ r.pc = "done"
  BY <1>2 DEF Trans
<1>4. trans' = [trans EXCEPT ![i] = r]
  BY Zenon DEF t
<1> HIDE DEF r
<1>5. DepthAt(r)
  BY <1>1, <1>3, Zenon DEF DepthAt
<1>6. trans' \in Seq(Trans) /\ DepthInv' /\ VisitedInv' /\ OnceInv'
  BY <1>3, <1>4, <1>5, QuietUpdate, Zenon DEF t
<1>7. TypeOK'
  BY <1>1, <1>6, Zenon DEF TypeOK
<1>8. QED
  BY <1>6, <1>7, Zenon DEF IInv

\* A response may grant a token and name nodes to follow.
LEMMA RespondInv ==
    ASSUME IInv, NEW i \in DOMAIN trans, NEW closer \in SUBSET Node, NEW peers \in BOOLEAN,
           Respond(i, closer, peers)
    PROVE  IInv'
<1> DEFINE t == trans[i]
<1> DEFINE ro == t.node \in ReadOnly
<1> DEFINE on == ~peers /\ t.depth > 1 /\ ~ro
<1> DEFINE depth == IF peers THEN t.depth ELSE t.depth - 1
<1> DEFINE r == [t EXCEPT !.depth = depth, !.pc = IF on THEN "follow" ELSE "done",
                          !.todo = IF on THEN closer ELSE {}]
<1>1. TypeOK /\ DepthAt(t) /\ t.pc = "waiting"
  BY Zenon DEF IInv, DepthInv, Respond
<1>2. t \in Trans /\ t.depth \in -1..SearchDepth /\ t.level \in Nat /\ t.node \in Node
  BY <1>1, TransFields, Zenon
<1>3. SearchDepth \in Nat
  BY ConstantsAssumption, Zenon
<1>4. trans' = [trans EXCEPT ![i] = r]
  BY Zenon DEF Respond
<1>5. /\ table' = table \/ (~ro /\ table' = table \cup {t.node})
      /\ bad' = IF ro THEN bad ELSE bad \ {t.node}
      /\ UNCHANGED <<heap, sent, started, asked>>
      /\ \/ tokens' = tokens \cup {<<t.node, t.node>>} /\ granted' = granted \cup {t.node}
         \/ UNCHANGED <<tokens, granted>>
  BY Zenon DEF Respond
<1> HIDE DEF t
<1>6. depth \in -1..SearchDepth /\ (on => depth \in 1..SearchDepth /\ depth = t.depth - 1)
  BY <1>1, <1>2, <1>3 DEF DepthAt
<1>7. t.query = "find_node" => depth <= 0 /\ ~on
  BY <1>1, <1>2 DEF DepthAt
<1> HIDE DEF depth, on, ro
<1>8. /\ r \in Trans /\ r.query = t.query /\ r.visited = t.visited /\ r.nodes = t.nodes
      /\ r.level = t.level /\ r.depth = depth /\ r.pc = IF on THEN "follow" ELSE "done"
  BY <1>2, <1>6 DEF Trans
<1> HIDE DEF r
<1>9. on => t.depth > 1 /\ t.query = "get_peers"
  <2>1. t.query \in {"get_peers", "find_node"}
    BY <1>2, Zenon DEF Trans
  <2>2. QED
    BY <1>7, <2>1, Zenon DEF on
<1>10. DepthAt(r)
  <2>1. r.level \in 1..SearchDepth /\ r.pc # "waiting"
    BY <1>1, <1>8, Zenon DEF DepthAt
  <2>2. r.query = "find_node" => r.depth <= 0 /\ r.pc # "follow" /\ r.nodes = {}
    BY <1>1, <1>7, <1>8, Zenon DEF DepthAt
  <2>3. r.pc = "follow" => r.depth >= 1 /\ r.level + r.depth <= SearchDepth
    <3>1. SUFFICES ASSUME on PROVE depth >= 1 /\ t.level + depth <= SearchDepth
      BY <1>8, Zenon
    <3>2. t.level + t.depth <= SearchDepth + 1
      BY <1>1, <1>9, <3>1, Zenon DEF DepthAt
    <3>3. QED
      BY <1>2, <1>3, <1>6, <3>1, <3>2
  <2>4. QED
    BY <2>1, <2>2, <2>3, Zenon DEF DepthAt
<1>11. bad' \in SUBSET table' /\ table' \in SUBSET Node /\ \A n \in table \ bad : n \in table' \ bad'
  <2>1. table \in SUBSET Node /\ bad \in SUBSET table
    BY <1>1, Zenon DEF TypeOK
  <2>2. CASE ro
    BY <1>5, <2>1, <2>2, Zenon
  <2>3. CASE ~ro
    BY <1>2, <1>5, <2>1, <2>3, Zenon
  <2>4. QED
    BY <2>2, <2>3, Zenon
<1>12. trans' \in Seq(Trans) /\ DepthInv' /\ VisitedInv' /\ OnceInv'
  BY <1>4, <1>5, <1>8, <1>10, <1>11, QuietUpdate, Zenon DEF t
<1>13. tokens' \subseteq Node \X Node /\ granted' \in SUBSET Node
  <2>1. <<t.node, t.node>> \in Node \X Node
    BY <1>2
  <2>2. QED
    BY <1>1, <1>2, <1>5, <2>1, Zenon DEF TypeOK
<1>14. TypeOK'
  BY <1>1, <1>5, <1>11, <1>12, <1>13, Zenon DEF TypeOK
<1>15. QED
  BY <1>12, <1>14, Zenon DEF IInv

\* A handler passes over a node of the response.
LEMMA SkipInv ==
    ASSUME IInv, NEW i \in DOMAIN trans, NEW n \in Node, trans[i].pc = "follow",
           trans' = [trans EXCEPT ![i].todo = @ \ {n}, ![i].found = @ \/ n = Target],
           bad' = bad \/ bad' = bad \ {n},
           UNCHANGED <<table, heap, tokens, sent, started, asked, granted>>
    PROVE  IInv'
<1> DEFINE t == trans[i]
<1> DEFINE r == [t EXCEPT !.todo = @ \ {n}, !.found = @ \/ n = Target]
<1>1. TypeOK /\ DepthAt(t)
  BY Zenon DEF IInv, DepthInv
<1>2. t \in Trans
  BY <1>1, TransFields, Zenon
<1>3. trans' = [trans EXCEPT ![i] = r]
  BY Zenon
<1> HIDE DEF t
<1>4. /\ r \in Trans /\ r.query = t.query /\ r.visited = t.visited /\ r.nodes = t.nodes
      /\ r.level = t.level /\ r.depth = t.depth /\ r.pc = t.pc
  BY <1>2 DEF Trans
<1> HIDE DEF r
<1>5. DepthAt(r)
  BY <1>1, <1>4, Zenon DEF DepthAt
<1>6. bad' \in SUBSET table' /\ table' \in SUBSET Node /\ \A m \in table \ bad : m \in table' \ bad'
  BY <1>1, Zenon DEF TypeOK
<1>7. trans' \in Seq(Trans) /\ DepthInv' /\ VisitedInv' /\ OnceInv'
  BY <1>3, <1>4, <1>5, <1>6, QuietUpdate, Zenon DEF t
<1>8. TypeOK'
  BY <1>1, <1>6, <1>7, Zenon DEF TypeOK
<1>9. QED
  BY <1>7, <1>8, Zenon DEF IInv

\* A node that is neither known nor visited was not chosen before.
LEMMA NewNode ==
    ASSUME IInv, NEW n \in Node, n \notin table, NEW s \in Slice, SliceAt(s), ~Contains(s, n)
    PROVE  ~Chosen(n)
<1>1. SUFFICES ASSUME First(n) PROVE FALSE
  BY Zenon DEF IInv, OnceInv
<1>2. PICK k \in DOMAIN heap[1] : heap # <<>> /\ heap[1][k] = n
  BY <1>1, Zenon DEF First
<1>3. heap \in Seq(Seq(Node \cup {0})) /\ s.len \in Nat
  BY Zenon DEF IInv, TypeOK, Slice
<1>4. heap[1] \in Seq(Node \cup {0})
  BY <1>2, <1>3
<1>5. DOMAIN heap[1] = 1..Len(heap[1]) /\ Len(heap[1]) \in Nat
  BY <1>4
<1>6. Len(heap[1]) <= s.len /\ heap[s.array][k] = n
  BY <1>2, <1>5, Zenon DEF SliceAt
<1>7. k \in 1..s.len /\ s.len > 0
  BY <1>2, <1>3, <1>5, <1>6
<1>8. QED
  BY <1>6, <1>7, Zenon DEF Contains, Elements

\* A handler adds a node of the response.
LEMMA AddInv ==
    ASSUME IInv, NEW i \in DOMAIN trans, NEW n \in Node, trans[i].pc = "follow",
           ~Contains(trans[i].visited, n), n \notin table, table' = table \cup {n},
           heap' = HeapWith(trans[i].visited, n),
           trans' = [trans EXCEPT ![i].todo = @ \ {n}, ![i].found = @ \/ n = Target,
                                  ![i].nodes = @ \cup {n}, ![i].visited = Appended(@)],
           bad' = bad \ {n}, UNCHANGED <<tokens, sent, started, asked, granted>>
    PROVE  IInv'
<1> DEFINE t == trans[i]
<1> DEFINE a == Appended(t.visited)
<1> DEFINE r == [t EXCEPT !.todo = @ \ {n}, !.found = @ \/ n = Target,
                          !.nodes = @ \cup {n}, !.visited = a]
<1>1. TypeOK /\ DepthAt(t) /\ VisitedInv
  BY Zenon DEF IInv, DepthInv
<1>2. t \in Trans /\ t.query \in {"get_peers", "find_node"} /\ t.visited \in Slice
  BY <1>1, TransFields, Zenon
<1>3. t.query = "get_peers"
  BY <1>1, <1>2, Zenon DEF DepthAt
<1>4. SliceAt(t.visited)
  BY <1>1, <1>3, Zenon DEF VisitedInv
<1>5. ~Chosen(n)
  BY <1>2, <1>4, NewNode, Zenon
<1>6. /\ heap # <<>> /\ heap' # <<>> /\ heap' \in Seq(Seq(Node \cup {0}))
      /\ heap'[1] = heap[1]
      /\ \A u \in Slice : SliceAt(u) => SliceAt(u)'
      /\ a \in Slice /\ \A u : u = a => SliceAt(u)'
  BY <1>1, <1>2, <1>4, AppendKeepsFirst, Zenon
<1>7. trans' = [trans EXCEPT ![i] = r]
  BY Zenon
<1> HIDE DEF a, t
<1>8. /\ r \in Trans /\ r.query = t.query /\ r.visited = a /\ r.nodes = t.nodes \cup {n}
      /\ r.level = t.level /\ r.depth = t.depth /\ r.pc = t.pc
  BY <1>2, <1>6 DEF Trans
<1> HIDE DEF r
<1>9. /\ trans' \in Seq(Trans) /\ DOMAIN trans' = DOMAIN trans
      /\ trans'[i] = r /\ \A j \in DOMAIN trans : j # i => trans'[j] = trans[j]
  <2>1. TypeOK /\ r \in Trans
    BY <1>1, <1>8, Zenon
  <2>2. QED
    BY ONLY <1>7, <2>1, UpdateEffect, i \in DOMAIN trans, Zenon
<1>10. DepthInv'
  <2>1. DepthAt(r)
    BY <1>1, <1>3, <1>8, Zenon DEF DepthAt
  <2>2. QED
    BY <1>9, <2>1, Zenon DEF DepthInv, IInv
<1>11. VisitedInv'
  <2>1. \A j \in DOMAIN trans : trans[j].visited \in Slice
    BY <1>1, TransFields, Zenon
  <2>2. ASSUME NEW j \in DOMAIN trans', trans'[j].query = "get_peers"
        PROVE  SliceAt(trans[j].visited)'
    <3>1. CASE j = i
      <4>1. trans'[j].visited = a
        BY <1>8, <1>9, <3>1, Zenon
      <4>2. QED
        BY <1>6, <4>1, Zenon
    <3>2. CASE j # i
      <4>1. trans'[j] = trans[j] /\ j \in DOMAIN trans
        BY <1>9, <3>2, Zenon
      <4>2. SliceAt(trans[j].visited) /\ trans[j].visited \in Slice
        BY <1>1, <2>1, <2>2, <4>1, Zenon DEF VisitedInv
      <4>3. \A u : u = trans[j].visited => SliceAt(u)'
        BY <1>6, <4>2, Zenon
      <4>4. QED
        BY <4>1, <4>3, Zenon
    <3>3. QED
      BY <3>1, <3>2, Zenon
  <2>3. QED
    BY <1>1, <1>6, <1>9, <2>2, Zenon DEF VisitedInv
<1>12. OnceInv'
  <2>1. asked' = asked /\ asked[n] = 0 /\ \A j \in DOMAIN trans : n \notin trans[j].nodes
    <3>1. asked[n] \in Nat
      BY <1>1, Zenon DEF TypeOK
    <3>2. ~(asked[n] > 0) /\ \A j \in DOMAIN trans : n \notin trans[j].nodes
      BY <1>5, Zenon DEF Chosen
    <3>3. asked[n] = 0
      BY <3>1, <3>2
    <3>4. QED
      BY <3>2, <3>3, Zenon
  <2>2. \A m \in Node : m # n => \A j \in DOMAIN trans : m \in trans'[j].nodes <=> m \in trans[j].nodes
    BY <1>8, <1>9, Zenon DEF t
  <2>3. \A j \in DOMAIN trans : n \in trans'[j].nodes <=> j = i
    BY <1>8, <1>9, <2>1, Zenon
  <2>4. \A m \in Node : First(m)' <=> First(m)
    BY <1>6, Zenon DEF First
  <2>5. \A m \in Node : m # n => (Chosen(m)' <=> Chosen(m))
    BY <1>9, <2>1, <2>2, Zenon DEF Chosen
  <2>6. \A m \in Node : asked'[m] <= 1
    BY <2>1, Zenon DEF IInv, OnceInv
  <2>7. \A m \in Node : \A j \in DOMAIN trans' : m \in trans'[j].nodes => asked'[m] = 0
    <3>1. \A m \in Node : \A j \in DOMAIN trans : m \in trans[j].nodes => asked[m] = 0
      BY Zenon DEF IInv, OnceInv
    <3>2. TAKE m \in Node
    <3>3. TAKE j \in DOMAIN trans'
    <3>4. CASE m = n
      BY <2>1, <3>4, Zenon
    <3>5. CASE m # n
      BY <1>9, <2>1, <2>2, <3>1, <3>5, Zenon
    <3>6. QED
      BY <3>4, <3>5, Zenon
  <2>8. \A m \in Node : \A j, k \in DOMAIN trans' :
           m \in trans'[j].nodes /\ m \in trans'[k].nodes => j = k
    <3>1. \A m \in Node : \A j, k \in DOMAIN trans :
             m \in trans[j].nodes /\ m \in trans[k].nodes => j = k
      BY Zenon DEF IInv, OnceInv
    <3>2. TAKE m \in Node
    <3>3. TAKE j, k \in DOMAIN trans'
    <3>4. CASE m = n
      BY <1>9, <2>3, <3>4, Zenon
    <3>5. CASE m # n
      BY <1>9, <2>2, <3>1, <3>5, Zenon
    <3>6. QED
      BY <3>4, <3>5, Zenon
  <2>9. \A m \in Node : Chosen(m)' => m \in table' \ bad' \/ First(m)'
    BY <2>4, <2>5, Zenon DEF IInv, OnceInv
  <2>10. "get_peers" \in started'
    BY <1>1, <1>6, Zenon DEF VisitedInv
  <2>11. QED
    BY <2>6, <2>7, <2>8, <2>9, <2>10, Zenon DEF OnceInv
<1>13. TypeOK'
  <2>1. table' \in SUBSET Node /\ bad' \in SUBSET table'
    BY <1>1, Zenon DEF TypeOK
  <2>2. QED
    BY <1>1, <1>6, <1>9, <2>1, Zenon DEF TypeOK
<1>14. QED
  BY <1>10, <1>11, <1>12, <1>13, Zenon DEF IInv

\* A node of a response is followed only if it has just been added to the table.
LEMMA FollowInv ==
    ASSUME IInv, NEW i \in DOMAIN trans, NEW n \in Node, Follow(i, n)
    PROVE  IInv'
<1> DEFINE t == trans[i]
<1>1. CASE /\ ~Contains(t.visited, n) /\ n \notin table /\ table' = table \cup {n}
           /\ heap' = HeapWith(t.visited, n)
           /\ trans' = [trans EXCEPT ![i].todo = @ \ {n}, ![i].found = @ \/ n = Target,
                                     ![i].nodes = @ \cup {n}, ![i].visited = Appended(@)]
  <2>1. bad' = bad \ {n} /\ t.pc = "follow" /\ UNCHANGED <<tokens, sent, started, asked, granted>>
    BY <1>1, Zenon DEF Follow
  <2>2. QED
    BY <1>1, <2>1, AddInv, Zenon
<1>2. CASE /\ trans' = [trans EXCEPT ![i].todo = @ \ {n}, ![i].found = @ \/ n = Target]
           /\ UNCHANGED <<table, heap>>
  <2>1. (bad' = bad \/ bad' = bad \ {n}) /\ t.pc = "follow" /\ UNCHANGED <<tokens, sent, started, asked, granted>>
    BY Zenon DEF Follow
  <2>2. QED
    BY <1>2, <2>1, SkipInv, Zenon
<1>3. QED
  BY <1>1, <1>2, Zenon DEF Follow

\* A handler asks one of the nodes it has added.
LEMMA AskInv ==
    ASSUME IInv, NEW i \in DOMAIN trans, NEW n \in Node, Ask(i, n)
    PROVE  IInv'
<1> DEFINE t == trans[i]
<1> DEFINE r == [t EXCEPT !.nodes = @ \ {n}]
<1> DEFINE new == Transaction(t.query, n, t.depth, t.visited, t.level + 1)
<1> DEFINE l == Len(trans) + 1
<1>1. TypeOK /\ DepthAt(t) /\ VisitedInv /\ OnceInv
  BY Zenon DEF IInv, DepthInv
<1>2. /\ t \in Trans /\ t.query \in {"get_peers", "find_node"} /\ t.visited \in Slice
      /\ t.depth \in -1..SearchDepth /\ t.level \in Nat
  BY <1>1, TransFields, Zenon
<1>3. /\ t.pc = "follow" /\ n \in t.nodes
      /\ trans' = Append([trans EXCEPT ![i] = r], new)
      /\ asked' = [asked EXCEPT ![n] = @ + 1]
      /\ UNCHANGED <<table, bad, heap, tokens, sent, started, granted>>
  BY Zenon DEF Ask, NextDepth
<1>4. t.query = "get_peers" /\ t.depth >= 1 /\ t.level + t.depth <= SearchDepth /\ SearchDepth \in Nat
  BY <1>1, <1>2, <1>3, ConstantsAssumption, Zenon DEF DepthAt
<1>5. asked \in [Node -> Nat] /\ asked[n] = 0
  BY <1>1, <1>3, Zenon DEF TypeOK, OnceInv
<1>6. SliceAt(t.visited)
  BY <1>1, <1>4, Zenon DEF VisitedInv
<1>7. trans \in Seq(Trans) /\ i \in 1..Len(trans) /\ Len(trans) \in Nat /\ DOMAIN trans = 1..Len(trans)
  BY <1>1, LenProperties, Zenon DEF TypeOK
<1> HIDE DEF t
<1>8. /\ r \in Trans /\ r.query = t.query /\ r.visited = t.visited /\ r.nodes = t.nodes \ {n}
      /\ r.level = t.level /\ r.depth = t.depth /\ r.pc = t.pc
  BY <1>2 DEF Trans
<1>9. /\ new \in Trans /\ new.query = t.query /\ new.visited = t.visited /\ new.nodes = {}
      /\ new.level = t.level + 1 /\ new.depth = t.depth /\ new.pc = "waiting"
  BY <1>2 DEF Transaction, Trans
<1> HIDE DEF r, new
<1>10. /\ trans' \in Seq(Trans) /\ DOMAIN trans' = 1..l /\ trans'[i] = r /\ trans'[l] = new
       /\ \A j \in 1..l : j # l => j \in DOMAIN trans
       /\ \A j \in DOMAIN trans : j # i => trans'[j] = trans[j]
       /\ \A j \in DOMAIN trans : j \in 1..l /\ j # l
  BY <1>3, <1>7, <1>8, <1>9
<1>11. asked' \in [Node -> Nat] /\ asked'[n] = 1 /\ \A m \in Node : m # n => asked'[m] = asked[m]
  BY <1>3, <1>5
<1> HIDE DEF l
<1>12. DepthInv'
  <2>1. DepthAt(r)
    BY <1>1, <1>4, <1>8, Zenon DEF DepthAt
  <2>2. DepthAt(new)
    <3>1. t.level + 1 \in 1..SearchDepth /\ (t.level + 1) + t.depth <= SearchDepth + 1 /\ t.depth >= 0
      BY <1>2, <1>4
    <3>2. QED
      BY <1>4, <1>9, <3>1, Zenon DEF DepthAt
  <2>3. QED
    BY <1>10, <2>1, <2>2, Zenon DEF DepthInv, IInv
<1>13. VisitedInv'
  <2>1. \A u \in Slice : SliceAt(u) => SliceAt(u)'
    BY <1>3, Zenon DEF SliceAt
  <2>2. \A j \in DOMAIN trans : trans[j].visited \in Slice
    BY <1>1, TransFields, Zenon
  <2>3. ASSUME NEW j \in DOMAIN trans', trans'[j].query = "get_peers"
        PROVE  trans'[j].visited \in Slice /\ SliceAt(trans[j].visited)'
    <3>1. CASE j = i \/ j = l
      <4>1. trans'[j].visited = t.visited
        BY <1>8, <1>9, <1>10, <3>1, Zenon
      <4>2. QED
        BY <1>2, <1>6, <2>1, <4>1, Zenon
    <3>2. CASE j # i /\ j # l
      <4>1. trans'[j] = trans[j] /\ j \in DOMAIN trans
        BY <1>10, <3>2, Zenon
      <4>2. SliceAt(trans[j].visited) /\ trans[j].visited \in Slice
        BY <1>1, <2>2, <2>3, <4>1, Zenon DEF VisitedInv
      <4>3. \A u : u = trans[j].visited => SliceAt(u)'
        BY <2>1, <4>2, Zenon
      <4>4. QED
        BY <4>1, <4>2, <4>3, Zenon
    <3>3. QED
      BY <3>1, <3>2, Zenon
  <2>4. heap' # <<>> => Len(heap'[1]) > 0 /\ "get_peers" \in started'
    BY <1>1, <1>3, Zenon DEF VisitedInv
  <2>5. QED
    BY <2>3, <2>4, Zenon DEF VisitedInv
<1>14. OnceInv'
  <2>1. \A m \in Node : \A j \in DOMAIN trans' : m \in trans'[j].nodes => j \in DOMAIN trans /\ m \in trans[j].nodes
    BY <1>8, <1>9, <1>10, Zenon DEF t
  <2>2. \A j \in DOMAIN trans' : n \notin trans'[j].nodes
    <3>1. \A j \in DOMAIN trans : n \in trans[j].nodes => j = i
      BY <1>1, <1>3, Zenon DEF OnceInv, t
    <3>2. n \notin trans'[i].nodes
      BY <1>8, <1>10, Zenon
    <3>3. QED
      BY <2>1, <3>1, <3>2, Zenon
  <2>3. \A m \in Node : asked'[m] <= 1
    <3>1. asked'[n] <= 1
      BY <1>11
    <3>2. \A m \in Node : m # n => asked'[m] <= 1
      BY <1>1, <1>11, Zenon DEF OnceInv
    <3>3. QED
      BY <3>1, <3>2, Zenon
  <2>4. \A m \in Node : \A j \in DOMAIN trans' : m \in trans'[j].nodes => asked'[m] = 0
    <3>1. \A m \in Node : \A j \in DOMAIN trans : m \in trans[j].nodes => asked[m] = 0
      BY <1>1, Zenon DEF OnceInv
    <3>2. QED
      BY <1>11, <2>1, <2>2, <3>1, Zenon
  <2>5. \A m \in Node : \A j, k \in DOMAIN trans' :
           m \in trans'[j].nodes /\ m \in trans'[k].nodes => j = k
    BY <1>1, <2>1, Zenon DEF OnceInv
  <2>6. \A m \in Node : Chosen(m)' => Chosen(m)
    <3>1. Chosen(n)
      BY <1>3, Zenon DEF Chosen, t
    <3>2. \A m \in Node : m # n => (Chosen(m)' => Chosen(m))
      BY <1>11, <2>1, Zenon DEF Chosen
    <3>3. QED
      BY <3>1, <3>2, Zenon
  <2>7. \A m \in Node : Chosen(m)' => m \in table' \ bad' \/ First(m)'
    <3>1. \A m \in Node : First(m) => First(m)'
      BY <1>3, Zenon DEF First
    <3>2. QED
      BY <1>1, <1>3, <2>6, <3>1, Zenon DEF OnceInv
  <2>8. "get_peers" \notin started' => \A m \in Node : ~Chosen(m)'
    BY <1>1, <1>3, <2>6, Zenon DEF OnceInv
  <2>9. QED
    BY <2>3, <2>4, <2>5, <2>7, <2>8, Zenon DEF OnceInv
<1>15. TypeOK'
  BY <1>1, <1>3, <1>10, <1>11, Zenon DEF TypeOK
<1>16. QED
  BY <1>12, <1>13, <1>14, <1>15, Zenon DEF IInv

-----------------------------------------------------------------------------
(***************************************************************************)
(* The calls of the API, and nodes that leave the table                    *)
(***************************************************************************)

\* GetPeers writes the array every Visited begins with.
LEMMA GetPeersInv ==
    ASSUME IInv, GetPeers
    PROVE  IInv'
<1> DEFINE C == Closest
<1> DEFINE ids == Ascending(C)
<1> DEFINE c == Cardinality(C)
<1> DEFINE slice == [array |-> 1, len |-> c]
<1> DEFINE new(k) == Transaction("get_peers", ids[k], SearchDepth, slice, 1)
<1> DEFINE news == [k \in 1..c |-> new(k)]
<1>1. TypeOK /\ DepthInv /\ VisitedInv /\ OnceInv
  BY Zenon DEF IInv
<1>2. /\ "get_peers" \in Calls /\ "get_peers" \notin started /\ started' = started \cup {"get_peers"}
      /\ UNCHANGED <<table, bad, tokens, sent, granted>>
  BY Zenon DEF GetPeers
<1>3. heap = <<>> /\ \A n \in Node : ~Chosen(n)
  BY <1>1, <1>2, Zenon DEF VisitedInv, OnceInv
<1>4. started' \subseteq Calls
  BY <1>1, <1>2, Zenon DEF TypeOK
<1>5. \A j \in DOMAIN trans : trans[j].query # "get_peers" /\ trans[j].nodes = {}
  <2>1. TAKE j \in DOMAIN trans
  <2>2. trans[j].query # "get_peers"
    <3>1. \A u : ~SliceAt(u)
      BY <1>3 DEF SliceAt
    <3>2. QED
      BY <1>1, <3>1, Zenon DEF VisitedInv
  <2>3. trans[j].nodes \in SUBSET Node
    BY <1>1, TransFields, Zenon
  <2>4. QED
    BY <1>3, <2>2, <2>3, Zenon DEF Chosen
<1>6. asked \in [Node -> Nat] /\ \A n \in Node : asked[n] = 0
  <2>1. asked \in [Node -> Nat] /\ \A n \in Node : ~(asked[n] > 0)
    BY <1>1, <1>3, Zenon DEF TypeOK, Chosen
  <2>2. QED
    BY <2>1
<1>7. CASE C = {}
  <2>1. UNCHANGED <<heap, trans, asked>>
    BY <1>7, Zenon DEF GetPeers
  <2>2. TypeOK'
    BY <1>1, <1>2, <1>4, <2>1, Zenon DEF TypeOK
  <2>3. DepthInv'
    BY <1>1, <2>1, Zenon DEF DepthInv
  <2>4. VisitedInv'
    BY <1>3, <1>5, <2>1, Zenon DEF VisitedInv
  <2>5. \A n \in Node : ~Chosen(n)'
    BY <1>3, <2>1, Zenon DEF Chosen
  <2>6. OnceInv'
    <3>1. \A n \in Node : asked'[n] <= 1
      BY <1>1, <2>1, Zenon DEF OnceInv
    <3>2. QED
      BY <1>5, <2>1, <2>5, <3>1, Zenon DEF OnceInv
  <2>7. QED
    BY <2>2, <2>3, <2>4, <2>6, Zenon DEF IInv
<1>8. CASE C # {}
  <2>1. C \in SUBSET Node /\ C \in SUBSET Nat /\ IsFiniteSet(C)
    <3>1. C \in SUBSET table /\ table \in SUBSET Node
      BY <1>1, Zenon DEF Closest, TypeOK
    <3>2. Node \subseteq Nat /\ IsFiniteSet(Node)
      BY ConstantsAssumption, Zenon
    <3> HIDE DEF C
    <3>3. C \in SUBSET Node /\ C \in SUBSET Nat
      BY <3>1, <3>2, Zenon
    <3>4. QED
      BY <3>2, <3>3, FS_Subset, Zenon
  <2>2. /\ c \in Nat /\ ids \in Seq(C) /\ Len(ids) = c
        /\ \A n \in C : \E k \in 1..c : ids[k] = n
    BY <2>1, AscendingElements, Zenon
  <2>3. c > 0
    <3>1. c # 0
      BY <1>8, <2>1, FS_EmptySet, Zenon
    <3> HIDE DEF c
    <3>2. QED
      BY <2>2, <3>1
  <2>4. /\ heap' = Append(heap, ids)
        /\ trans' = trans \o [k \in 1..Len(ids) |->
                       Transaction("get_peers", ids[k], SearchDepth, [array |-> Len(heap) + 1, len |-> Len(ids)], 1)]
        /\ asked' = [n \in Node |-> IF n \in C THEN asked[n] + 1 ELSE asked[n]]
    BY <1>8, Zenon DEF GetPeers
  <2>5. Len(heap) + 1 = 1
    BY <1>3
  <2>6. trans' = trans \o news
    BY <2>2, <2>4, <2>5, Zenon
  <2> HIDE DEF C, ids, c
  <2>7. ids \in Seq(Node \cup {0}) /\ \A k \in 1..c : ids[k] \in Node
    <3>1. C \subseteq Node \cup {0}
      BY <2>1, Zenon
    <3>2. ids \in Seq(Node \cup {0})
      BY <2>2, <3>1, SeqMonotonic, Zenon
    <3>3. QED
      BY <2>1, <2>2, <3>2, ElementOfSeq, Zenon
  <2>8. /\ heap' \in Seq(Seq(Node \cup {0})) /\ heap'[1] = ids /\ heap' # <<>>
        /\ DOMAIN heap' = {1} /\ Len(heap'[1]) = c /\ DOMAIN heap'[1] = 1..c
    BY <1>3, <2>2, <2>4, <2>7
  <2>9. slice \in Slice /\ \A u : u = slice => SliceAt(u)'
    <3>1. slice \in Slice /\ slice.array = 1 /\ slice.len = c /\ c <= c
      BY <2>2 DEF Slice
    <3>2. QED
      BY <2>8, <3>1, Zenon DEF SliceAt
  <2>10. SearchDepth \in Nat /\ SearchDepth \in 1..SearchDepth /\ SearchDepth \in -1..SearchDepth /\ 1 \in 1..SearchDepth
    BY ConstantsAssumption
  <2> HIDE DEF slice
  <2>11. \A k \in 1..c : /\ new(k) \in Trans /\ new(k).query = "get_peers" /\ new(k).visited = slice
                         /\ new(k).nodes = {} /\ new(k).pc = "waiting" /\ new(k).level = 1
                         /\ new(k).depth = SearchDepth
    BY <2>7, <2>9, <2>10 DEF Transaction, Trans
  <2> HIDE DEF new
  <2>12. news \in Seq(Trans) /\ Len(news) = c /\ \A k \in 1..c : news[k] = new(k)
    BY <2>2, <2>11
  <2> HIDE DEF news
  <2>13. trans \in Seq(Trans) /\ DOMAIN trans = 1..Len(trans) /\ Len(trans) \in Nat
    BY <1>1, LenProperties, Zenon DEF TypeOK
  <2>14. /\ trans' \in Seq(Trans)
         /\ \A j \in DOMAIN trans' : \/ j \in DOMAIN trans /\ trans'[j] = trans[j]
                                     \/ \E k \in 1..c : trans'[j] = new(k)
    <3>1. trans' \in Seq(Trans) /\ DOMAIN trans' = 1..(Len(trans) + c)
      <4>1. trans' \in Seq(Trans) /\ Len(trans') = Len(trans) + c
        BY <2>6, <2>12, <2>13, ConcatProperties, Zenon
      <4>2. QED
        BY <4>1, LenProperties, Zenon
    <3>2. ASSUME NEW j \in 1..(Len(trans) + c), j <= Len(trans)
          PROVE  j \in DOMAIN trans /\ trans'[j] = trans[j]
      BY <2>2, <2>6, <2>12, <2>13, <3>2
    <3>3. ASSUME NEW j \in 1..(Len(trans) + c), ~(j <= Len(trans))
          PROVE  \E k \in 1..c : trans'[j] = new(k)
      <4>1. j - Len(trans) \in 1..c /\ trans'[j] = news[j - Len(trans)]
        BY <2>2, <2>6, <2>12, <2>13, <3>3
      <4>2. QED
        BY <2>12, <4>1, Zenon
    <3>4. QED
      BY <3>1, <3>2, <3>3, Zenon
  <2>15. asked' \in [Node -> Nat] /\ \A n \in Node : asked'[n] <= 1 /\ (asked'[n] > 0 => n \in C)
    BY <1>6, <2>4
  <2>16. DepthInv'
    <3>1. \A k \in 1..c : DepthAt(new(k))
      <4>1. SearchDepth >= 0 /\ SearchDepth >= 1 /\ 1 + SearchDepth <= SearchDepth + 1
        BY <2>10
      <4>2. QED
        BY <2>10, <2>11, <4>1, Zenon DEF DepthAt
    <3>2. QED
      BY <1>1, <2>14, <3>1, Zenon DEF DepthInv
  <2>17. VisitedInv'
    <3>1. ASSUME NEW j \in DOMAIN trans', trans'[j].query = "get_peers"
          PROVE  SliceAt(trans[j].visited)'
      <4>1. trans'[j].visited = slice
        BY <1>5, <2>11, <2>14, <3>1, Zenon
      <4>2. QED
        BY <2>9, <4>1, Zenon
    <3>2. QED
      BY <1>2, <2>3, <2>8, <3>1, Zenon DEF VisitedInv
  <2>18. OnceInv'
    <3>1. \A j \in DOMAIN trans' : trans'[j].nodes = {}
      BY <1>5, <2>11, <2>14, Zenon
    <3>2. \A n \in Node : Chosen(n)' => n \in C
      BY <2>15, <3>1, Zenon DEF Chosen
    <3>3. \A n \in C : First(n)'
      BY <2>2, <2>8, Zenon DEF First
    <3>4. "get_peers" \in started'
      BY <1>2, Zenon
    <3>5. QED
      BY <2>15, <3>1, <3>2, <3>3, <3>4, Zenon DEF OnceInv
  <2>19. TypeOK'
    BY <1>1, <1>2, <1>4, <2>8, <2>14, <2>15, Zenon DEF TypeOK
  <2>20. QED
    BY <2>16, <2>17, <2>18, <2>19, Zenon DEF IInv
<1>9. QED
  BY <1>7, <1>8, Zenon

\* FindNode sends the first query of a find_node search.
LEMMA FindNodeInv ==
    ASSUME IInv, NEW n \in Bootstrap, FindNode(n)
    PROVE  IInv'
<1> DEFINE slice == [array |-> 0, len |-> 0]
<1> DEFINE new == Transaction("find_node", n, 0, slice, 1)
<1> DEFINE l == Len(trans) + 1
<1>1. TypeOK /\ DepthInv /\ VisitedInv /\ OnceInv
  BY Zenon DEF IInv
<1>2. /\ started = {} /\ started' = {"find_node"} /\ "find_node" \in Calls /\ trans' = Append(trans, new)
      /\ UNCHANGED <<table, bad, heap, tokens, sent, asked, granted>>
  BY Zenon DEF FindNode
<1>3. n \in Node /\ 0 \in -1..SearchDepth /\ 1 \in 1..SearchDepth
  BY ConstantsAssumption
<1>4. /\ new \in Trans /\ new.query = "find_node" /\ new.nodes = {} /\ new.pc = "waiting"
      /\ new.level = 1 /\ new.depth = 0
  BY <1>3 DEF Transaction, Trans, Slice
<1> HIDE DEF new
<1>5. trans \in Seq(Trans) /\ DOMAIN trans = 1..Len(trans) /\ Len(trans) \in Nat
  BY <1>1, LenProperties, Zenon DEF TypeOK
<1>6. /\ trans' \in Seq(Trans) /\ trans'[l] = new /\ DOMAIN trans' = 1..l
      /\ \A j \in DOMAIN trans' : j # l => j \in DOMAIN trans /\ trans'[j] = trans[j]
  BY <1>2, <1>4, <1>5
<1> HIDE DEF l
<1>7. DepthInv'
  <2>1. DepthAt(new)
    <3>1. 0 <= 0 /\ 0 >= 0
      OBVIOUS
    <3>2. QED
      BY <1>3, <1>4, <3>1, Zenon DEF DepthAt
  <2>2. QED
    BY <1>1, <1>6, <2>1, Zenon DEF DepthInv
<1>8. \A m \in Node : ~Chosen(m) /\ ~Chosen(m)'
  <2>1. \A m \in Node : ~Chosen(m)
    BY <1>1, <1>2, Zenon DEF OnceInv
  <2>2. QED
    BY <1>2, <1>4, <1>6, <2>1, Zenon DEF Chosen
<1>9. VisitedInv'
  <2>1. heap = <<>>
    BY <1>1, <1>2, Zenon DEF VisitedInv
  <2>2. \A u : ~SliceAt(u)
    BY <2>1 DEF SliceAt
  <2>3. \A j \in DOMAIN trans' : trans'[j].query # "get_peers"
    BY <1>1, <1>4, <1>6, <2>2, Zenon DEF VisitedInv
  <2>4. QED
    BY <1>2, <2>1, <2>3, Zenon DEF VisitedInv
<1>10. OnceInv'
  <2>1. \A m \in Node : asked'[m] <= 1
    BY <1>1, <1>2, Zenon DEF OnceInv
  <2>2. \A m \in Node : \A j \in DOMAIN trans' : m \notin trans'[j].nodes
    BY <1>8, Zenon DEF Chosen
  <2>3. QED
    BY <1>8, <2>1, <2>2, Zenon DEF OnceInv
<1>11. TypeOK'
  BY <1>1, <1>2, <1>6, Zenon DEF TypeOK
<1>12. QED
  BY <1>7, <1>9, <1>10, <1>11, Zenon DEF IInv

\* AnnouncePeer reads the tokens and sends.
LEMMA AnnouncePeerInv ==
    ASSUME IInv, AnnouncePeer
    PROVE  IInv'
<1>1. TypeOK /\ DepthInv /\ VisitedInv /\ OnceInv
  BY Zenon DEF IInv
<1>2. /\ "announce_peer" \in Calls /\ started' = started \cup {"announce_peer"}
      /\ sent' = {n \in Closest : <<Target, n>> \in tokens}
      /\ UNCHANGED <<table, bad, trans, heap, tokens, asked, granted>>
  BY Zenon DEF AnnouncePeer
<1>3. "get_peers" \in started' <=> "get_peers" \in started
  <2>1. "get_peers" # "announce_peer"
    OBVIOUS
  <2>2. QED
    BY <1>2, <2>1, Zenon
<1>4. TypeOK'
  <2>1. sent' \in SUBSET Node
    BY <1>1, <1>2, Zenon DEF TypeOK, Closest
  <2>2. QED
    BY <1>1, <1>2, <2>1, Zenon DEF TypeOK
<1>5. DepthInv'
  BY <1>1, <1>2, Zenon DEF DepthInv
<1>6. VisitedInv'
  BY <1>1, <1>2, <1>3, Zenon DEF VisitedInv, SliceAt
<1>7. OnceInv'
  BY <1>1, <1>2, <1>3, Zenon DEF OnceInv, Chosen, First
<1>8. QED
  BY <1>4, <1>5, <1>6, <1>7, Zenon DEF IInv

\* The nodes that leave the table are bad, and none of them was added by this
\* search.
LEMMA ForgetInv ==
    ASSUME IInv, NEW n \in Node, Forget(n)
    PROVE  IInv'
<1>1. TypeOK /\ DepthInv /\ VisitedInv /\ OnceInv
  BY Zenon DEF IInv
<1>2. /\ n \in bad /\ table' = table \ {n} /\ bad' = bad \ {n}
      /\ UNCHANGED <<trans, heap, tokens, sent, started, asked, granted>>
  BY Zenon DEF Forget
<1>3. TypeOK'
  <2>1. table' \in SUBSET Node /\ bad' \in SUBSET table'
    BY <1>1, <1>2, Zenon DEF TypeOK
  <2>2. QED
    BY <1>1, <1>2, <2>1, Zenon DEF TypeOK
<1>4. DepthInv'
  BY <1>1, <1>2, Zenon DEF DepthInv
<1>5. VisitedInv'
  BY <1>1, <1>2, Zenon DEF VisitedInv, SliceAt
<1>6. OnceInv'
  <2>1. \A m \in Node : (Chosen(m)' <=> Chosen(m)) /\ (First(m)' <=> First(m))
    BY <1>2, Zenon DEF Chosen, First
  <2>2. \A m : m \in table \ bad => m \in table' \ bad'
    BY <1>2, Zenon
  <2>3. QED
    BY <1>1, <1>2, <2>1, <2>2, Zenon DEF OnceInv
<1>7. QED
  BY <1>3, <1>4, <1>5, <1>6, Zenon DEF IInv

-----------------------------------------------------------------------------
(***************************************************************************)
(* The invariant and what follows from it                                  *)
(***************************************************************************)

\* No search has been started.
LEMMA IInvInit == Init => IInv
<1>1. SUFFICES ASSUME Init PROVE IInv
  OBVIOUS
<1>2. TypeOK
  <2>1. <<>> \in Seq(Trans) /\ <<>> \in Seq(Seq(Node \cup {0}))
    BY EmptySeq, Zenon
  <2>2. asked \in [Node -> Nat]
    BY <1>1 DEF Init
  <2>3. QED
    BY <1>1, <2>1, <2>2, ConstantsAssumption, Zenon DEF Init, TypeOK
<1>3. DOMAIN trans = {}
  BY <1>1 DEF Init
<1>4. DepthInv
  BY <1>3, Zenon DEF DepthInv
<1>5. VisitedInv
  BY <1>1, <1>3, Zenon DEF Init, VisitedInv
<1>6. \A n \in Node : asked[n] <= 1 /\ ~(asked[n] > 0)
  BY <1>1 DEF Init
<1>7. OnceInv
  BY <1>3, <1>6, Zenon DEF OnceInv, Chosen
<1>8. QED
  BY <1>2, <1>4, <1>5, <1>7, Zenon DEF IInv

\* Each step of a search, and of the table, keeps the invariant.
LEMMA IInvNext == IInv /\ [Next]_vars => IInv'
<1>1. SUFFICES ASSUME IInv, [Next]_vars PROVE IInv'
  OBVIOUS
<1>2. CASE GetPeers
  BY <1>1, <1>2, GetPeersInv, Zenon
<1>3. ASSUME NEW n \in Bootstrap, FindNode(n) PROVE IInv'
  BY <1>1, <1>3, FindNodeInv, Zenon
<1>4. ASSUME NEW n \in Node, Forget(n) PROVE IInv'
  BY <1>1, <1>4, ForgetInv, Zenon
<1>5. CASE AnnouncePeer
  BY <1>1, <1>5, AnnouncePeerInv, Zenon
<1>6. ASSUME NEW i \in DOMAIN trans, Finish(i) PROVE IInv'
  <2>1. trans[i].pc # "done"
    BY <1>6 DEF Finish
  <2>2. QED
    BY <1>1, <1>6, <2>1, EndTransInv, Zenon DEF Finish
<1>7. ASSUME NEW i \in DOMAIN trans, NEW closer \in SUBSET Node, NEW peers \in BOOLEAN,
             Respond(i, closer, peers)
      PROVE  IInv'
  BY <1>1, <1>7, RespondInv, Zenon
<1>8. ASSUME NEW i \in DOMAIN trans, NEW n \in Node, Follow(i, n) PROVE IInv'
  BY <1>1, <1>8, FollowInv, Zenon
<1>9. ASSUME NEW i \in DOMAIN trans, NEW n \in Node, Ask(i, n) PROVE IInv'
  BY <1>1, <1>9, AskInv, Zenon
<1>10. ASSUME NEW i \in DOMAIN trans, Return(i) PROVE IInv'
  <2>1. trans[i].pc # "done"
    BY <1>10 DEF Return
  <2>2. QED
    BY <1>1, <1>10, <2>1, EndTransInv, Zenon DEF Return
<1>11. CASE UNCHANGED vars
  <2>1. UNCHANGED <<table, bad, trans, heap, tokens, sent, started, asked, granted>>
    BY <1>11, Zenon DEF vars
  <2>2. TypeOK'
    BY <1>1, <2>1, Zenon DEF IInv, TypeOK
  <2>3. DepthInv'
    BY <1>1, <2>1, Zenon DEF IInv, DepthInv
  <2>4. VisitedInv'
    BY <1>1, <2>1, Zenon DEF IInv, VisitedInv, SliceAt
  <2>5. OnceInv'
    BY <1>1, <2>1, Zenon DEF IInv, OnceInv, Chosen, First
  <2>6. QED
    BY <2>2, <2>3, <2>4, <2>5, Zenon DEF IInv
<1>12. QED
  BY <1>1, <1>2, <1>3, <1>4, <1>5, <1>6, <1>7, <1>8, <1>9, <1>10, <1>11, Zenon DEF Next, Handle

\* The invariant holds from the start.
LEMMA Invariance == Spec => []IInv
<1>1. QED
  BY IInvInit, IInvNext, PTL DEF Spec

\* Whatever the responses, the searches keep their types; a depth does not fall
\* below -1.
THEOREM TypeCorrect == Spec => []TypeOK
<1>1. IInv => TypeOK
  BY Zenon DEF IInv
<1>2. QED
  BY <1>1, Invariance, PTL

\* A search with get_peers asks each node once, however many of the goroutines
\* that handle its responses are named the same node at the same time.
THEOREM EachNodeIsAskedOnce == Spec => []NobodyIsAskedTwice
<1>1. IInv => NobodyIsAskedTwice
  BY Zenon DEF IInv, OnceInv, NobodyIsAskedTwice
<1>2. QED
  BY <1>1, Invariance, PTL

\* No query is further than SearchDepth from the call that started the search,
\* and those findNode sends are the first and the last of theirs.
THEOREM SearchIsBounded ==
    Spec => [](\A i \in DOMAIN trans : /\ trans[i].level <= SearchDepth
                                       /\ trans[i].query = "find_node" => trans[i].nodes = {})
<1> DEFINE Bounded == \A i \in DOMAIN trans : /\ trans[i].level <= SearchDepth
                                              /\ trans[i].query = "find_node" => trans[i].nodes = {}
<1>1. IInv => Bounded
  <2>1. SUFFICES ASSUME IInv, NEW i \in DOMAIN trans
                 PROVE  /\ trans[i].level <= SearchDepth
                        /\ trans[i].query = "find_node" => trans[i].nodes = {}
    BY Zenon
  <2>2. DepthAt(trans[i])
    BY <2>1, Zenon DEF IInv, DepthInv
  <2>3. trans[i].level \in 1..SearchDepth /\ (trans[i].query = "find_node" => trans[i].nodes = {})
    BY <2>2, Zenon DEF DepthAt
  <2>4. trans[i].level <= SearchDepth
    BY <2>3, ConstantsAssumption
  <2>5. QED
    BY <2>3, <2>4, Zenon
<1>2. QED
  BY <1>1, Invariance, PTL

-----------------------------------------------------------------------------
(***************************************************************************)
(* The tokens                                                              *)
(***************************************************************************)
\* Every variable keeps its type: the clock stays within an expiry and the ages
\* within their caps.
THEOREM TokensTyped == TokenSpec => []TokenTypeOK
<1> USE HalfAssumption DEF Expired
<1>1. TokenInit => TokenTypeOK
  <2> SUFFICES ASSUME TokenInit PROVE TokenTypeOK
    OBVIOUS
  <2>1. /\ Time \in [Addr -> 0..(2 * Expired)]
        /\ issued \in [Addr -> 0..(Expired + 1)]
        /\ clock \in 0..(Expired - 1)
    BY DEF TokenInit
  <2>2. gen \in [Addr -> 0..2] /\ read \in [Addr -> 0..2]
    BY DEF TokenInit
  <2>3. pc \in [Addr -> {"idle", "token", "match", "differ", "ignored", "announced"}]
    BY DEF TokenInit
  <2> QED
    BY <2>1, <2>2, <2>3 DEF TokenInit, TokenTypeOK
<1>2. TokenTypeOK /\ [TokenNext]_tokenVars => TokenTypeOK'
  <2> SUFFICES ASSUME TokenTypeOK, [TokenNext]_tokenVars PROVE TokenTypeOK'
    OBVIOUS
  <2> USE DEF TokenTypeOK, start
  <2>1. ASSUME NEW a \in Addr, TokenRead(a) PROVE TokenTypeOK'
    BY <2>1 DEF TokenRead
  <2>2. ASSUME NEW a \in Addr, TokenStore(a) PROVE TokenTypeOK'
    BY <2>2 DEF TokenStore
  <2>3. ASSUME NEW a \in Addr, CheckToken(a) PROVE TokenTypeOK'
    BY <2>3 DEF CheckToken
  <2>4. ASSUME NEW a \in Addr, HandleAnnounce(a) PROVE TokenTypeOK'
    BY <2>4 DEF HandleAnnounce
  <2>5. ASSUME NEW a \in Addr, HandlerReturns(a) PROVE TokenTypeOK'
    BY <2>5 DEF HandlerReturns
  <2>6. ASSUME NEW a \in Addr, ClearRead(a) PROVE TokenTypeOK'
    BY <2>6 DEF ClearRead
  <2>7. ASSUME NEW a \in Addr, ClearDelete(a) PROVE TokenTypeOK'
    BY <2>7 DEF ClearDelete
  <2>8. CASE UpdateToken
    BY <2>8 DEF UpdateToken, OlderToken
  <2>9. CASE ClearRange
    BY <2>9 DEF ClearRange
  <2>10. CASE Stop
    BY <2>10 DEF Stop
  <2>11. CASE Tick
    BY <2>11 DEF Tick, Older
  <2>12. CASE UNCHANGED tokenVars
    BY <2>12 DEF tokenVars
  <2> QED
    BY <2>1, <2>2, <2>3, <2>4, <2>5, <2>6, <2>7, <2>8, <2>9, <2>10, <2>11, <2>12 DEF TokenNext
<1> QED
  BY <1>1, <1>2, PTL DEF TokenSpec

-----------------------------------------------------------------------------
\* The time since updateToken was run last, or was due, at a multiple of Half.
Elapsed ==
    IF "rotate" \in due THEN Half ELSE IF clock < Half THEN clock ELSE clock - Half

\* How the age of a token is tied to the rotations it has seen, from both sides:
\* one rotation is at least Elapsed ago, two are at least Half ago; and while
\* Start runs a token that has seen none is at most Elapsed old.
AgeInv ==
    /\ TokenTypeOK
    /\ "rotate" \in due => clock \in {0, Half}
    /\ \A a \in Addr :
        /\ pc[a] = "token" => read[a] = 0 \/ (read[a] = 1 /\ Elapsed = 0)
        /\ gen[a] = 1 => issued[a] >= Elapsed
        /\ gen[a] = 2 => issued[a] >= Half
        /\ ~stopped =>
            /\ gen[a] = 0 => issued[a] <= Elapsed
            /\ gen[a] = 1 => issued[a] <= Half + Elapsed
            /\ pc[a] = "match" => issued[a] <= Expired

\* The rotation leaves no token behind that is older than it may be.
LEMMA AgeStep == AgeInv /\ TokenTypeOK' /\ [TokenNext]_tokenVars => AgeInv'
<1> SUFFICES ASSUME AgeInv, TokenTypeOK', [TokenNext]_tokenVars PROVE AgeInv'
  OBVIOUS
<1>0. /\ Half \in Nat \ {0}
      /\ clock \in 0..(2 * Half - 1)
      /\ gen \in [Addr -> 0..2] /\ read \in [Addr -> 0..2]
      /\ issued \in [Addr -> 0..(2 * Half + 1)]
      /\ pc \in [Addr -> {"idle", "token", "match", "differ", "ignored", "announced"}]
      /\ Elapsed \in 0..Half
  BY HalfAssumption DEF AgeInv, TokenTypeOK, Expired, Elapsed
<1> USE <1>0 DEF AgeInv, Expired, start
<1>1. ASSUME NEW a \in Addr, TokenRead(a) PROVE AgeInv'
  BY <1>1 DEF TokenRead, Elapsed
<1>2. ASSUME NEW a \in Addr, TokenStore(a) PROVE AgeInv'
  BY <1>2 DEF TokenStore, Elapsed
<1>3. ASSUME NEW a \in Addr, CheckToken(a) PROVE AgeInv'
  BY <1>3 DEF CheckToken, Elapsed
<1>4. ASSUME NEW a \in Addr, HandleAnnounce(a) \/ HandlerReturns(a) PROVE AgeInv'
  BY <1>4 DEF HandleAnnounce, HandlerReturns, Elapsed
<1>5. ASSUME NEW a \in Addr, ClearRead(a) \/ ClearDelete(a) PROVE AgeInv'
  BY <1>5 DEF ClearRead, ClearDelete, Elapsed
<1>6. CASE UpdateToken
  <2>1. Elapsed = Half /\ Elapsed' = 0
    BY <1>6 DEF UpdateToken, Elapsed
  <2> QED
    BY <1>6, <2>1 DEF UpdateToken, OlderToken
<1>7. CASE ClearRange
  <2>1. Elapsed' = Elapsed
    BY <1>7 DEF ClearRange, Elapsed
  <2> QED
    BY <1>7, <2>1 DEF ClearRange
<1>8. CASE Stop
  BY <1>8 DEF Stop, Elapsed
<1>9. CASE Tick
  <2>1. "rotate" \in due' => clock' \in {0, Half}
    BY <1>9 DEF Tick
  <2>2. Elapsed' <= Elapsed + 1 /\ Elapsed' \in 0..Half
    BY <1>9 DEF Tick, Elapsed
  <2>3. ~stopped => Elapsed' = Elapsed + 1
    BY <1>9 DEF Tick, Elapsed
  <2> QED
    BY <1>9, <2>1, <2>2, <2>3 DEF Tick, Older
<1>10. CASE UNCHANGED tokenVars
  BY <1>10 DEF tokenVars, Elapsed
<1> QED
  BY <1>1, <1>2, <1>3, <1>4, <1>5, <1>6, <1>7, <1>8, <1>9, <1>10 DEF TokenNext

\* AgeInv holds in every state.
LEMMA Ages == TokenSpec => []AgeInv
<1>1. TokenInit /\ TokenTypeOK => AgeInv
  BY HalfAssumption DEF TokenInit, AgeInv, Expired, Elapsed
<1> QED
  BY <1>1, AgeStep, TokensTyped, PTL DEF TokenSpec

\* While Start runs, Check says no to every token older than the expiry.
THEOREM OldTokensFail == TokenSpec => []NoOldTokenPasses
<1>1. AgeInv => NoOldTokenPasses
  BY DEF AgeInv, NoOldTokenPasses, Check
<1> QED
  BY <1>1, Ages, PTL

-----------------------------------------------------------------------------
\* What clear is about to delete has an expired token, unless Token came in
\* between; what was sent a token that has not expired is known.
KeptInv ==
    /\ TokenTypeOK
    /\ \A a \in Addr : Time[a] <= issued[a] \/ issued[a] = Expired + 1
    /\ \A a \in doomed : a \notin raced => issued[a] >= Expired
    /\ \A a \in Addr : issued[a] < Expired /\ a \notin raced => a \in addrs

\* An address with a fresh token stays known unless Token and clear race for it.
LEMMA KeptStep == KeptInv /\ TokenTypeOK' /\ [TokenNext]_tokenVars => KeptInv'
<1> SUFFICES ASSUME KeptInv, TokenTypeOK', [TokenNext]_tokenVars PROVE KeptInv'
  OBVIOUS
<1>0. /\ Half \in Nat \ {0}
      /\ issued \in [Addr -> 0..(2 * Half + 1)]
      /\ Time \in [Addr -> 0..(4 * Half)]
      /\ toVisit \subseteq Addr /\ doomed \subseteq Addr
  BY HalfAssumption DEF KeptInv, TokenTypeOK, Expired
<1> USE <1>0 DEF KeptInv, Expired, start
<1>1. ASSUME NEW a \in Addr, TokenRead(a) \/ CheckToken(a) \/ HandleAnnounce(a) \/ HandlerReturns(a)
      PROVE  KeptInv'
  BY <1>1 DEF TokenRead, CheckToken, HandleAnnounce, HandlerReturns
<1>2. ASSUME NEW a \in Addr, TokenStore(a) PROVE KeptInv'
  BY <1>2 DEF TokenStore
<1>3. ASSUME NEW a \in Addr, ClearRead(a) PROVE KeptInv'
  BY <1>3 DEF ClearRead, IsExpired
<1>4. ASSUME NEW a \in Addr, ClearDelete(a) PROVE KeptInv'
  BY <1>4 DEF ClearDelete
<1>5. CASE UpdateToken \/ ClearRange \/ Stop
  BY <1>5 DEF UpdateToken, ClearRange, Stop
<1>6. CASE Tick
  BY <1>6 DEF Tick, Idle, Older
<1>7. CASE UNCHANGED tokenVars
  BY <1>7 DEF tokenVars
<1> QED
  BY <1>1, <1>2, <1>3, <1>4, <1>5, <1>6, <1>7 DEF TokenNext

\* A token matches for half of the expiry and its address is known for all of
\* it, unless Token and clear raced for that address.
THEOREM TokensLast == TokenSpec => []TokenLastsLongEnough
<1>1. TokenInit /\ TokenTypeOK => KeptInv
  BY HalfAssumption DEF TokenInit, KeptInv, Expired
<1>2. AgeInv /\ KeptInv => TokenLastsLongEnough
  <2> SUFFICES ASSUME AgeInv, KeptInv, NEW a \in Addr, issued[a] < Half PROVE gen[a] <= 1
    BY DEF KeptInv, TokenLastsLongEnough
  <2>1. gen[a] \in 0..2 /\ issued[a] \in Nat /\ (gen[a] = 2 => issued[a] >= Half)
    BY HalfAssumption DEF AgeInv, TokenTypeOK, Expired
  <2> QED
    BY <2>1, HalfAssumption
<1> QED
  BY <1>1, <1>2, KeptStep, Ages, TokensTyped, PTL DEF TokenSpec

-----------------------------------------------------------------------------
\* While Start runs, only what clear has still to visit can be older than one
\* expiry at the beginning of an expiry.
GoneInv ==
    /\ TokenTypeOK
    /\ "clear" \in due => clock = 0 /\ Idle
    /\ \A a, b \in doomed : a = b
    /\ ~stopped =>
        \A a \in addrs :
            IF "clear" \in due THEN Time[a] < 2 * Expired
            ELSE a \in toVisit \cup doomed \/ Time[a] < Expired + clock

\* clear visits what has expired before the next period begins.
LEMMA GoneStep == GoneInv /\ TokenTypeOK' /\ [TokenNext]_tokenVars => GoneInv'
<1> SUFFICES ASSUME GoneInv, TokenTypeOK', [TokenNext]_tokenVars PROVE GoneInv'
  OBVIOUS
<1>0. /\ Half \in Nat \ {0}
      /\ clock \in 0..(2 * Half - 1)
      /\ Time \in [Addr -> 0..(4 * Half)]
      /\ addrs \subseteq Addr /\ toVisit \subseteq Addr /\ doomed \subseteq Addr
  BY HalfAssumption DEF GoneInv, TokenTypeOK, Expired
<1> USE <1>0 DEF GoneInv, Expired, Idle, start
<1>1. ASSUME NEW a \in Addr, TokenRead(a) \/ CheckToken(a) \/ HandleAnnounce(a) \/ HandlerReturns(a)
      PROVE  GoneInv'
  BY <1>1 DEF TokenRead, CheckToken, HandleAnnounce, HandlerReturns
<1>2. ASSUME NEW a \in Addr, TokenStore(a) PROVE GoneInv'
  BY <1>2 DEF TokenStore
<1>3. ASSUME NEW a \in Addr, ClearRead(a) PROVE GoneInv'
  BY <1>3 DEF ClearRead, IsExpired
<1>4. ASSUME NEW a \in Addr, ClearDelete(a) PROVE GoneInv'
  <2>1. \A b \in doomed : b = a \/ b \notin addrs'
    BY <1>4 DEF ClearDelete
  <2> QED
    BY <1>4, <2>1 DEF ClearDelete
<1>5. CASE UpdateToken
  BY <1>5 DEF UpdateToken
<1>6. CASE ClearRange
  BY <1>6 DEF ClearRange
<1>7. CASE Stop
  BY <1>7 DEF Stop
<1>8. CASE Tick
  BY <1>8 DEF Tick, Older
<1>9. CASE UNCHANGED tokenVars
  BY <1>9 DEF tokenVars
<1> QED
  BY <1>1, <1>2, <1>3, <1>4, <1>5, <1>6, <1>7, <1>8, <1>9 DEF TokenNext

\* While Start runs, an address is forgotten within two expiries of the last
\* token it was sent.
THEOREM AddressesGo == TokenSpec => []AddressesAreForgotten
<1>1. TokenInit /\ TokenTypeOK => GoneInv
  BY HalfAssumption DEF TokenInit, GoneInv, Expired, Idle
<1>2. GoneInv => AddressesAreForgotten
  BY HalfAssumption DEF GoneInv, TokenTypeOK, AddressesAreForgotten, Expired, Idle
<1> QED
  BY <1>1, <1>2, GoneStep, TokensTyped, PTL DEF TokenSpec

=============================================================================
