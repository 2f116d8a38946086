--------------------------- MODULE DHTServerProofs ---------------------------
(***************************************************************************)
(* Proofs about Blacklist, for any finite set of IPs, any ports, any limit *)
(* and any period; and about DHTServer, which runs it, for any nodes,      *)
(* addresses, periods and bounds.                                          *)
(***************************************************************************)
EXTENDS DHTServer, FiniteSetTheorems, TLAPS

-----------------------------------------------------------------------------
(***************************************************************************)
(* The blacklist                                                           *)
(***************************************************************************)
\* Removing one of several ports leaves one.
LEMMA PortsLeft ==
    ASSUME NEW S, NEW p, Cardinality(S) > 1
    PROVE  S \ {p} # {}
<1> SUFFICES ASSUME S \subseteq {p} PROVE FALSE
  OBVIOUS
<1>1. IsFiniteSet({p}) /\ Cardinality({p}) = 1
  BY FS_Singleton
<1>2. Cardinality(S) <= 1 /\ Cardinality(S) \in Nat
  BY <1>1, FS_Subset, FS_CardinalityType
<1> QED
  BY <1>2

\* The sets of IPs that are listed are finite, and one more IP is one more.
LEMMA ListedGrows ==
    ASSUME NEW S \in SUBSET IP, NEW ip \in IP
    PROVE  /\ IsFiniteSet(S)
           /\ Cardinality(S) \in Nat
           /\ ip \in S => Cardinality(S \cup {ip}) = Cardinality(S)
           /\ ip \notin S => Cardinality(S \cup {ip}) = Cardinality(S) + 1
<1>1. IsFiniteSet(S)
  BY ConstantsAssumption, FS_Subset
<1>2. ip \in S => S \cup {ip} = S
  OBVIOUS
<1> QED
  BY <1>1, <1>2, FS_CardinalityType, FS_AddElement

\* Fewer IPs are not more.
LEMMA ListedShrinks ==
    ASSUME NEW S \in SUBSET IP, NEW R \in SUBSET S
    PROVE  Cardinality(R) <= Cardinality(S) /\ Cardinality(R) \in Nat /\ Cardinality(S) \in Nat
<1>1. IsFiniteSet(S)
  BY ConstantsAssumption, FS_Subset
<1> QED
  BY <1>1, FS_Subset, FS_CardinalityType

\* The invariants of the list hold together: the limit and the ports need only
\* the types, the removal in time needs the ticker's clock.
Inv ==
    /\ TypeOK
    /\ AtMostNum
    /\ ListedIPsBlock
    /\ ClearedInTime

\* The list is empty and the ticker has just been started.
LEMMA InvInit == Init => Inv
<1> SUFFICES ASSUME Init PROVE Inv
  OBVIOUS
<1>1. 0 \in 0..Interval /\ 0 \in 0..(2 * Interval + 1)
  BY ConstantsAssumption
<1>2. TypeOK
  BY <1>1 DEF Init, TypeOK
<1>3. AtMostNum
  BY FS_EmptySet, ConstantsAssumption DEF Init, AtMostNum
<1> QED
  BY <1>2, <1>3 DEF Init, Inv, ListedIPsBlock, ClearedInTime

\* add, Del, the loop and the passing of time keep the invariants of the list.
LEMMA InvStep == Inv /\ [Next]_vars => Inv'
<1> SUFFICES ASSUME Inv, [Next]_vars PROVE Inv'
  OBVIOUS
<1> USE ConstantsAssumption DEF Inv
<1>1. ASSUME NEW ip \in IP, NEW port \in Port \cup {0}, Add(ip, port) PROVE Inv'
  <2>1. TypeOK'
    BY <1>1 DEF Add, TypeOK
  <2>2. AtMostNum'
    BY <1>1, ListedGrows DEF Add, HasRoom, AtMostNum, TypeOK
  <2>3. ListedIPsBlock'
    BY <1>1 DEF Add, ListedIPsBlock, TypeOK
  <2>4. ClearedInTime'
    BY <1>1 DEF Add, ClearedInTime, TypeOK
  <2> QED
    BY <2>1, <2>2, <2>3, <2>4
<1>2. ASSUME NEW ip \in IP, NEW port \in Port \cup {0}, Del(ip, port) PROVE Inv'
  <2>1. TypeOK'
    BY <1>2 DEF Del, TypeOK
  <2>2. AtMostNum'
    <3>1. listed' \in SUBSET listed
      BY <1>2 DEF Del
    <3> QED
      BY <3>1, ListedShrinks DEF AtMostNum, TypeOK
  <2>3. ListedIPsBlock'
    BY <1>2, PortsLeft DEF Del, ListedIPsBlock, TypeOK
  <2>4. ClearedInTime'
    BY <1>2 DEF Del, ClearedInTime, TypeOK
  <2> QED
    BY <2>1, <2>2, <2>3, <2>4
<1>3. CASE Loop
  <2>1. TypeOK'
    BY <1>3 DEF Loop, TypeOK
  <2>2. AtMostNum'
    <3>1. listed' \in SUBSET listed
      BY <1>3 DEF Loop
    <3> QED
      BY <3>1, ListedShrinks DEF AtMostNum, TypeOK
  <2>3. ListedIPsBlock' /\ ClearedInTime'
    BY <1>3 DEF Loop, Expired, ListedIPsBlock, ClearedInTime, TypeOK
  <2> QED
    BY <2>1, <2>2, <2>3
<1>4. CASE Close
  BY <1>4 DEF Close, TypeOK, AtMostNum, ListedIPsBlock, ClearedInTime
<1>5. CASE Tick
  <2>1. TypeOK'
    BY <1>5 DEF Tick, Older, TypeOK
  <2>2. AtMostNum' /\ ListedIPsBlock'
    BY <1>5 DEF Tick, AtMostNum, ListedIPsBlock
  <2>3. ClearedInTime'
    BY <1>5 DEF Tick, Older, ClearedInTime, TypeOK
  <2> QED
    BY <2>1, <2>2, <2>3
<1>6. CASE UNCHANGED vars
  BY <1>6 DEF vars, TypeOK, AtMostNum, ListedIPsBlock, ClearedInTime
<1> QED
  BY <1>1, <1>2, <1>3, <1>4, <1>5, <1>6 DEF Next

\* Inv holds in every state.
LEMMA Invariance == Spec => []Inv
BY InvInit, InvStep, PTL DEF Spec

\* Add never lists more than num IPs.
THEOREM ListIsBounded == Spec => []AtMostNum
<1>1. Inv => AtMostNum
  BY DEF Inv
<1> QED
  BY <1>1, Invariance, PTL

\* Whatever sequence of Add and Del: a listed IP blocks an address.
THEOREM EveryEntryBlocks == Spec => []ListedIPsBlock
<1>1. Inv => ListedIPsBlock
  BY DEF Inv
<1> QED
  BY <1>1, Invariance, PTL

\* loop removes an IP at the latest two periods after it was added last.
THEOREM EntriesAreCleared == Spec => []ClearedInTime
<1>1. Inv => ClearedInTime
  BY DEF Inv
<1> QED
  BY <1>1, Invariance, PTL

\* A banned IP stays banned, whatever is done to its ports, until it is deleted
\* as a whole or expires.
THEOREM BansLast == Spec => BanLastsUntilLifted
<1>1. Inv /\ [Next]_vars
        => [\A ip \in IP :
             Banned(ip) /\ ~Banned(ip)' => Del(ip, 0) \/ (Loop /\ Time[ip] > Interval)]_vars
  <2> SUFFICES ASSUME Inv, Next, NEW b \in IP, Banned(b), ~Banned(b)'
               PROVE  Del(b, 0) \/ (Loop /\ Time[b] > Interval)
    BY DEF vars
  <2> USE DEF Inv, TypeOK, Banned
  <2>1. ASSUME NEW ip \in IP, NEW port \in Port \cup {0}, Add(ip, port) PROVE FALSE
    BY <2>1 DEF Add
  <2>2. ASSUME NEW ip \in IP, NEW port \in Port \cup {0}, Del(ip, port) PROVE Del(b, 0)
    <3>1. ip = b /\ port = 0
      BY <2>2 DEF Del
    <3> QED
      BY <2>2, <3>1
  <2>3. ASSUME Loop PROVE Loop /\ Time[b] > Interval
    BY <2>3 DEF Loop, Expired
  <2>4. ASSUME Close \/ Tick PROVE FALSE
    BY <2>4 DEF Close, Tick
  <2> QED
    BY <2>1, <2>2, <2>3, <2>4 DEF Next
<1> QED
  BY <1>1, Invariance, PTL DEF Spec, BanLastsUntilLifted

-----------------------------------------------------------------------------
(***************************************************************************)
(* The server                                                              *)
(***************************************************************************)
LEMMA KeyFacts ==
    /\ \A n \in Node : \A addr \in Homes[n] : <<n, addr>> \in Key /\ addr \in Addr
    /\ \A p \in Key :
        p[1] \in Node /\ p[2] \in Homes[p[1]] /\ p[2] \in Addr /\ p = <<p[1], p[2]>>
BY ServerAssumption DEF Key

\* What the server holds of other nodes: it speaks their protocol, and those in
\* the table do not call themselves read-only.
SInv ==
    /\ home \in [Node -> Addr] /\ \A n \in Node : home[n] \in Homes[n]
    /\ IsFiniteSet(table) /\ IsFiniteSet(peers)
    /\ packets \subseteq Key /\ table \subseteq Key /\ peers \subseteq Key
    /\ \A e \in packets \cup table \cup peers : Family(e[2]) \in stack
    /\ \A e \in table : e[1] \notin RO
    /\ stored \in [Key -> Nat]
    /\ day \in 0..Day
    /\ PeersAreRecent

\* New starts with an empty table and no peers.
LEMMA SInvInit == SInit => SInv
BY ServerAssumption, FS_EmptySet DEF SInit, SInv, PeersAreRecent

\* addNode takes only nodes of a protocol of the socket that are not read-only.
LEMMA LearnKeeps ==
    ASSUME SInv, NEW n \in Node, NEW addr \in Homes[n], Learn(n, addr),
           Family(addr) \in stack, UNCHANGED stack
    PROVE  /\ table' \subseteq Key
           /\ \A e \in table' : Family(e[2]) \in stack' /\ e[1] \notin RO
           /\ IsFiniteSet(table')
<1>1. IsFiniteSet(table \cup {<<n, addr>>})
  BY FS_AddElement DEF SInv
<1>2. table' = table \/ (n \notin RO /\ table' = table \cup {<<n, addr>>})
  BY DEF Learn
<1>3. IsFiniteSet(table')
  BY <1>1, <1>2 DEF SInv
<1> QED
  BY <1>2, <1>3, KeyFacts DEF SInv, Family

\* Each handler, and the timers, keep the invariant of the server.
LEMMA SInvStep == SInv /\ [SNext]_svars => SInv'
<1> SUFFICES ASSUME SInv, [SNext]_svars PROVE SInv'
  OBVIOUS
<1> USE ServerAssumption, KeyFacts DEF SInv, PeersAreRecent, Family
<1>1. ASSUME NEW n \in Node, HandlePacket(n) PROVE SInv'
  BY <1>1 DEF HandlePacket, vars
<1>2. ASSUME NEW n \in Node, HandleNamed(n) PROVE SInv'
  BY <1>2, LearnKeeps DEF HandleNamed, vars
<1>3. ASSUME NEW p \in packets, HandleMoved(p[1], p[2]) PROVE SInv'
  BY <1>3 DEF HandleMoved, Ban, Add, vars
<1>4. ASSUME NEW p \in packets, HandleQuery(p[1], p[2]) PROVE SInv'
  <2>1. UNCHANGED closed
    BY <1>4 DEF HandleQuery, Written, WriteFails, Ban, Add, vars
  <2> QED
    BY <1>4, <2>1, LearnKeeps DEF HandleQuery
<1>5. ASSUME NEW p \in packets, HandleResponse(p[1], p[2]) PROVE SInv'
  <2>1. IsFiniteSet(peers')
    BY <1>5, FS_AddElement DEF HandleResponse
  <2> QED
    BY <1>5, <2>1, LearnKeeps DEF HandleResponse, vars
<1>6. ASSUME NEW e \in table, PingFails(e) PROVE SInv'
  BY <1>6 DEF PingFails, WriteFails, Ban, Add, vars
<1>7. ASSUME NEW e \in table, Forget(e) PROVE SInv'
  <2>1. IsFiniteSet(table')
    BY <1>7, FS_Subset DEF Forget
  <2> QED
    BY <1>7, <2>1 DEF Forget, vars
<1>8. ASSUME NEW n \in Node, NEW addr \in Homes[n], Move(n, addr) PROVE SInv'
  BY <1>8 DEF Move, vars
<1>9. ASSUME NEW ip \in IP, UserBan(ip) PROVE SInv'
  BY <1>9 DEF UserBan, Add
<1>10. ASSUME NEW ip \in IP, NEW port \in Port \cup {0}, UserLift(ip, port) PROVE SInv'
  BY <1>10 DEF UserLift, Del, server
<1>11. CASE Expire
  <2>1. IsFiniteSet(peers')
    BY <1>11, FS_Subset DEF Expire
  <2> QED
    BY <1>11, <2>1 DEF Expire, Old, vars
<1>12. CASE LoopExpires \/ Stop
  BY <1>12 DEF LoopExpires, Loop, Stop, Close, server
<1>13. CASE TimePasses
  BY <1>13 DEF TimePasses, Tick, Older
<1>14. CASE UNCHANGED svars
  BY <1>14 DEF svars, vars, server
<1> QED
  BY <1>1, <1>2, <1>3, <1>4, <1>5, <1>6, <1>7, <1>8, <1>9, <1>10, <1>11, <1>12, <1>13, <1>14
  DEF SNext

\* The invariant of the server holds from the start.
LEMMA ServerInvariant == SSpec => []SInv
BY SInvInit, SInvStep, PTL DEF SSpec

\* While the server runs, no peer that get_peers may return is older than two
\* periods of the token-peer manager.
THEOREM PeersExpire == SSpec => []PeersAreRecent
<1>1. SInv => PeersAreRecent
  BY DEF SInv
<1> QED
  BY <1>1, ServerInvariant, PTL

-----------------------------------------------------------------------------
\* A choice of at most K of the nodes and peers of one protocol.
LEMMA ChoiceFacts ==
    ASSUME NEW S \in SUBSET Key, NEW f \in {4, 6}, IsFiniteSet(S), NEW T \in AtMostK(S, f)
    PROVE  /\ T \subseteq S /\ IsFiniteSet(T)
           /\ \A x \in T : Family(x[2]) = f
           /\ Cardinality(T) <= K
<1>1. IsFiniteSet(Of(S, f)) /\ Cardinality(Of(S, f)) \in Nat
  BY FS_Subset, FS_CardinalityType DEF Of
<1>2. /\ T \in SUBSET Of(S, f)
      /\ Cardinality(T) = IF Cardinality(Of(S, f)) < K THEN Cardinality(Of(S, f)) ELSE K
  BY DEF AtMostK
<1>3. IsFiniteSet(T)
  BY <1>1, <1>2, FS_Subset
<1>4. T \subseteq S /\ \A x \in T : Family(x[2]) = f
  BY <1>2 DEF Of
<1> QED
  BY <1>1, <1>2, <1>3, <1>4, ServerAssumption

\* A choice of the wanted protocols has at most K of each, and none of another.
LEMMA WantedFacts ==
    ASSUME NEW S \in SUBSET Key, IsFiniteSet(S), NEW from, NEW want \in SUBSET {4, 6},
           NEW T \in OfWanted(S, from, want)
    PROVE  /\ T \subseteq S
           /\ \A f \in {4, 6} : Cardinality(Of(T, f)) <= K
           /\ \A x \in T : Family(x[2]) \in Wanted(from, want)
<1> DEFINE Choice(f) == IF f \in Wanted(from, want) THEN AtMostK(S, f) ELSE {{}}
<1>1. PICK T4 \in Choice(4), T6 \in Choice(6) : T = T4 \cup T6
  BY DEF OfWanted
<1>2. ASSUME NEW f \in {4, 6}, NEW C \in Choice(f)
      PROVE  /\ C \subseteq S /\ Cardinality(C) <= K
             /\ \A x \in C : Family(x[2]) = f /\ f \in Wanted(from, want)
  <2>1. CASE f \in Wanted(from, want)
    BY <2>1, ChoiceFacts
  <2>2. CASE f \notin Wanted(from, want)
    <3>1. C = {}
      BY <2>2
    <3>2. Cardinality({}) <= K
      BY FS_EmptySet, ServerAssumption
    <3> QED
      BY <3>1, <3>2
  <2> QED
    BY <2>1, <2>2
<1> HIDE DEF Choice
<1>3. Of(T, 4) = T4 /\ Of(T, 6) = T6
  BY <1>1, <1>2 DEF Of
<1>4. Cardinality(T4) <= K /\ Cardinality(T6) <= K
  BY <1>1, <1>2
<1>5. T \subseteq S /\ \A x \in T : Family(x[2]) \in Wanted(from, want)
  BY <1>1, <1>2
<1> QED
  BY <1>3, <1>4, <1>5

\* A reply has nodes of the table or peers of the hash, of the wanted protocols.
LEMMA ReplyFacts ==
    ASSUME NEW hash, NEW from, NEW want \in SUBSET {4, 6},
           NEW r \in GetPeers(hash, from, want) \cup FindNode(from, want)
    PROVE  \/ r.values = {} /\ r.nodes \in OfWanted(table, from, want)
           \/ r.nodes = {} /\ r.values \in OfWanted({p \in peers : p[1] = hash}, from, want)
<1>1. CASE r \in FindNode(from, want)
  BY <1>1 DEF FindNode
<1>2. CASE r \in GetPeers(hash, from, want)
  <2>1. PICK V \in OfWanted({p \in peers : p[1] = hash}, from, want) :
            r \in IF V = {} THEN FindNode(from, want) ELSE {[nodes |-> {}, values |-> V]}
    BY <1>2 DEF GetPeers
  <2> QED
    BY <2>1 DEF FindNode
<1> QED
  BY <1>1, <1>2

\* Whoever asks for whatever: at most K nodes or peers of each wanted protocol,
\* all of a protocol that the server speaks, and no read-only node.
THEOREM RepliesSuit == SSpec => []RepliesAreWanted
<1>1. SInv => RepliesAreWanted
  <2> SUFFICES ASSUME SInv, NEW n \in Node, NEW hash \in Node, NEW want \in SUBSET {4, 6},
                      NEW r \in GetPeers(hash, home[n], want) \cup FindNode(home[n], want)
               PROVE  /\ \A f \in {4, 6} : Cardinality(Of(r.nodes \cup r.values, f)) <= K
                      /\ \A x \in r.nodes \cup r.values :
                            /\ Family(x[2]) \in stack
                            /\ IF want = {} THEN Family(x[2]) = Family(home[n])
                                           ELSE Family(x[2]) \in want
                      /\ \A x \in r.nodes : x[1] \notin RO
                      /\ r.nodes = {} \/ r.values = {}
    BY Zenon DEF RepliesAreWanted
  <2> SUFFICES /\ \A f \in {4, 6} : Cardinality(Of(r.nodes \cup r.values, f)) <= K
               /\ \A x \in r.nodes \cup r.values :
                     Family(x[2]) \in stack /\ Family(x[2]) \in Wanted(home[n], want)
               /\ \A x \in r.nodes : x[1] \notin RO
               /\ r.nodes = {} \/ r.values = {}
    BY DEF Wanted
  <2> DEFINE P == {p \in peers : p[1] = hash}
  <2>1. table \in SUBSET Key /\ IsFiniteSet(table) /\ P \in SUBSET Key /\ IsFiniteSet(P)
    BY FS_Subset DEF SInv
  <2>2. /\ \A e \in table \cup P : Family(e[2]) \in stack
        /\ \A e \in table : e[1] \notin RO
    BY DEF SInv
  <2>3. CASE r.values = {} /\ r.nodes \in OfWanted(table, home[n], want)
    <3>1. r.nodes \cup r.values = r.nodes
      BY <2>3
    <3>2. /\ r.nodes \subseteq table
          /\ \A f \in {4, 6} : Cardinality(Of(r.nodes, f)) <= K
          /\ \A x \in r.nodes : Family(x[2]) \in Wanted(home[n], want)
      BY <2>1, <2>3, WantedFacts
    <3> QED
      BY <2>2, <2>3, <3>1, <3>2
  <2>4. CASE r.nodes = {} /\ r.values \in OfWanted(P, home[n], want)
    <3>1. r.nodes \cup r.values = r.values
      BY <2>4
    <3>2. /\ r.values \subseteq P
          /\ \A f \in {4, 6} : Cardinality(Of(r.values, f)) <= K
          /\ \A x \in r.values : Family(x[2]) \in Wanted(home[n], want)
      BY <2>1, <2>4, WantedFacts
    <3> QED
      BY <2>2, <2>4, <3>1, <3>2
  <2> QED
    BY <2>3, <2>4, ReplyFacts
<1> QED
  BY <1>1, ServerInvariant, PTL

-----------------------------------------------------------------------------
\* The server uses its blacklist only through Add, Del, In, the loop and Close:
\* what is proved of the blacklist holds in the server.
THEOREM ServerKeepsBlacklist == SSpec => Spec
<1>1. SInit => Init
  BY DEF SInit
<1>2. SInv /\ [SNext]_svars => [Next]_vars
  <2> SUFFICES ASSUME SInv, [SNext]_svars PROVE [Next]_vars
    OBVIOUS
  <2>1. ASSUME NEW addr \in Addr, Ban(addr) \/ WriteFails(addr) PROVE [Next]_vars
    BY <2>1 DEF Ban, WriteFails, Addr, Next
  <2>2. ASSUME NEW n \in Node, HandlePacket(n) \/ HandleNamed(n) PROVE UNCHANGED vars
    BY <2>2 DEF HandlePacket, HandleNamed
  <2>3. ASSUME NEW p \in packets, HandleMoved(p[1], p[2]) \/ HandleQuery(p[1], p[2])
        PROVE  [Next]_vars
    <3>1. p[2] \in Addr
      BY KeyFacts DEF SInv
    <3> QED
      BY <2>1, <2>3, <3>1 DEF HandleMoved, HandleQuery, Written
  <2>4. ASSUME NEW p \in packets, HandleResponse(p[1], p[2]) PROVE UNCHANGED vars
    BY <2>4 DEF HandleResponse
  <2>5. ASSUME NEW e \in table, PingFails(e) \/ Forget(e) PROVE [Next]_vars
    <3>1. e[2] \in Addr
      BY KeyFacts DEF SInv
    <3> QED
      BY <2>1, <2>5, <3>1 DEF PingFails, Forget
  <2>6. ASSUME NEW n \in Node, NEW addr \in Homes[n], Move(n, addr) PROVE UNCHANGED vars
    BY <2>6 DEF Move
  <2>7. ASSUME NEW ip \in IP, UserBan(ip) PROVE Next
    BY <2>7 DEF UserBan, Next
  <2>8. ASSUME NEW ip \in IP, NEW port \in Port \cup {0}, UserLift(ip, port) PROVE Next
    BY <2>8 DEF UserLift, Next
  <2>9. CASE LoopExpires \/ Stop \/ TimePasses
    BY <2>9 DEF LoopExpires, Stop, TimePasses, Next
  <2>10. CASE Expire \/ UNCHANGED svars
    BY <2>10 DEF Expire, svars
  <2> QED
    BY <2>2, <2>3, <2>4, <2>5, <2>6, <2>7, <2>8, <2>9, <2>10 DEF SNext
<1> QED
  BY <1>1, <1>2, ServerInvariant, PTL DEF SSpec, Spec

\* In the server, too, an IP that is not added again leaves the blacklist within
\* two periods of its loop.
THEOREM ServerClearsBans == SSpec => []ClearedInTime
BY ServerKeepsBlacklist, EntriesAreCleared, PTL

\* In the server, too, the ban of a whole IP ends only when it is lifted or
\* expires, whatever addresses the handlers add.
THEOREM ServerKeepsBans == SSpec => BanLastsUntilLifted
BY ServerKeepsBlacklist, BansLast, PTL

=============================================================================
