-------------------------- MODULE UDPTrackerProofs --------------------------
(***************************************************************************)
(* Proofs about UDPTracker, for any number of clients and for all values   *)
(* of the constants that fulfil the assumptions.                           *)
(***************************************************************************)
EXTENDS UDPTracker, TLAPS

\* The server knows the connection of an address, and it is no older.
Kept(id, a, age) == \E w \in conns : w.cid = id /\ w.addr = a /\ w.age <= age

\* Whatever is on its way was sent for a request that the client has begun, and
\* a client that connects has a transaction ID left for the request itself.
TidInv ==
    /\ \A q \in queries : q.tid <= tid[q.from]
    /\ \A d \in replies : d.tid <= tid[d.to]
    /\ \A o \in opening : o.tid <= tid[o.from]
    /\ \A c \in Client : pc[c] = "connect" => tid[c] < MaxTid

\* The server answers what it has handled.
HandledInv == \A d \in replies : d.kind \in Request => <<d.to, d.tid>> \in handled

\* No connection ID comes from a server process that was not yet started.
EpochInv ==
    /\ \A q \in queries : q.epoch <= epoch
    /\ \A d \in replies : d.epoch <= epoch
    /\ \A c \in Client : cidEpoch[c] <= epoch

\* Two handlers have different connection IDs, and none that is in use.
CidInv ==
    /\ \A w \in conns : w.cid <= nextCid
    /\ \A o \in opening : o.cid <= nextCid
    /\ \A o \in opening, w \in conns : o.cid # w.cid
    /\ \A o, p \in opening : o.cid = p.cid => o = p

\* The connection is there when the answer to a connect request is read, for as
\* long as the client uses it, and when a request with it arrives.
FreshInv ==
    up => /\ \A d \in replies :
                /\ d.kind = "connect"
                /\ d.epoch = epoch
                /\ d.tid = tid[d.to]
                /\ pc[d.to] # "idle"
                => Kept(d.cid, d.to, d.age)
          /\ \A c \in Client :
                Connected(c) /\ cidEpoch[c] = epoch => Kept(cid[c], c, last[c] + MaxDelay)
          /\ \A q \in queries :
                q.kind \in Request /\ q.epoch = epoch
                => Kept(q.cid, q.from, Minute + MaxDelay + q.age)

IInv == TypeOK /\ TidInv /\ HandledInv /\ OkMeansHandled /\ EpochInv /\ CidInv /\ FreshInv

-----------------------------------------------------------------------------
(***************************************************************************)
(* Lemmas                                                                  *)
(***************************************************************************)

\* The times and the bounds are numbers.
LEMMA NatConstants ==
    /\ Minute \in Nat /\ Interval \in Nat /\ MaxDelay \in Nat
    /\ MaxTid \in Nat /\ MaxCid \in Nat /\ MaxCopies \in Nat /\ MaxEpoch \in Nat
  BY ConstantsAssumption, Zenon

\* The fields of datagrams, connections and handlers.
LEMMA Fields ==
    /\ \A q \in Query : /\ q.kind \in Kind /\ q.from \in Client /\ q.tid \in 0..MaxTid
                        /\ q.cid \in 0..MaxCid /\ q.epoch \in 0..MaxEpoch /\ q.age \in 0..MaxDelay
    /\ \A d \in Answer : /\ d.kind \in Kind \cup {"error"} /\ d.to \in Client /\ d.tid \in 0..MaxTid
                         /\ d.cid \in 0..MaxCid /\ d.epoch \in 0..MaxEpoch /\ d.age \in 0..MaxDelay
    /\ \A w \in Connection : /\ w.cid \in 1..MaxCid /\ w.addr \in Client
                             /\ w.age \in 0..(2 * Interval + 1)
    /\ \A o \in Opening : o.from \in Client /\ o.tid \in 0..MaxTid /\ o.cid \in 1..MaxCid
  BY Zenon DEF Query, Answer, Connection, Opening

\* What a client has done that has sent a datagram, or has failed to,
Sent(c, kind) ==
    /\ tid' = [tid EXCEPT ![c] = tid[c] + 1]
    /\ tid' \in [Client -> 0..MaxTid]
    /\ pc' \in [Client -> Kind \cup {"idle"}]
    /\ pc'[c] \in {kind, "idle"}
    /\ \A b \in Client \ {c} : pc'[b] = pc[b]
    /\ result' \in [Client -> {"none", "ok", "error"}]
    /\ result'[c] # "ok"
    /\ \A b \in Client \ {c} : result'[b] = result[b]

\* as Send does, whether the write to the socket succeeds or not.
LEMMA SendEffect ==
    ASSUME TypeOK, NEW c \in Client, NEW kind \in Kind, NEW id \in 0..MaxCid,
           NEW ep \in 0..MaxEpoch, tid[c] < MaxTid, Send(c, kind, id, ep)
    PROVE  /\ Sent(c, kind)
           /\ \E new \in Query :
                /\ queries' \subseteq queries \cup {new}
                /\ new.kind = kind /\ new.from = c /\ new.tid = tid[c] + 1
                /\ new.cid = id /\ new.epoch = ep /\ new.age = 0
<1> DEFINE new == [kind |-> kind, from |-> c, tid |-> tid[c] + 1, cid |-> id, epoch |-> ep, age |-> 0]
<1>1. /\ tid' = [tid EXCEPT ![c] = tid[c] + 1]
      /\ tid' \in [Client -> 0..MaxTid]
      /\ tid'[c] = tid[c] + 1
  BY NatConstants DEF TypeOK, Send, GetTranID
<1>2. /\ new \in Query
      /\ new.kind = kind /\ new.from = c /\ new.tid = tid[c] + 1
      /\ new.cid = id /\ new.epoch = ep /\ new.age = 0
  BY <1>1, NatConstants DEF Query, TypeOK
<1>3. CASE /\ queries' = queries \cup
                {[kind |-> kind, from |-> c, tid |-> tid'[c], cid |-> id, epoch |-> ep, age |-> 0]}
           /\ pc' = [pc EXCEPT ![c] = kind]
           /\ result' = [result EXCEPT ![c] = "none"]
  <2>1. queries' = queries \cup {new}
    BY <1>1, <1>3, Zenon
  <2> HIDE DEF new
  <2>2. QED
    BY <1>1, <1>2, <1>3, <2>1, Zenon DEF TypeOK, Sent
<1>4. CASE Return(c, "error") /\ UNCHANGED queries
  <2> HIDE DEF new
  <2>1. QED
    BY <1>1, <1>2, <1>4, Zenon DEF TypeOK, Return, Sent
<1>5. QED
  BY <1>3, <1>4, Zenon DEF Send

\* What Reply does.
LEMMA ReplyEffect ==
    ASSUME TypeOK, NEW q, q.from \in Client, q.tid \in 0..MaxTid,
           NEW kind \in Kind \cup {"error"}, NEW id \in 0..MaxCid, Reply(q, kind, id)
    PROVE  \E new \in Answer :
                /\ replies' = replies \cup {new}
                /\ new.kind = kind /\ new.to = q.from /\ new.tid = q.tid
                /\ new.cid = id /\ new.epoch = epoch /\ new.age = 0
<1> DEFINE new == [kind |-> kind, to |-> q.from, tid |-> q.tid, cid |-> id, epoch |-> epoch, age |-> 0]
<1>1. /\ new \in Answer
      /\ new.kind = kind /\ new.to = q.from /\ new.tid = q.tid
      /\ new.cid = id /\ new.epoch = epoch /\ new.age = 0
  BY NatConstants DEF Answer, TypeOK
<1>2. replies' = replies \cup {new}
  BY Zenon DEF Reply
<1>3. QED
  BY <1>1, <1>2, Zenon

\* A datagram that is taken may stay, and no other comes.
LEMMA TakeEffect ==
    ASSUME TypeOK, NEW d
    PROVE  /\ Take(queries, d) => queries' \subseteq queries /\ copies' \in 0..MaxCopies
           /\ Take(replies, d) => replies' \subseteq replies /\ copies' \in 0..MaxCopies
  BY NatConstants DEF TypeOK, Take

\* The datagrams after a tick are those of before, older or not, and the
\* connections are older.
LEMMA TickEffect ==
    ASSUME TypeOK, Tick
    PROVE  /\ \A q \in queries' : \E p \in queries :
                /\ q \in Query
                /\ q.kind = p.kind /\ q.from = p.from /\ q.tid = p.tid
                /\ q.cid = p.cid /\ q.epoch = p.epoch /\ q.age = p.age + 1
           /\ \A d \in replies' : \E e \in replies :
                /\ d \in Answer
                /\ d.kind = e.kind /\ d.to = e.to /\ d.tid = e.tid
                /\ d.cid = e.cid /\ d.epoch = e.epoch
                /\ d.age = e.age + 1 \/ pc[d.to] = "idle"
           /\ \A w \in conns' : \E v \in conns : w \in Connection /\ w.cid = v.cid
           /\ \A v \in conns : \E w \in conns' :
                w.cid = v.cid /\ w.addr = v.addr /\ w.age <= v.age + 1
<1>1. ASSUME NEW q \in queries'
      PROVE  \E p \in queries :
                /\ q \in Query
                /\ q.kind = p.kind /\ q.from = p.from /\ q.tid = p.tid
                /\ q.cid = p.cid /\ q.epoch = p.epoch /\ q.age = p.age + 1
  <2>1. PICK p \in queries : p.age < MaxDelay /\ q = [p EXCEPT !.age = p.age + 1]
    BY Zenon DEF Tick, Delayed
  <2>2. p \in Query
    BY Zenon DEF TypeOK
  <2>3. QED
    BY <2>1, <2>2, NatConstants DEF Query
<1>2. ASSUME NEW d \in replies'
      PROVE  \E e \in replies :
                /\ d \in Answer
                /\ d.kind = e.kind /\ d.to = e.to /\ d.tid = e.tid
                /\ d.cid = e.cid /\ d.epoch = e.epoch
                /\ d.age = e.age + 1 \/ pc[d.to] = "idle"
  <2>1. CASE d \in Delayed(replies)
    <3>1. PICK e \in replies : e.age < MaxDelay /\ d = [e EXCEPT !.age = e.age + 1]
      BY <2>1, Zenon DEF Delayed
    <3>2. e \in Answer
      BY Zenon DEF TypeOK
    <3>3. QED
      BY <3>1, <3>2, NatConstants DEF Answer
  <2>2. CASE d \in Buffered
    BY <2>2, Zenon DEF Buffered, TypeOK
  <2>3. QED
    BY <2>1, <2>2, Zenon DEF Tick
<1>3. conns' = {[v EXCEPT !.age = Older(v.age, 2 * Interval + 1)] : v \in conns}
  BY Zenon DEF Tick
<1>4. ASSUME NEW v \in conns
      PROVE  \E w \in conns' : /\ w = [v EXCEPT !.age = Older(v.age, 2 * Interval + 1)]
                               /\ w \in Connection
                               /\ w.cid = v.cid /\ w.addr = v.addr /\ w.age <= v.age + 1
  <2> DEFINE w == [v EXCEPT !.age = Older(v.age, 2 * Interval + 1)]
  <2>1. v \in Connection
    BY Zenon DEF TypeOK
  <2>2. w \in Connection /\ w.cid = v.cid /\ w.addr = v.addr /\ w.age <= v.age + 1
    BY <2>1, NatConstants DEF Connection, Older
  <2>3. w \in conns'
    BY <1>3, Zenon
  <2>4. QED
    BY <2>2, <2>3, Zenon
<1>5. ASSUME NEW w \in conns'
      PROVE  \E v \in conns : w \in Connection /\ w.cid = v.cid
  <2>1. PICK v \in conns : w = [v EXCEPT !.age = Older(v.age, 2 * Interval + 1)]
    BY <1>3, Zenon
  <2>2. QED
    BY <1>4, <2>1, Zenon
<1>6. \A v \in conns : \E w \in conns' : w.cid = v.cid /\ w.addr = v.addr /\ w.age <= v.age + 1
  BY <1>4, Zenon
<1>7. QED
  BY <1>1, <1>2, <1>5, <1>6, Zenon

\* A connection that is kept is one tick older after a tick,
LEMMA KeptTick ==
    ASSUME TypeOK, Tick, NEW id, NEW a, NEW age \in Nat, Kept(id, a, age)
    PROVE  Kept(id, a, age + 1)'
<1>1. PICK v \in conns : v.cid = id /\ v.addr = a /\ v.age <= age
  BY Zenon DEF Kept
<1>2. PICK w \in conns' : w.cid = v.cid /\ w.addr = v.addr /\ w.age <= v.age + 1
  BY TickEffect, Zenon
<1>3. w \in Connection /\ v \in Connection
  BY TickEffect, Zenon DEF TypeOK
<1>4. w.age <= age + 1
  BY <1>1, <1>2, <1>3, Fields
<1>5. QED
  BY <1>1, <1>2, <1>4, Zenon DEF Kept

\* and a younger connection is also one that is no older.
LEMMA KeptLonger ==
    ASSUME TypeOK, NEW id, NEW a, NEW age \in Nat, NEW more \in Nat, age <= more, Kept(id, a, age)
    PROVE  Kept(id, a, more)
  BY Fields, NatConstants DEF TypeOK, Kept

-----------------------------------------------------------------------------
(***************************************************************************)
(* The steps of a client                                                   *)
(***************************************************************************)

\* A request that is sent with the connection ID at hand.
LEMMA BeginConnectedInv ==
    ASSUME IInv, NEW c \in Client, NEW r \in Request, Begin(c, r), Connected(c)
    PROVE  IInv'
<1> USE DEF IInv
<1>1. tid[c] < MaxTid /\ Send(c, r, cid[c], cidEpoch[c])
  BY NatConstants DEF Begin, TypeOK
<1>2. r \in Kind /\ cid[c] \in 0..MaxCid /\ cidEpoch[c] \in 0..MaxEpoch
  BY Zenon DEF TypeOK, Kind
<1>3. Sent(c, r)
  BY <1>1, <1>2, SendEffect, Zenon
<1>q. PICK new \in Query :
        /\ queries' \subseteq queries \cup {new}
        /\ new.kind = r /\ new.from = c /\ new.tid = tid[c] + 1
        /\ new.cid = cid[c] /\ new.epoch = cidEpoch[c] /\ new.age = 0
  BY <1>1, <1>2, SendEffect
<1>4. /\ request' = [request EXCEPT ![c] = r]
      /\ UNCHANGED <<cid, cidEpoch, last, socket, replies, copies, server>>
  BY Zenon DEF Begin
<1>5. TypeOK'
  BY <1>2, <1>3, <1>q, <1>4, NatConstants DEF Sent, TypeOK, server
<1>6. TidInv'
  BY <1>3, <1>q, <1>4, NatConstants, Fields DEF Sent, TypeOK, TidInv, server, Request
<1>7. HandledInv' /\ OkMeansHandled'
  BY <1>3, <1>q, <1>4, Zenon DEF Sent, TypeOK, HandledInv, OkMeansHandled, server
<1>8. EpochInv'
  BY <1>3, <1>q, <1>4, Zenon DEF Sent, TypeOK, EpochInv, server
<1>9. CidInv'
  BY <1>4, Zenon DEF CidInv, server
<1>10. FreshInv'
  <2> SUFFICES ASSUME up PROVE FreshInv'
    BY <1>4, Zenon DEF FreshInv, server
  <2>1. \A id, a, age : Kept(id, a, age) => Kept(id, a, age)'
    BY <1>4, Zenon DEF Kept, server
  <2>2. \A d \in replies' :
            d.kind = "connect" /\ d.epoch = epoch' /\ d.tid = tid'[d.to] /\ pc'[d.to] # "idle"
            => Kept(d.cid, d.to, d.age)'
    BY <1>3, <1>4, <2>1, Fields DEF Sent, FreshInv, TypeOK, TidInv, server
  <2>3. \A b \in Client :
            Connected(b)' /\ cidEpoch'[b] = epoch' => Kept(cid[b], b, last[b] + MaxDelay)'
    BY <1>4, <2>1, Zenon DEF FreshInv, Connected, server
  <2>4. cidEpoch[c] = epoch => Kept(cid[c], c, Minute + MaxDelay + 0)
    <3>1. last[c] + MaxDelay \in Nat /\ Minute + MaxDelay + 0 \in Nat /\ last[c] <= Minute
      BY NatConstants DEF TypeOK, Connected
    <3>2. last[c] + MaxDelay <= Minute + MaxDelay + 0
      BY <3>1, NatConstants DEF TypeOK
    <3>3. QED
      BY <3>1, <3>2, KeptLonger, Zenon DEF FreshInv
  <2>5. \A q \in queries' :
            q.kind \in Request /\ q.epoch = epoch' => Kept(q.cid, q.from, Minute + MaxDelay + q.age)'
    BY <1>3, <1>q, <1>4, <2>1, <2>4, Zenon DEF Sent, FreshInv, server
  <2>6. QED
    BY <2>2, <2>3, <2>5, Zenon DEF FreshInv
<1>11. QED
  BY <1>5, <1>6, <1>7, <1>8, <1>9, <1>10, Zenon

\* A request that is preceded by a connect request.
LEMMA BeginConnectInv ==
    ASSUME IInv, NEW c \in Client, NEW r \in Request, Begin(c, r), ~Connected(c)
    PROVE  IInv'
<1> USE DEF IInv
<1>1. tid[c] + 1 < MaxTid /\ tid[c] < MaxTid /\ Send(c, "connect", 0, epoch)
  BY NatConstants DEF Begin, TypeOK
<1>2. "connect" \in Kind /\ 0 \in 0..MaxCid /\ epoch \in 0..MaxEpoch
  BY NatConstants DEF TypeOK, Kind
<1>3. Sent(c, "connect")
  BY <1>1, <1>2, SendEffect, Zenon
<1>q. PICK new \in Query :
        /\ queries' \subseteq queries \cup {new}
        /\ new.kind = "connect" /\ new.from = c /\ new.tid = tid[c] + 1
        /\ new.cid = 0 /\ new.epoch = epoch /\ new.age = 0
  BY <1>1, <1>2, SendEffect
<1>4. /\ request' = [request EXCEPT ![c] = r]
      /\ UNCHANGED <<cid, cidEpoch, last, socket, replies, copies, server>>
  BY Zenon DEF Begin
<1>5. TypeOK'
  BY <1>2, <1>3, <1>q, <1>4, NatConstants DEF Sent, TypeOK, server
<1>6. TidInv'
  BY <1>1, <1>3, <1>q, <1>4, NatConstants, Fields DEF Sent, TypeOK, TidInv, server
<1>7. HandledInv' /\ OkMeansHandled'
  BY <1>3, <1>q, <1>4 DEF Sent, TypeOK, HandledInv, OkMeansHandled, server
<1>8. EpochInv'
  BY <1>3, <1>q, <1>4 DEF Sent, TypeOK, EpochInv, server
<1>9. CidInv'
  BY <1>4, Zenon DEF CidInv, server
<1>10. FreshInv'
  <2>1. \A id, a, age : Kept(id, a, age) => Kept(id, a, age)'
    BY <1>4, Zenon DEF Kept, server
  <2>2. QED
    BY <1>3, <1>q, <1>4, <2>1, Fields DEF Sent, FreshInv, TypeOK, TidInv, Connected, Request, server
<1>11. QED
  BY <1>5, <1>6, <1>7, <1>8, <1>9, <1>10, Zenon

\* The answer to a connect request, and the request that follows.
LEMMA ConnectRespInv ==
    ASSUME IInv, NEW c \in Client, NEW d \in replies, ReadResp(c, d), ConnectResp(c, d)
    PROVE  IInv'
<1> USE DEF IInv
<1>1. /\ pc[c] = "connect" /\ d.kind = "connect" /\ d.tid = tid[c] /\ d.to = c
      /\ tid[c] < MaxTid
      /\ Send(c, request[c], d.cid, d.epoch)
  BY Zenon DEF ConnectResp, Answers, ReadResp, TidInv
<1>2. /\ request[c] \in Request /\ request[c] \in Kind
      /\ d.cid \in 0..MaxCid /\ d.epoch \in 0..MaxEpoch /\ d.age \in 0..MaxDelay
  BY Fields, Zenon DEF TypeOK, Kind
<1>3. Sent(c, request[c])
  BY <1>1, <1>2, SendEffect
<1>q. PICK new \in Query :
        /\ queries' \subseteq queries \cup {new}
        /\ new.kind = request[c] /\ new.from = c /\ new.tid = tid[c] + 1
        /\ new.cid = d.cid /\ new.epoch = d.epoch /\ new.age = 0
  BY <1>1, <1>2, SendEffect
<1>4. replies' \subseteq replies /\ copies' \in 0..MaxCopies
  BY TakeEffect, Zenon DEF ReadResp
<1>5. /\ cid' = [cid EXCEPT ![c] = d.cid]
      /\ cidEpoch' = [cidEpoch EXCEPT ![c] = d.epoch]
      /\ last' = [last EXCEPT ![c] = 0]
      /\ UNCHANGED <<request, socket, server>>
  BY Zenon DEF ReadResp, ConnectResp
<1>6. TypeOK'
  BY <1>2, <1>3, <1>q, <1>4, <1>5, NatConstants DEF Sent, TypeOK, server
<1>7. TidInv'
  BY <1>2, <1>3, <1>q, <1>4, <1>5, NatConstants, Fields DEF Sent, TypeOK, TidInv, server, Request
<1>8. HandledInv' /\ OkMeansHandled'
  BY <1>3, <1>q, <1>4, <1>5, Zenon DEF Sent, TypeOK, HandledInv, OkMeansHandled, server
<1>9. EpochInv'
  BY <1>3, <1>q, <1>4, <1>5 DEF Sent, TypeOK, EpochInv, server
<1>10. CidInv'
  BY <1>5, Zenon DEF CidInv, server
<1>11. FreshInv'
  <2> SUFFICES ASSUME up PROVE FreshInv'
    BY <1>5, Zenon DEF FreshInv, server
  <2>1. \A id, a, age : Kept(id, a, age) => Kept(id, a, age)'
    BY <1>5, Zenon DEF Kept, server
  <2>2. \A e \in replies' :
            e.kind = "connect" /\ e.epoch = epoch' /\ e.tid = tid'[e.to] /\ pc'[e.to] # "idle"
            => Kept(e.cid, e.to, e.age)'
    BY <1>3, <1>4, <1>5, <2>1, Fields DEF Sent, FreshInv, TypeOK, TidInv, server
  <2>3. d.epoch = epoch =>
            Kept(d.cid, c, 0 + MaxDelay) /\ Kept(d.cid, c, Minute + MaxDelay + 0)
    <3>1. d.age \in Nat /\ 0 + MaxDelay \in Nat /\ Minute + MaxDelay + 0 \in Nat
      BY <1>2, NatConstants
    <3>2. d.age <= 0 + MaxDelay /\ d.age <= Minute + MaxDelay + 0
      BY <1>2, NatConstants
    <3>3. d.epoch = epoch => Kept(d.cid, c, d.age)
      BY <1>1, Zenon DEF FreshInv
    <3>4. QED
      BY <3>1, <3>2, <3>3, KeptLonger, Zenon
  <2>4. \A b \in Client :
            Connected(b)' /\ cidEpoch'[b] = epoch' => Kept(cid[b], b, last[b] + MaxDelay)'
    BY <1>5, <2>1, <2>3, Zenon DEF FreshInv, Connected, TypeOK, server
  <2>5. \A q \in queries' :
            q.kind \in Request /\ q.epoch = epoch' => Kept(q.cid, q.from, Minute + MaxDelay + q.age)'
    BY <1>3, <1>q, <1>5, <2>1, <2>3, Zenon DEF Sent, FreshInv, server
  <2>6. QED
    BY <2>2, <2>4, <2>5, Zenon DEF FreshInv
<1>12. QED
  BY <1>6, <1>7, <1>8, <1>9, <1>10, <1>11, Zenon

\* A step that ends a call: with "ok" it has read the answer to its request.
LEMMA ReturnInv ==
    ASSUME IInv, NEW c \in Client, NEW outcome \in {"ok", "error"}, Return(c, outcome),
           outcome = "ok" => <<c, tid[c]>> \in handled,
           replies' \subseteq replies, copies' \in 0..MaxCopies,
           socket' \in [Client -> {"open", "expired", "closed"}],
           UNCHANGED <<request, tid, cid, cidEpoch, last, queries, server>>
    PROVE  IInv'
<1> USE DEF IInv
<1>1. TypeOK'
  BY Zenon DEF TypeOK, Return, server
<1>2. TidInv' /\ HandledInv' /\ OkMeansHandled'
  BY Zenon DEF TypeOK, TidInv, HandledInv, OkMeansHandled, Return, server
<1>3. EpochInv' /\ CidInv'
  BY Zenon DEF EpochInv, CidInv, server
<1>4. FreshInv'
  <2>1. \A id, a, age : Kept(id, a, age) => Kept(id, a, age)'
    BY Zenon DEF Kept, server
  <2>2. QED
    BY <2>1 DEF FreshInv, TypeOK, Return, Connected, server
<1>5. QED
  BY <1>1, <1>2, <1>3, <1>4, Zenon

\* The steps of Announce and Scrape, and Close.
LEMMA ClientInv ==
    ASSUME IInv, NEW c \in Client,
           \/ Announce(c)
           \/ Scrape(c)
           \/ \E d \in replies : ReadResp(c, d)
           \/ Cancel(c)
           \/ ReadFails(c)
           \/ CloseClient(c)
    PROVE  IInv'
<1>1. CASE Announce(c)
  BY <1>1, BeginConnectedInv, BeginConnectInv, Zenon DEF Announce, Request
<1>2. CASE Scrape(c)
  BY <1>2, BeginConnectedInv, BeginConnectInv, Zenon DEF Scrape, Request
<1>3. CASE \E d \in replies : ReadResp(c, d)
  <2>1. PICK d \in replies : ReadResp(c, d)
    BY <1>3, Zenon
  <2>2. replies' \subseteq replies /\ copies' \in 0..MaxCopies
    BY <2>1, TakeEffect, Zenon DEF ReadResp, IInv
  <2>3. socket' \in [Client -> {"open", "expired", "closed"}]
    BY <2>1, Zenon DEF ReadResp, IInv, TypeOK
  <2>4. CASE ConnectResp(c, d)
    BY <2>1, <2>4, ConnectRespInv, Zenon
  <2>5. CASE AnnounceResp(c, d) \/ ScrapeResp(c, d)
    <3>1. <<c, tid[c]>> \in handled
      BY <2>1, <2>5, Zenon DEF AnnounceResp, ScrapeResp, Answers, ReadResp, IInv, HandledInv, Request
    <3>2. /\ Return(c, "ok")
          /\ UNCHANGED <<request, tid, cid, cidEpoch, last, queries, server>>
      BY <2>1, <2>5, Zenon DEF AnnounceResp, ScrapeResp, ReadResp
    <3>3. QED
      BY <2>2, <2>3, <3>1, <3>2, ReturnInv, Zenon
  <2>6. CASE /\ ~Answers(c, d)
             /\ Return(c, "error")
             /\ UNCHANGED <<tid, cid, cidEpoch, last, queries>>
    <3>1. UNCHANGED <<request, tid, cid, cidEpoch, last, queries, server>>
      BY <2>1, <2>6, Zenon DEF ReadResp
    <3>2. QED
      BY <2>2, <2>3, <2>6, <3>1, ReturnInv, Zenon
  <2>7. QED
    BY <2>1, <2>4, <2>5, <2>6, Zenon DEF ReadResp
<1>4. CASE Cancel(c)
  <2>1. /\ replies' \subseteq replies /\ copies' \in 0..MaxCopies
        /\ socket' \in [Client -> {"open", "expired", "closed"}]
    BY <1>4, Zenon DEF Cancel, IInv, TypeOK
  <2>2. /\ Return(c, "error")
        /\ UNCHANGED <<request, tid, cid, cidEpoch, last, queries, server>>
    BY <1>4, Zenon DEF Cancel
  <2>3. QED
    BY <2>1, <2>2, ReturnInv, Zenon
<1>5. CASE ReadFails(c)
  <2>1. /\ replies' \subseteq replies /\ copies' \in 0..MaxCopies
        /\ socket' \in [Client -> {"open", "expired", "closed"}]
    BY <1>5, Zenon DEF ReadFails, IInv, TypeOK
  <2>2. /\ Return(c, "error")
        /\ UNCHANGED <<request, tid, cid, cidEpoch, last, queries, server>>
    BY <1>5, Zenon DEF ReadFails
  <2>3. QED
    BY <2>1, <2>2, ReturnInv, Zenon
<1>6. CASE CloseClient(c)
  <2>1. /\ socket' \in [Client -> {"open", "expired", "closed"}]
        /\ UNCHANGED <<pc, request, tid, cid, cidEpoch, last, result, queries, replies, copies, server>>
    BY <1>6, Zenon DEF CloseClient, IInv, TypeOK
  <2>2. TypeOK' /\ TidInv' /\ HandledInv' /\ OkMeansHandled' /\ EpochInv' /\ CidInv'
    BY <2>1, Zenon DEF IInv, TypeOK, TidInv, HandledInv, OkMeansHandled, EpochInv, CidInv, server
  <2>3. FreshInv'
    BY <2>1, Zenon DEF IInv, FreshInv, Kept, Connected, server
  <2>4. QED
    BY <2>2, <2>3, Zenon DEF IInv
<1>7. QED
  BY <1>1, <1>2, <1>3, <1>4, <1>5, <1>6, Zenon

-----------------------------------------------------------------------------
(***************************************************************************)
(* The steps of the server, and time                                       *)
(***************************************************************************)

\* A connect request gets a new connection ID, or an error.
LEMMA ConnectInv ==
    ASSUME IInv, NEW q \in queries, Connect(q)
    PROVE  IInv'
<1> USE DEF IInv
<1>1. q.from \in Client /\ q.tid \in 0..MaxTid /\ q.tid <= tid[q.from]
  BY Fields, Zenon DEF TypeOK, TidInv
<1>2. queries' \subseteq queries /\ copies' \in 0..MaxCopies
  BY TakeEffect, Zenon DEF Connect
<1>3. /\ UNCHANGED <<pc, request, tid, cid, cidEpoch, last, socket, result>>
      /\ UNCHANGED <<up, epoch, conns, clock, handled>>
  BY Zenon DEF Connect, client
<1>4. \A id, a, age : Kept(id, a, age) => Kept(id, a, age)'
  BY <1>3, Zenon DEF Kept
<1>5. CASE Reply(q, "error", 0) /\ UNCHANGED <<nextCid, opening>>
  <2>1. PICK new \in Answer :
          /\ replies' = replies \cup {new}
          /\ new.kind = "error" /\ new.to = q.from /\ new.tid = q.tid /\ new.epoch = epoch
    BY <1>1, <1>5, ReplyEffect, NatConstants
  <2>2. TypeOK'
    BY <1>2, <1>3, <1>5, <2>1, Zenon DEF TypeOK
  <2>3. TidInv'
    BY <1>1, <1>2, <1>3, <1>5, <2>1, Zenon DEF TidInv
  <2>4. HandledInv' /\ OkMeansHandled'
    BY <1>3, <2>1, Zenon DEF HandledInv, OkMeansHandled, Request
  <2>5. EpochInv' /\ CidInv'
    BY <1>2, <1>3, <1>5, <2>1 DEF EpochInv, CidInv, TypeOK
  <2>6. FreshInv'
    BY <1>2, <1>3, <1>4, <2>1, Zenon DEF FreshInv, Connected
  <2>7. QED
    BY <2>2, <2>3, <2>4, <2>5, <2>6, Zenon
<1>6. CASE /\ nextCid < MaxCid
           /\ GetConnectionID
           /\ opening' = opening \cup {[from |-> q.from, tid |-> q.tid, cid |-> nextCid + 1]}
           /\ UNCHANGED replies
  <2> DEFINE new == [from |-> q.from, tid |-> q.tid, cid |-> nextCid + 1]
  <2>1. nextCid \in 0..MaxCid /\ nextCid' = nextCid + 1 /\ nextCid' \in 0..MaxCid
    BY <1>6, NatConstants DEF TypeOK, GetConnectionID
  <2>2. new \in Opening /\ new.from = q.from /\ new.tid = q.tid /\ new.cid = nextCid + 1
    BY <1>1, <1>6, <2>1, NatConstants DEF Opening
  <2>3. opening' = opening \cup {new}
    BY <1>6, Zenon
  <2> HIDE DEF new
  <2>4. TypeOK'
    BY <1>2, <1>3, <1>6, <2>1, <2>2, <2>3, Zenon DEF TypeOK
  <2>5. TidInv'
    BY <1>1, <1>2, <1>3, <1>6, <2>2, <2>3, Zenon DEF TidInv
  <2>6. HandledInv' /\ OkMeansHandled' /\ EpochInv'
    BY <1>2, <1>3, <1>6, Zenon DEF HandledInv, OkMeansHandled, EpochInv
  <2>7. CidInv'
    <3>1. /\ \A w \in conns : w.cid \in Int /\ w.cid <= nextCid
          /\ \A o \in opening : o.cid \in Int /\ o.cid <= nextCid
      BY Fields DEF CidInv, TypeOK
    <3>2. QED
      BY <1>3, <2>1, <2>2, <2>3, <3>1 DEF CidInv
  <2>8. FreshInv'
    BY <1>2, <1>3, <1>4, <1>6, Zenon DEF FreshInv, Connected
  <2>9. QED
    BY <2>4, <2>5, <2>6, <2>7, <2>8, Zenon
<1>7. QED
  BY <1>5, <1>6, Zenon DEF Connect

\* The new connection ID is stored and sent.
LEMMA AddConnectionInv ==
    ASSUME IInv, NEW o \in opening, AddConnection(o)
    PROVE  IInv'
<1> USE DEF IInv
<1> DEFINE new == [cid |-> o.cid, addr |-> o.from, age |-> 0]
<1>1. /\ o.from \in Client /\ o.tid \in 0..MaxTid /\ o.cid \in 1..MaxCid /\ o.cid \in 0..MaxCid
      /\ o.tid <= tid[o.from] /\ o.cid <= nextCid
  BY Fields, NatConstants DEF TypeOK, TidInv, CidInv
<1>2. {w \in conns : w.cid # o.cid} = conns
  BY Zenon DEF CidInv
<1>3. /\ opening' = opening \ {o}
      /\ conns' = conns \cup {new}
      /\ UNCHANGED <<pc, request, tid, cid, cidEpoch, last, socket, result>>
      /\ UNCHANGED <<queries, copies, up, epoch, nextCid, clock, handled>>
  BY <1>2, Zenon DEF AddConnection, client
<1>4. new \in Connection /\ new.cid = o.cid /\ new.addr = o.from /\ new.age = 0
  BY <1>1, NatConstants DEF Connection
<1> HIDE DEF new
<1>5. PICK msg \in Answer :
        /\ replies' = replies \cup {msg}
        /\ msg.kind = "connect" /\ msg.to = o.from /\ msg.tid = o.tid
        /\ msg.cid = o.cid /\ msg.epoch = epoch /\ msg.age = 0
  <2>1. Reply(o, "connect", o.cid) /\ "connect" \in Kind \cup {"error"}
    BY Zenon DEF AddConnection, Kind
  <2>2. QED
    BY <1>1, <2>1, ReplyEffect
<1>6. TypeOK'
  BY <1>3, <1>4, <1>5, Zenon DEF TypeOK
<1>7. TidInv'
  BY <1>1, <1>3, <1>5, Zenon DEF TidInv
<1>8. HandledInv' /\ OkMeansHandled' /\ EpochInv'
  BY <1>3, <1>5 DEF HandledInv, OkMeansHandled, EpochInv, Request, TypeOK
<1>9. CidInv'
  BY <1>1, <1>3, <1>4 DEF CidInv
<1>10. FreshInv'
  <2>1. \A id, a, age : Kept(id, a, age) => Kept(id, a, age)'
    BY <1>3, Zenon DEF Kept
  <2>2. Kept(o.cid, o.from, 0)'
    BY <1>3, <1>4 DEF Kept
  <2>3. QED
    BY <1>3, <1>5, <2>1, <2>2, Zenon DEF FreshInv, Connected
<1>11. QED
  BY <1>6, <1>7, <1>8, <1>9, <1>10, Zenon

\* A request is answered with an error, or handled.
LEMMA HandlePacketInv ==
    ASSUME IInv, NEW q \in queries, HandlePacket(q)
    PROVE  IInv'
<1> USE DEF IInv
<1>1. q.from \in Client /\ q.tid \in 0..MaxTid /\ q.tid <= tid[q.from]
  BY Fields, Zenon DEF TypeOK, TidInv
<1>2. queries' \subseteq queries /\ copies' \in 0..MaxCopies
  BY TakeEffect, Zenon DEF HandlePacket
<1>3. /\ q.kind \in Request
      /\ UNCHANGED <<pc, request, tid, cid, cidEpoch, last, socket, result>>
      /\ UNCHANGED <<up, epoch, nextCid, conns, opening, clock>>
  BY Zenon DEF HandlePacket, client
<1>4. PICK kind \in {"error", q.kind} :
        Reply(q, kind, 0) /\ (kind \in Request => <<q.from, q.tid>> \in handled')
  BY Zenon DEF HandlePacket, Request
<1>5. handled \subseteq handled' /\ handled' \subseteq handled \cup {<<q.from, q.tid>>}
  BY Zenon DEF HandlePacket
<1>6. kind \in Kind \cup {"error"} /\ kind # "connect"
  BY <1>3, <1>4, Zenon DEF Kind, Request
<1>7. PICK new \in Answer :
        /\ replies' = replies \cup {new}
        /\ new.kind = kind /\ new.to = q.from /\ new.tid = q.tid /\ new.epoch = epoch
  BY <1>1, <1>4, <1>6, ReplyEffect, NatConstants
<1>8. TypeOK'
  BY <1>1, <1>2, <1>3, <1>5, <1>7 DEF TypeOK
<1>9. TidInv'
  BY <1>1, <1>2, <1>3, <1>7, Zenon DEF TidInv
<1>10. HandledInv' /\ OkMeansHandled'
  BY <1>3, <1>4, <1>5, <1>7, Zenon DEF HandledInv, OkMeansHandled
<1>11. EpochInv' /\ CidInv'
  BY <1>2, <1>3, <1>7 DEF EpochInv, CidInv, TypeOK
<1>12. FreshInv'
  <2>1. \A id, a, age : Kept(id, a, age) => Kept(id, a, age)'
    BY <1>3, Zenon DEF Kept
  <2>2. QED
    BY <1>2, <1>3, <1>6, <1>7, <2>1, Zenon DEF FreshInv, Connected
<1>13. QED
  BY <1>8, <1>9, <1>10, <1>11, <1>12, Zenon

\* The cleaner removes no connection that a client may still use.
LEMMA CleanInv ==
    ASSUME IInv, CleanConnectionID
    PROVE  IInv'
<1> USE DEF IInv
<1>1. /\ up /\ clock' = 0
      /\ conns' = {w \in conns : ~IsExpired(w)}
      /\ UNCHANGED <<pc, request, tid, cid, cidEpoch, last, socket, result>>
      /\ UNCHANGED <<queries, replies, copies, up, epoch, nextCid, opening, handled>>
  BY Zenon DEF CleanConnectionID, client
<1>2. TypeOK'
  BY <1>1, NatConstants DEF TypeOK
<1>3. TidInv' /\ HandledInv' /\ OkMeansHandled' /\ EpochInv' /\ CidInv'
  BY <1>1, Zenon DEF TidInv, HandledInv, OkMeansHandled, EpochInv, CidInv
<1>4. FreshInv'
  <2>1. ASSUME NEW id, NEW a, NEW age \in Nat, age <= Interval, Kept(id, a, age)
        PROVE  Kept(id, a, age)'
    <3>1. PICK w \in conns : w.cid = id /\ w.addr = a /\ w.age <= age
      BY <2>1, Zenon DEF Kept
    <3>2. w \in conns'
      BY <1>1, <2>1, <3>1, Fields, NatConstants DEF IsExpired, TypeOK
    <3>3. QED
      BY <3>1, <3>2, Zenon DEF Kept
  <2>2. \A d \in replies : d.age \in Nat /\ d.age <= Interval
    BY Fields, NatConstants, DelayAssumption DEF TypeOK
  <2>3. \A c \in Client :
            Connected(c) => last[c] + MaxDelay \in Nat /\ last[c] + MaxDelay <= Interval
    BY NatConstants, DelayAssumption DEF TypeOK, Connected
  <2>4. \A q \in queries : /\ Minute + MaxDelay + q.age \in Nat
                           /\ Minute + MaxDelay + q.age <= Interval
    BY Fields, NatConstants, DelayAssumption DEF TypeOK
  <2>5. QED
    BY <1>1, <2>1, <2>2, <2>3, <2>4, Zenon DEF FreshInv, Connected
<1>5. QED
  BY <1>2, <1>3, <1>4, Zenon

\* A new process has issued no connection ID yet.
LEMMA ProcessInv ==
    ASSUME IInv, Down \/ Restart
    PROVE  IInv'
<1> USE DEF IInv
<1>1. CASE Down
  <2>1. TypeOK'
    <3>1. up' \in BOOLEAN
      BY <1>1, Zenon DEF Down
    <3>2. /\ nextCid' \in 0..MaxCid /\ clock' \in 0..Interval
          /\ conns' = {} /\ opening' = {}
      BY <1>1, NatConstants DEF Down
    <3>3. /\ UNCHANGED <<pc, request, tid, cid, cidEpoch, last, socket, result>>
          /\ UNCHANGED <<queries, replies, copies, epoch, handled>>
      BY <1>1, Zenon DEF Down, client
    <3>4. QED
      BY <3>1, <3>2, <3>3, Zenon DEF TypeOK
  <2>2. TidInv' /\ HandledInv' /\ OkMeansHandled' /\ EpochInv' /\ CidInv' /\ FreshInv'
    BY <1>1, Zenon DEF TidInv, HandledInv, OkMeansHandled, EpochInv, CidInv, FreshInv, Down, client
  <2>3. QED
    BY <2>1, <2>2, Zenon
<1>2. CASE Restart
  <2>1. TypeOK'
    BY <1>2, NatConstants DEF TypeOK, Restart, client
  <2>2. TidInv' /\ HandledInv' /\ OkMeansHandled' /\ CidInv'
    BY <1>2, Zenon DEF TidInv, HandledInv, OkMeansHandled, CidInv, Restart, client
  <2>3. /\ epoch' = epoch + 1 /\ epoch \in Nat
        /\ \A q \in queries : q.epoch \in Int
        /\ \A d \in replies : d.epoch \in Int
        /\ \A c \in Client : cidEpoch[c] \in Int
        /\ UNCHANGED <<queries, replies, cidEpoch>>
    BY <1>2, Fields DEF Restart, client, TypeOK
  <2>4. EpochInv'
    BY <2>3 DEF EpochInv
  <2>5. FreshInv'
    <3>1. /\ \A q \in queries' : q.epoch # epoch'
          /\ \A d \in replies' : d.epoch # epoch'
          /\ \A c \in Client : cidEpoch'[c] # epoch'
      BY <2>3 DEF EpochInv
    <3>2. QED
      BY <3>1, Zenon DEF FreshInv
  <2>6. QED
    BY <2>1, <2>2, <2>4, <2>5, Zenon
<1>3. QED
  BY <1>1, <1>2, Zenon

\* Time passes for the connections as for the clients and the datagrams.
LEMMA TickInv ==
    ASSUME IInv, Tick
    PROVE  IInv'
<1> USE DEF IInv
<1>1. /\ opening' = {}
      /\ UNCHANGED <<pc, request, tid, cid, cidEpoch, socket, result, copies>>
      /\ UNCHANGED <<up, epoch, nextCid, handled>>
      /\ last' = [c \in Client |-> Older(last[c], Minute + 1)]
  BY Zenon DEF Tick
<1>2. \A q \in queries' : \E p \in queries :
        /\ q \in Query
        /\ q.kind = p.kind /\ q.from = p.from /\ q.tid = p.tid
        /\ q.cid = p.cid /\ q.epoch = p.epoch /\ q.age = p.age + 1
  BY TickEffect, Zenon
<1>3. \A d \in replies' : \E e \in replies :
        /\ d \in Answer
        /\ d.kind = e.kind /\ d.to = e.to /\ d.tid = e.tid
        /\ d.cid = e.cid /\ d.epoch = e.epoch
        /\ d.age = e.age + 1 \/ pc[d.to] = "idle"
  BY TickEffect, Zenon
<1>4. \A w \in conns' : \E v \in conns : w \in Connection /\ w.cid = v.cid
  BY TickEffect, Zenon
<1>5. TypeOK'
  <2>1. clock' \in 0..Interval /\ last' \in [Client -> 0..(Minute + 1)]
    BY <1>1, NatConstants DEF TypeOK, Tick, Older
  <2>2. queries' \subseteq Query /\ replies' \subseteq Answer /\ conns' \subseteq Connection
    BY <1>2, <1>3, <1>4, Zenon
  <2>3. QED
    BY <1>1, <2>1, <2>2, Zenon DEF TypeOK
<1>6. TidInv'
  BY <1>1, <1>2, <1>3 DEF TidInv, TypeOK
<1>7. HandledInv' /\ OkMeansHandled'
  BY <1>1, <1>3 DEF HandledInv, OkMeansHandled, TypeOK
<1>8. EpochInv'
  BY <1>1, <1>2, <1>3 DEF EpochInv, TypeOK
<1>9. CidInv'
  BY <1>1, <1>4, Zenon DEF CidInv, TypeOK
<1>10. FreshInv'
  <2> SUFFICES ASSUME up PROVE FreshInv'
    BY <1>1, Zenon DEF FreshInv
  <2>1. ASSUME NEW d \in replies', d.kind = "connect", d.epoch = epoch, d.tid = tid[d.to],
               pc[d.to] # "idle"
        PROVE  Kept(d.cid, d.to, d.age)'
    <3>1. PICK e \in replies :
            /\ d.kind = e.kind /\ d.to = e.to /\ d.tid = e.tid
            /\ d.cid = e.cid /\ d.epoch = e.epoch /\ d.age = e.age + 1
      BY <1>3, <2>1, Zenon
    <3>2. e.age \in Nat
      BY Fields, NatConstants DEF TypeOK
    <3>3. Kept(e.cid, e.to, e.age)
      BY <2>1, <3>1, Zenon DEF FreshInv
    <3>4. QED
      BY <3>1, <3>2, <3>3, KeptTick, Zenon
  <2>2. ASSUME NEW c \in Client, Connected(c)', cidEpoch[c] = epoch
        PROVE  Kept(cid[c], c, last[c] + MaxDelay)'
    <3>a. last[c] \in 0..(Minute + 1) /\ last'[c] = Older(last[c], Minute + 1) /\ last'[c] <= Minute
      BY <1>1, <2>2, Zenon DEF TypeOK, Connected
    <3>1. /\ Connected(c) /\ last'[c] = last[c] + 1
          /\ last[c] + MaxDelay \in Nat
          /\ last'[c] + MaxDelay = (last[c] + MaxDelay) + 1
      BY <3>a, NatConstants DEF Connected, Older
    <3>2. Kept(cid[c], c, last[c] + MaxDelay)
      BY <2>2, <3>1, Zenon DEF FreshInv
    <3> DEFINE n == last[c] + MaxDelay
    <3>3. \E w \in conns' : w.cid = cid[c] /\ w.addr = c /\ w.age <= n + 1
      BY <3>1, <3>2, KeptTick DEF Kept
    <3>4. QED
      BY <1>1, <3>1, <3>3, Zenon DEF Kept
  <2>3. ASSUME NEW q \in queries', q.kind \in Request, q.epoch = epoch
        PROVE  Kept(q.cid, q.from, Minute + MaxDelay + q.age)'
    <3>1. PICK p \in queries :
            /\ q.kind = p.kind /\ q.from = p.from
            /\ q.cid = p.cid /\ q.epoch = p.epoch /\ q.age = p.age + 1
      BY <1>2, <2>3, Zenon
    <3>2. /\ Minute + MaxDelay + p.age \in Nat
          /\ Minute + MaxDelay + q.age = (Minute + MaxDelay + p.age) + 1
      BY <3>1, Fields, NatConstants DEF TypeOK
    <3>3. Kept(p.cid, p.from, Minute + MaxDelay + p.age)
      BY <2>3, <3>1, Zenon DEF FreshInv
    <3>4. QED
      BY <3>1, <3>2, <3>3, KeptTick, Zenon
  <2>4. QED
    BY <1>1, <2>1, <2>2, <2>3, Zenon DEF FreshInv
<1>11. QED
  BY <1>5, <1>6, <1>7, <1>8, <1>9, <1>10, Zenon

-----------------------------------------------------------------------------
(***************************************************************************)
(* Theorems                                                                *)
(***************************************************************************)

\* No client has connected.
LEMMA IInvInit == Init => IInv
<1> SUFFICES ASSUME Init PROVE IInv
  OBVIOUS
<1>1. TypeOK
  BY NatConstants DEF Init, TypeOK, Kind, Request
<1>2. TidInv /\ HandledInv /\ OkMeansHandled /\ EpochInv /\ CidInv
  BY NatConstants DEF Init, TidInv, HandledInv, OkMeansHandled, EpochInv, CidInv
<1>3. FreshInv
  BY NatConstants DEF Init, FreshInv, Connected
<1>4. QED
  BY <1>1, <1>2, <1>3, Zenon DEF IInv

\* Each step of clients, server and network keeps the invariant.
LEMMA IInvNext == IInv /\ [Next]_vars => IInv'
<1> SUFFICES ASSUME IInv, [Next]_vars PROVE IInv'
  OBVIOUS
<1>1. ASSUME NEW c \in Client,
             \/ Announce(c)
             \/ Scrape(c)
             \/ \E d \in replies : ReadResp(c, d)
             \/ Cancel(c)
             \/ ReadFails(c)
             \/ CloseClient(c)
      PROVE  IInv'
  BY <1>1, ClientInv, Zenon
<1>2. ASSUME NEW q \in queries, Connect(q)
      PROVE  IInv'
  BY <1>2, ConnectInv, Zenon
<1>3. ASSUME NEW q \in queries, HandlePacket(q)
      PROVE  IInv'
  BY <1>3, HandlePacketInv, Zenon
<1>4. ASSUME NEW o \in opening, AddConnection(o)
      PROVE  IInv'
  BY <1>4, AddConnectionInv, Zenon
<1>5. CASE CleanConnectionID
  BY <1>5, CleanInv, Zenon
<1>6. CASE Down \/ Restart
  BY <1>6, ProcessInv, Zenon
<1>7. CASE Tick
  BY <1>7, TickInv, Zenon
<1>8. CASE UNCHANGED vars
  <2>1. /\ UNCHANGED <<pc, request, tid, cid, cidEpoch, last, socket, result>>
        /\ UNCHANGED <<queries, replies, copies>>
        /\ UNCHANGED <<up, epoch, nextCid, conns, opening, clock, handled>>
    BY <1>8, Zenon DEF vars, client, server
  <2>2. TypeOK' /\ TidInv' /\ HandledInv' /\ OkMeansHandled' /\ EpochInv' /\ CidInv'
    BY <2>1, Zenon DEF IInv, TypeOK, TidInv, HandledInv, OkMeansHandled, EpochInv, CidInv
  <2>3. FreshInv'
    BY <2>1, Zenon DEF IInv, FreshInv, Kept, Connected
  <2>4. QED
    BY <2>2, <2>3, Zenon DEF IInv
<1>9. QED
  BY <1>1, <1>2, <1>3, <1>4, <1>5, <1>6, <1>7, <1>8, Zenon DEF Next

\* The invariant holds from the start.
LEMMA Invariance == Spec => []IInv
  BY IInvInit, IInvNext, PTL DEF Spec

\* The state of clients, server and network has the types of the code, within
\* the bounds.
THEOREM TypeCorrect == Spec => []TypeOK
<1>1. IInv => TypeOK
  BY Zenon DEF IInv
<1>2. QED
  BY <1>1, Invariance, PTL

\* Announce and Scrape return a response without an error only when OnAnnounce
\* or OnScrap has accepted this very request: a response to an earlier request,
\* late, repeated or left in the receive buffer, never counts for a later one.
THEOREM OkIsHandled == Spec => []OkMeansHandled
<1>1. IInv => OkMeansHandled
  BY Zenon DEF IInv
<1>2. QED
  BY <1>1, Invariance, PTL

\* checkConnection accepts every announce and scrape request whose connection ID
\* the running server process issued: neither the age of the ID at the client,
\* nor the delay of the connect response and of the request, nor the cleaner
\* makes it unknown.
THEOREM FreshConnectionsAreKnown == Spec => []FreshConnectionIsAccepted
<1>1. IInv => FreshConnectionIsAccepted
  BY Zenon DEF IInv, FreshInv, FreshConnectionIsAccepted, CheckConnection, Kept
<1>2. QED
  BY <1>1, Invariance, PTL

=============================================================================
