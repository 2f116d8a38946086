----------------------- MODULE TorrentDownloaderProofs -----------------------
(***************************************************************************)
(* Proofs about TorrentDownloader, for any finite number of workers, any   *)
(* torrents and block size, and whatever the peers send.                   *)
(***************************************************************************)
EXTENDS TorrentDownloader, FiniteSetTheorems, SequenceTheorems, TLAPS

\* The response with the whole info part of a torrent.
Whole(t) == [infohash |-> t, size |-> Size[t],
             data |-> [i \in 0..(PiecesNum(Size[t]) - 1) |-> "good"]]

\* A worker that is about to deliver has the whole info part, and only such
\* responses are in the channel.
VerifiedInv ==
    /\ responses \in Seq({Whole(t) : t \in Torrent})
    /\ \A w \in Worker :
          pc[w] = "deliver" =>
            [infohash |-> job[w], size |-> size[w], data |-> pieces[w]] = Whole(job[w])

\* Where the requests for a torrent are that have no response yet: with the
\* caller, in the channel, with a worker.
Waiting(t) == IF calling = t THEN 1 ELSE 0
Positions(s, t) == {i \in DOMAIN s : s[i] = t}
Holders(j, t) == {w \in Worker : j[w] = t}
Queued(t) == Cardinality(Positions(requests, t))
Running(t) == Cardinality(Holders(job, t))

CountInv ==
    \A t \in Torrent :
        answered[t] + Running(t) + Queued(t) + Waiting(t) <= submitted[t]

IInv == TypeOK /\ VerifiedInv /\ CountInv

-----------------------------------------------------------------------------
(***************************************************************************)
(* How the counts change                                                   *)
(***************************************************************************)

\* A channel holds finitely many requests of a torrent.
LEMMA PositionsFinite ==
    ASSUME NEW s \in Seq(Torrent), NEW t
    PROVE  IsFiniteSet(Positions(s, t)) /\ Cardinality(Positions(s, t)) \in Nat
<1>1. Positions(s, t) \in SUBSET (1..Len(s)) /\ Len(s) \in Nat
  BY DEF Positions
<1>2. IsFiniteSet(1..Len(s))
  BY <1>1, FS_Interval
<1>3. QED
  BY <1>1, <1>2, FS_Subset, FS_CardinalityType, Zenon

\* Sending to a channel adds one,
LEMMA PositionsAppend ==
    ASSUME NEW s \in Seq(Torrent), NEW u \in Torrent, NEW t \in Torrent
    PROVE  Cardinality(Positions(Append(s, u), t)) =
           Cardinality(Positions(s, t)) + IF u = t THEN 1 ELSE 0
<1> DEFINE n == Len(s) + 1
<1>1. Positions(Append(s, u), t) = IF u = t THEN Positions(s, t) \cup {n} ELSE Positions(s, t)
  BY DEF Positions
<1>2. n \notin Positions(s, t)
  BY DEF Positions
<1>3. IsFiniteSet(Positions(s, t)) /\ Cardinality(Positions(s, t)) \in Nat
  BY PositionsFinite, Zenon
<1>4. Cardinality(Positions(s, t) \cup {n}) = Cardinality(Positions(s, t)) + 1
  BY <1>2, <1>3, FS_AddElement, Zenon
<1>5. QED
  BY <1>1, <1>3, <1>4

\* and receiving from it takes one away.
LEMMA PositionsTail ==
    ASSUME NEW s \in Seq(Torrent), s # <<>>, NEW t \in Torrent
    PROVE  Cardinality(Positions(s, t)) =
           Cardinality(Positions(Tail(s), t)) + IF Head(s) = t THEN 1 ELSE 0
<1> DEFINE rest == Positions(s, t) \ {1}
<1> DEFINE f == [i \in rest |-> i - 1]
<1>1. /\ Len(s) \in Nat \ {0}
      /\ Tail(s) \in Seq(Torrent) /\ Len(Tail(s)) = Len(s) - 1
      /\ \A i \in 1..(Len(s) - 1) : Tail(s)[i] = s[i + 1]
      /\ Head(s) = s[1]
  OBVIOUS
<1>2. rest = {i \in 2..Len(s) : s[i] = t} /\ Positions(Tail(s), t) = {i \in 1..(Len(s) - 1) : s[i + 1] = t}
  BY <1>1 DEF Positions
<1>3. f \in [rest -> Positions(Tail(s), t)]
  BY <1>1, <1>2
<1>4. \A i, j \in rest : f[i] = f[j] => i = j
  BY <1>2
<1>5. \A j \in Positions(Tail(s), t) : \E i \in rest : f[i] = j
  <2> SUFFICES ASSUME NEW j \in Positions(Tail(s), t) PROVE \E i \in rest : f[i] = j
    OBVIOUS
  <2>1. j + 1 \in rest /\ f[j + 1] = j
    BY <1>1, <1>2
  <2>2. QED
    BY <2>1, Zenon
<1>6. ExistsBijection(rest, Positions(Tail(s), t))
  <2>1. f \in Bijection(rest, Positions(Tail(s), t))
    BY <1>3, <1>4, <1>5, Zenon DEF Bijection, Injection, Surjection, IsInjective
  <2>2. QED
    BY <2>1, Zenon DEF ExistsBijection
<1>7. IsFiniteSet(Positions(s, t)) /\ Cardinality(Positions(s, t)) \in Nat
  BY PositionsFinite, Zenon
<1>8. /\ IsFiniteSet(rest)
      /\ Cardinality(rest) = IF 1 \in Positions(s, t) THEN Cardinality(Positions(s, t)) - 1
                                                      ELSE Cardinality(Positions(s, t))
  BY <1>7, FS_RemoveElement, Zenon
<1>9. Cardinality(Positions(Tail(s), t)) = Cardinality(rest)
  BY <1>6, <1>8, FS_Bijection, Zenon
<1>10. 1 \in Positions(s, t) <=> Head(s) = t
  BY <1>1 DEF Positions
<1>11. QED
  BY <1>7, <1>8, <1>9, <1>10

\* Finitely many workers have a request of a torrent.
LEMMA HoldersFinite ==
    ASSUME NEW j, NEW t
    PROVE  IsFiniteSet(Holders(j, t)) /\ Cardinality(Holders(j, t)) \in Nat
  BY ConstantsAssumption, FS_Subset, FS_CardinalityType, Zenon DEF Holders

\* A worker takes a job,
LEMMA HoldersTake ==
    ASSUME NEW j \in [Worker -> Torrent \cup {None}], NEW w \in Worker, j[w] = None,
           NEW u \in Torrent, NEW t \in Torrent
    PROVE  Cardinality(Holders([j EXCEPT ![w] = u], t)) =
           Cardinality(Holders(j, t)) + IF u = t THEN 1 ELSE 0
<1>1. Holders([j EXCEPT ![w] = u], t) = IF u = t THEN Holders(j, t) \cup {w} ELSE Holders(j, t)
  BY ConstantsAssumption, Zenon DEF Holders
<1>2. w \notin Holders(j, t)
  BY ConstantsAssumption, Zenon DEF Holders
<1>3. IsFiniteSet(Holders(j, t)) /\ Cardinality(Holders(j, t)) \in Nat
  BY HoldersFinite, Zenon
<1>4. Cardinality(Holders(j, t) \cup {w}) = Cardinality(Holders(j, t)) + 1
  BY <1>2, <1>3, FS_AddElement, Zenon
<1>5. QED
  BY <1>1, <1>3, <1>4

\* and is done with it.
LEMMA HoldersLeave ==
    ASSUME NEW j \in [Worker -> Torrent \cup {None}], NEW w \in Worker, NEW t \in Torrent
    PROVE  Cardinality(Holders([j EXCEPT ![w] = None], t)) =
           IF j[w] = t THEN Cardinality(Holders(j, t)) - 1 ELSE Cardinality(Holders(j, t))
<1>1. Holders([j EXCEPT ![w] = None], t) = Holders(j, t) \ {w}
  BY ConstantsAssumption, Zenon DEF Holders
<1>2. w \in Holders(j, t) <=> j[w] = t
  BY Zenon DEF Holders
<1>3. IsFiniteSet(Holders(j, t)) /\ Cardinality(Holders(j, t)) \in Nat
  BY HoldersFinite, Zenon
<1>4. Cardinality(Holders(j, t) \ {w}) =
      IF w \in Holders(j, t) THEN Cardinality(Holders(j, t)) - 1 ELSE Cardinality(Holders(j, t))
  BY <1>3, FS_RemoveElement, Zenon
<1>5. QED
  BY <1>1, <1>2, <1>3, <1>4, Zenon

-----------------------------------------------------------------------------
(***************************************************************************)
(* Messages                                                                *)
(***************************************************************************)

\* A size is a number and a block has data, whoever has sent them.
MsgOK(m) ==
    /\ m.type = "handshake" => m.size \in Nat
    /\ m.type = "block" => m.data \in {"good", "bad"}

\* The messages of honest and of other peers have the fields of their types.
LEMMA MessagesOK ==
    ASSUME TypeOK, NEW w \in Worker, pc[w] = "read"
    PROVE  /\ \A m \in HonestMsgs(w) : MsgOK(m)
           /\ \A m \in OtherMsgs(w) : MsgOK(m)
<1>1. job[w] \in Torrent /\ Size[job[w]] \in Nat
  BY ConstantsAssumption, Zenon DEF TypeOK
<1>2. \A n \in Nat : MsgOK(Handshake(n))
  BY Zenon DEF MsgOK, Handshake
<1>3. \A i, len : \A data \in {"good", "bad"} : MsgOK(Block(i, len, data))
  BY Zenon DEF MsgOK, Block
<1>4. MsgOK([type |-> "other"]) /\ MsgOK([type |-> "refusal"])
  BY Zenon DEF MsgOK
<1>5. \A m \in HonestMsgs(w) : MsgOK(m)
  BY <1>1, <1>2, <1>3, Zenon DEF HonestMsgs
<1>6. \A m \in OtherMsgs(w) : MsgOK(m)
  BY <1>1, <1>2, <1>3, <1>4, ConstantsAssumption DEF OtherMsgs
<1>7. QED
  BY <1>5, <1>6, Zenon

-----------------------------------------------------------------------------
(***************************************************************************)
(* The steps of a worker                                                   *)
(***************************************************************************)

\* A download that ends without a response.
LEMMA ReturnInv ==
    ASSUME IInv, NEW w \in Worker, pc[w] \in {"dial", "read"}, Return(w),
           noise' \in 0..MaxNoise, UNCHANGED <<queues, answered>>
    PROVE  IInv'
<1> USE DEF IInv
<1>1. TypeOK'
  BY ConstantsAssumption, Zenon DEF TypeOK, Return, Forget, queues
<1>2. VerifiedInv'
  BY Zenon DEF VerifiedInv, TypeOK, Return, Forget, queues
<1>3. CountInv'
  <2> SUFFICES ASSUME NEW t \in Torrent
               PROVE  (answered[t] + Running(t) + Queued(t) + Waiting(t) <= submitted[t])'
    BY Zenon DEF CountInv
  <2>1. UNCHANGED <<answered[t], Queued(t), Waiting(t), submitted[t]>>
    BY Zenon DEF queues, Queued, Waiting
  <2>2. Running(t)' = IF job[w] = t THEN Running(t) - 1 ELSE Running(t)
    <3>1. job \in [Worker -> Torrent \cup {None}] /\ job' = [job EXCEPT ![w] = None]
      BY Zenon DEF Return, Forget, TypeOK
    <3>2. Cardinality(Holders([job EXCEPT ![w] = None], t)) =
          IF job[w] = t THEN Cardinality(Holders(job, t)) - 1 ELSE Cardinality(Holders(job, t))
      BY <3>1, HoldersLeave, Zenon
    <3>3. QED
      BY <3>1, <3>2, Zenon DEF Running
  <2>3. /\ Running(t) \in Nat /\ Queued(t) \in Nat /\ Waiting(t) \in Nat
        /\ answered[t] \in Nat /\ submitted[t] \in Nat
    BY HoldersFinite, PositionsFinite, Zenon DEF Running, Queued, Waiting, TypeOK
  <2>4. answered[t] + Running(t) + Queued(t) + Waiting(t) <= submitted[t]
    BY Zenon DEF CountInv
  <2>5. QED
    BY <2>1, <2>2, <2>3, <2>4
<1>4. QED
  BY <1>1, <1>2, <1>3, Zenon

\* A step of a download that goes on leaves the counts alone.
LEMMA SameCounts ==
    ASSUME CountInv, UNCHANGED <<queues, job, answered>>
    PROVE  CountInv'
  BY Zenon DEF CountInv, Running, Queued, Waiting, queues

\* The extended handshake gives the size and the number of blocks.
LEMMA ExtHandshakeInv ==
    ASSUME IInv, NEW w \in Worker, NEW m, MsgOK(m), m.type = "handshake", pc[w] = "read",
           ExtHandshake(w, m), noise' \in 0..MaxNoise, UNCHANGED <<queues, answered>>
    PROVE  IInv'
<1> USE DEF IInv
<1>1. CASE Return(w)
  BY <1>1, ReturnInv, Zenon
<1>2. CASE /\ size' = [size EXCEPT ![w] = m.size]
           /\ pieces' = [pieces EXCEPT ![w] = [i \in 0..(PiecesNum(m.size) - 1) |-> None]]
           /\ UNCHANGED <<pc, job, honest, asked>>
  <2>1. TypeOK'
    BY <1>2, Zenon DEF TypeOK, MsgOK, queues
  <2>2. VerifiedInv'
    BY <1>2, Zenon DEF VerifiedInv, TypeOK, queues
  <2>3. CountInv'
    BY <1>2, SameCounts, Zenon
  <2>4. QED
    BY <2>1, <2>2, <2>3, Zenon
<1>3. QED
  BY <1>1, <1>2, Zenon DEF ExtHandshake

\* A block is stored; after the last one the hash is compared.
LEMMA DataInv ==
    ASSUME IInv, NEW w \in Worker, NEW m, MsgOK(m), m.type = "block", pc[w] = "read",
           Data(w, m), noise' \in 0..MaxNoise, UNCHANGED <<queues, answered>>
    PROVE  IInv'
<1> USE DEF IInv
<1> DEFINE ps == Stored(w, m.piece, m.len, m.data)
<1>1. CASE Return(w)
  BY <1>1, ReturnInv, Zenon
<1>2. CASE /\ pieces[w] # None
           /\ Finished(ps) => SumOK(w, ps)
           /\ pieces' = [pieces EXCEPT ![w] = ps]
           /\ pc' = [pc EXCEPT ![w] = IF Finished(ps) THEN "deliver" ELSE "read"]
           /\ UNCHANGED <<job, honest, size, asked>>
  <2>1. pieces[w] \in [0..(PiecesNum(size[w]) - 1) -> {None, "good", "bad"}]
    BY <1>2, Zenon DEF TypeOK
  <2>2. ps \in [0..(PiecesNum(size[w]) - 1) -> {None, "good", "bad"}]
    BY <2>1, Zenon DEF Stored, MsgOK
  <2>3. Finished(ps) => [infohash |-> job[w], size |-> size[w], data |-> ps] = Whole(job[w])
    <3> SUFFICES ASSUME Finished(ps)
                 PROVE  size[w] = Size[job[w]] /\ ps = [i \in 0..(PiecesNum(Size[job[w]]) - 1) |-> "good"]
      BY Zenon DEF Whole
    <3> HIDE DEF ps
    <3>1. SumOK(w, ps)
      BY <1>2, Zenon
    <3>2. QED
      BY <2>2, <3>1, Zenon DEF SumOK
  <2> HIDE DEF ps
  <2>4. TypeOK'
    BY <1>2, <2>2, Zenon DEF TypeOK, queues
  <2>5. VerifiedInv'
    BY <1>2, <2>3, Zenon DEF VerifiedInv, TypeOK, queues
  <2>6. CountInv'
    BY <1>2, SameCounts, Zenon
  <2>7. QED
    BY <2>4, <2>5, <2>6, Zenon
<1>3. QED
  BY <1>1, <1>2, Zenon DEF Data

\* A message of whichever peer.
LEMMA HandleInv ==
    ASSUME IInv, NEW w \in Worker, NEW m, MsgOK(m), Handle(w, m), noise' \in 0..MaxNoise
    PROVE  IInv'
<1>1. pc[w] = "read" /\ UNCHANGED <<queues, answered>>
  BY Zenon DEF Handle
<1>2. CASE Return(w)
  BY <1>1, <1>2, ReturnInv, Zenon
<1>3. CASE m.type = "other" /\ UNCHANGED <<pc, download>>
  <2>1. TypeOK'
    BY <1>1, <1>3, Zenon DEF IInv, TypeOK, queues, download
  <2>2. VerifiedInv'
    BY <1>1, <1>3, Zenon DEF IInv, VerifiedInv, queues, download
  <2>3. CountInv'
    BY <1>1, <1>3, SameCounts, Zenon DEF IInv, download
  <2>4. QED
    BY <2>1, <2>2, <2>3, Zenon DEF IInv
<1>4. CASE m.type = "handshake" /\ ExtHandshake(w, m)
  BY <1>1, <1>4, ExtHandshakeInv, Zenon
<1>5. CASE m.type = "block" /\ Data(w, m)
  BY <1>1, <1>5, DataInv, Zenon
<1>6. QED
  BY <1>2, <1>3, <1>4, <1>5, Zenon DEF Handle

\* The three ways of reading a message of a peer.
LEMMA ReadInv ==
    ASSUME IInv, NEW w \in Worker, ReadMsg(w) \/ ReadOther(w) \/ ReadFails(w)
    PROVE  IInv'
<1>1. CASE ReadMsg(w)
  <2>1. PICK m \in HonestMsgs(w) : Handle(w, m)
    BY <1>1, Zenon DEF ReadMsg
  <2>2. MsgOK(m) /\ noise' \in 0..MaxNoise
    BY <1>1, MessagesOK, Zenon DEF ReadMsg, IInv, TypeOK
  <2>3. QED
    BY <2>1, <2>2, HandleInv, Zenon
<1>2. CASE ReadOther(w)
  <2>1. PICK m \in OtherMsgs(w) : Handle(w, m)
    BY <1>2, Zenon DEF ReadOther
  <2>2. MsgOK(m)
    BY <1>2, MessagesOK, Zenon DEF ReadOther, IInv
  <2>3. noise' \in 0..MaxNoise
    BY <1>2, ConstantsAssumption DEF ReadOther, IInv, TypeOK
  <2>4. QED
    BY <2>1, <2>2, <2>3, HandleInv, Zenon
<1>3. CASE ReadFails(w)
  <2>1. /\ pc[w] \in {"dial", "read"} /\ Return(w)
        /\ noise' \in 0..MaxNoise /\ UNCHANGED <<queues, answered>>
    BY <1>3, Zenon DEF ReadFails, IInv, TypeOK
  <2>2. QED
    BY <2>1, ReturnInv, Zenon
<1>4. QED
  BY <1>1, <1>2, <1>3, Zenon

\* A worker receives a request.
LEMMA TakeRequestInv ==
    ASSUME IInv, NEW w \in Worker, TakeRequest(w)
    PROVE  IInv'
<1> USE DEF IInv
<1>1. /\ pc[w] = "idle" /\ requests # <<>>
      /\ requests' = Tail(requests)
      /\ job' = [job EXCEPT ![w] = Head(requests)]
      /\ pc' = [pc EXCEPT ![w] = "dial"]
      /\ UNCHANGED <<calling, responses, closed, submitted, honest, size, pieces, asked, noise, answered>>
  BY Zenon DEF TakeRequest
<1>2. /\ requests \in Seq(Torrent) /\ Head(requests) \in Torrent /\ job[w] = None
      /\ job \in [Worker -> Torrent \cup {None}]
  BY <1>1 DEF TypeOK
<1>3. TypeOK'
  <2>1. requests' \in Seq(Torrent) /\ Len(requests') <= Cardinality(Worker)
    BY <1>1, <1>2, FS_CardinalityType, ConstantsAssumption DEF TypeOK
  <2>2. QED
    BY <1>1, <1>2, <2>1, ConstantsAssumption, Zenon DEF TypeOK
<1>4. VerifiedInv'
  BY <1>1, Zenon DEF VerifiedInv, TypeOK
<1>5. CountInv'
  <2> SUFFICES ASSUME NEW t \in Torrent
               PROVE  (answered[t] + Running(t) + Queued(t) + Waiting(t) <= submitted[t])'
    BY Zenon DEF CountInv
  <2>1. UNCHANGED <<answered[t], Waiting(t), submitted[t]>>
    BY <1>1, Zenon DEF Waiting
  <2>2. Running(t)' = Running(t) + IF Head(requests) = t THEN 1 ELSE 0
    <3>1. Cardinality(Holders([job EXCEPT ![w] = Head(requests)], t)) =
          Cardinality(Holders(job, t)) + IF Head(requests) = t THEN 1 ELSE 0
      BY <1>2, HoldersTake, Zenon
    <3>2. QED
      BY <1>1, <3>1, Zenon DEF Running
  <2>3. Queued(t) = Queued(t)' + IF Head(requests) = t THEN 1 ELSE 0
    <3>1. Cardinality(Positions(requests, t)) =
          Cardinality(Positions(Tail(requests), t)) + IF Head(requests) = t THEN 1 ELSE 0
      BY <1>1, <1>2, PositionsTail, Zenon
    <3>2. QED
      BY <1>1, <3>1, Zenon DEF Queued
  <2>4. /\ Running(t) \in Nat /\ Queued(t) \in Nat /\ Waiting(t) \in Nat
        /\ Queued(t)' \in Nat /\ answered[t] \in Nat /\ submitted[t] \in Nat
    <3>1. Tail(requests) \in Seq(Torrent)
      BY <1>1, <1>2
    <3>2. QED
      BY <1>1, <1>2, <3>1, HoldersFinite, PositionsFinite, Zenon DEF Running, Queued, Waiting, TypeOK
  <2>5. answered[t] + Running(t) + Queued(t) + Waiting(t) <= submitted[t]
    BY Zenon DEF CountInv
  <2>6. QED
    BY <2>1, <2>2, <2>3, <2>4, <2>5
<1>6. QED
  BY <1>3, <1>4, <1>5, Zenon

\* A worker puts its response into the channel, and its download returns.
LEMMA DeliverInv ==
    ASSUME IInv, NEW w \in Worker, Deliver(w)
    PROVE  IInv'
<1> USE DEF IInv
<1> DEFINE r == [infohash |-> job[w], size |-> size[w], data |-> pieces[w]]
<1>1. /\ pc[w] = "deliver" /\ job[w] \in Torrent /\ r = Whole(job[w])
      /\ responses \in Seq({Whole(t) : t \in Torrent}) /\ Len(responses) < RespCap
      /\ responses' = Append(responses, r)
      /\ answered' = [answered EXCEPT ![job[w]] = @ + 1]
      /\ Return(w)
      /\ UNCHANGED <<calling, requests, closed, submitted, noise>>
  BY Zenon DEF Deliver, VerifiedInv, TypeOK
<1> HIDE DEF r
<1>2. responses' \in Seq({Whole(t) : t \in Torrent}) /\ Len(responses') = Len(responses) + 1
  <2>1. r \in {Whole(t) : t \in Torrent}
    BY <1>1, Zenon
  <2>2. QED
    BY <1>1, <2>1
<1>3. TypeOK'
  <2>1. Len(responses) \in Nat
    BY <1>1
  <2>2. Len(responses') <= RespCap
    BY <1>1, <1>2, <2>1, ConstantsAssumption
  <2>3. answered' \in [Torrent -> Nat]
    BY <1>1 DEF TypeOK
  <2>4. QED
    BY <1>1, <2>2, <2>3, ConstantsAssumption, Zenon DEF TypeOK, Return, Forget
<1>4. VerifiedInv'
  BY <1>1, <1>2, Zenon DEF VerifiedInv, TypeOK, Return, Forget
<1>5. CountInv'
  <2> SUFFICES ASSUME NEW t \in Torrent
               PROVE  (answered[t] + Running(t) + Queued(t) + Waiting(t) <= submitted[t])'
    BY Zenon DEF CountInv
  <2>1. UNCHANGED <<Queued(t), Waiting(t), submitted[t]>>
    BY <1>1, Zenon DEF Queued, Waiting
  <2>2. answered'[t] = IF job[w] = t THEN answered[t] + 1 ELSE answered[t]
    BY <1>1, Zenon DEF TypeOK
  <2>3. Running(t)' = IF job[w] = t THEN Running(t) - 1 ELSE Running(t)
    <3>1. job \in [Worker -> Torrent \cup {None}] /\ job' = [job EXCEPT ![w] = None]
      BY <1>1, Zenon DEF Return, Forget, TypeOK
    <3>2. Cardinality(Holders([job EXCEPT ![w] = None], t)) =
          IF job[w] = t THEN Cardinality(Holders(job, t)) - 1 ELSE Cardinality(Holders(job, t))
      BY <3>1, HoldersLeave, Zenon
    <3>3. QED
      BY <3>1, <3>2, Zenon DEF Running
  <2>4. /\ Running(t) \in Nat /\ Queued(t) \in Nat /\ Waiting(t) \in Nat
        /\ answered[t] \in Nat /\ submitted[t] \in Nat
    BY HoldersFinite, PositionsFinite, Zenon DEF Running, Queued, Waiting, TypeOK
  <2>5. answered[t] + Running(t) + Queued(t) + Waiting(t) <= submitted[t]
    BY Zenon DEF CountInv
  <2>6. QED
    BY <2>1, <2>2, <2>3, <2>4, <2>5
<1>6. QED
  BY <1>3, <1>4, <1>5, Zenon

\* The other steps of a worker: they keep its job.
LEMMA OtherWorkerStepsInv ==
    ASSUME IInv, NEW w \in Worker, Exit(w) \/ Dial(w) \/ RequestPiece(w)
    PROVE  IInv'
<1> USE DEF IInv
<1>1. CASE Exit(w)
  <2>1. TypeOK'
    BY <1>1, Zenon DEF Exit, TypeOK, queues, download
  <2>2. VerifiedInv'
    BY <1>1, Zenon DEF Exit, VerifiedInv, TypeOK, queues, download
  <2>3. CountInv'
    BY <1>1, SameCounts, Zenon DEF Exit, download
  <2>4. QED
    BY <2>1, <2>2, <2>3, Zenon
<1>2. CASE Dial(w)
  <2>1. CASE Return(w)
    <3>1. /\ pc[w] \in {"dial", "read"}
          /\ noise' \in 0..MaxNoise /\ UNCHANGED <<queues, answered>>
      BY <1>2, Zenon DEF Dial, TypeOK
    <3>2. QED
      BY <2>1, <3>1, ReturnInv, Zenon
  <2>2. CASE /\ pc' = [pc EXCEPT ![w] = "read"]
             /\ honest' \in {[honest EXCEPT ![w] = b] : b \in BOOLEAN}
             /\ UNCHANGED <<job, size, pieces, asked>>
    <3>1. pc[w] = "dial" /\ UNCHANGED <<queues, noise, answered>>
      BY <1>2, Zenon DEF Dial
    <3>2. honest' \in [Worker -> BOOLEAN]
      BY <2>2, Zenon DEF TypeOK
    <3>3. TypeOK'
      BY <2>2, <3>1, <3>2, Zenon DEF TypeOK, queues
    <3>4. VerifiedInv'
      BY <2>2, <3>1, Zenon DEF VerifiedInv, TypeOK, queues
    <3>5. CountInv'
      BY <2>2, <3>1, SameCounts, Zenon
    <3>6. QED
      BY <3>3, <3>4, <3>5, Zenon
  <2>3. QED
    BY <1>2, <2>1, <2>2, Zenon DEF Dial
<1>3. CASE RequestPiece(w)
  <2>1. TypeOK'
    BY <1>3 DEF RequestPiece, TypeOK, queues
  <2>2. VerifiedInv'
    BY <1>3, Zenon DEF RequestPiece, VerifiedInv, queues
  <2>3. CountInv'
    BY <1>3, SameCounts, Zenon DEF RequestPiece
  <2>4. QED
    BY <2>1, <2>2, <2>3, Zenon
<1>4. QED
  BY <1>1, <1>2, <1>3, Zenon

-----------------------------------------------------------------------------
(***************************************************************************)
(* The steps of the application                                            *)
(***************************************************************************)

\* Request is called,
LEMMA RequestInv ==
    ASSUME IInv, NEW u \in Torrent, Request(u)
    PROVE  IInv'
<1> USE DEF IInv
<1>1. /\ calling = None /\ calling' = u
      /\ submitted' = [submitted EXCEPT ![u] = @ + 1]
      /\ UNCHANGED <<requests, responses, closed, pc, job, honest, size, pieces, asked, noise, answered>>
  BY Zenon DEF Request, download
<1>2. TypeOK'
  BY <1>1 DEF TypeOK
<1>3. VerifiedInv'
  BY <1>1, Zenon DEF VerifiedInv
<1>4. CountInv'
  <2> SUFFICES ASSUME NEW t \in Torrent
               PROVE  (answered[t] + Running(t) + Queued(t) + Waiting(t) <= submitted[t])'
    BY Zenon DEF CountInv
  <2>1. UNCHANGED <<answered[t], Running(t), Queued(t)>>
    BY <1>1, Zenon DEF Running, Queued
  <2>2. Waiting(t) = 0 /\ Waiting(t)' = IF u = t THEN 1 ELSE 0
    BY <1>1, ConstantsAssumption, Zenon DEF Waiting
  <2>3. submitted'[t] = IF u = t THEN submitted[t] + 1 ELSE submitted[t]
    BY <1>1, Zenon DEF TypeOK
  <2>4. /\ Running(t) \in Nat /\ Queued(t) \in Nat
        /\ answered[t] \in Nat /\ submitted[t] \in Nat
    BY HoldersFinite, PositionsFinite, Zenon DEF Running, Queued, TypeOK
  <2>5. answered[t] + Running(t) + Queued(t) + Waiting(t) <= submitted[t]
    BY Zenon DEF CountInv
  <2>6. QED
    BY <2>1, <2>2, <2>3, <2>4, <2>5
<1>5. QED
  BY <1>2, <1>3, <1>4, Zenon

\* and its request enters the channel.
LEMMA SubmitInv ==
    ASSUME IInv, Submit
    PROVE  IInv'
<1> USE DEF IInv
<1>1. /\ calling \in Torrent /\ calling' = None
      /\ Len(requests) < Cardinality(Worker)
      /\ requests \in Seq(Torrent) /\ requests' = Append(requests, calling)
      /\ UNCHANGED <<responses, closed, submitted, pc, job, honest, size, pieces, asked, noise, answered>>
  BY Zenon DEF Submit, download, TypeOK
<1>2. TypeOK'
  <2>1. requests' \in Seq(Torrent) /\ Len(requests') <= Cardinality(Worker)
    BY <1>1, FS_CardinalityType, ConstantsAssumption
  <2>2. QED
    BY <1>1, <2>1, Zenon DEF TypeOK
<1>3. VerifiedInv'
  BY <1>1, Zenon DEF VerifiedInv
<1>4. CountInv'
  <2> SUFFICES ASSUME NEW t \in Torrent
               PROVE  (answered[t] + Running(t) + Queued(t) + Waiting(t) <= submitted[t])'
    BY Zenon DEF CountInv
  <2>1. UNCHANGED <<answered[t], Running(t), submitted[t]>>
    BY <1>1, Zenon DEF Running
  <2>2. Waiting(t) = (IF calling = t THEN 1 ELSE 0) /\ Waiting(t)' = 0
    BY <1>1, ConstantsAssumption, Zenon DEF Waiting
  <2>3. Queued(t)' = Queued(t) + IF calling = t THEN 1 ELSE 0
    <3>1. Cardinality(Positions(Append(requests, calling), t)) =
          Cardinality(Positions(requests, t)) + IF calling = t THEN 1 ELSE 0
      BY <1>1, PositionsAppend, Zenon
    <3>2. QED
      BY <1>1, <3>1, Zenon DEF Queued
  <2>4. /\ Running(t) \in Nat /\ Queued(t) \in Nat
        /\ answered[t] \in Nat /\ submitted[t] \in Nat
    BY HoldersFinite, PositionsFinite, Zenon DEF Running, Queued, TypeOK
  <2>5. answered[t] + Running(t) + Queued(t) + Waiting(t) <= submitted[t]
    BY Zenon DEF CountInv
  <2>6. QED
    BY <2>1, <2>2, <2>3, <2>4, <2>5
<1>5. QED
  BY <1>2, <1>3, <1>4, Zenon

\* The application receives a response.
LEMMA ResponseInv ==
    ASSUME IInv, Response
    PROVE  IInv'
<1> USE DEF IInv
<1>1. /\ responses # <<>> /\ responses' = Tail(responses)
      /\ UNCHANGED <<calling, requests, closed, submitted, pc, job, honest, size, pieces, asked, noise, answered>>
  BY Zenon DEF Response, download
<1>2. /\ responses' \in Seq({Whole(t) : t \in Torrent})
      /\ Len(responses') = Len(responses) - 1 /\ Len(responses) \in Nat
  BY <1>1 DEF VerifiedInv
<1>3. TypeOK'
  <2>1. Len(responses') <= RespCap
    BY <1>2, ConstantsAssumption DEF TypeOK
  <2>2. QED
    BY <1>1, <2>1, Zenon DEF TypeOK
<1>4. VerifiedInv'
  BY <1>1, <1>2, Zenon DEF VerifiedInv
<1>5. CountInv'
  BY <1>1, Zenon DEF CountInv, Running, Queued, Waiting
<1>6. QED
  BY <1>3, <1>4, <1>5, Zenon

-----------------------------------------------------------------------------
(***************************************************************************)
(* Theorems                                                                *)
(***************************************************************************)

\* Nothing has been requested.
LEMMA IInvInit == Init => IInv
<1> SUFFICES ASSUME Init PROVE IInv
  OBVIOUS
<1>1. TypeOK
  <2>1. Cardinality(Worker) \in Nat
    BY ConstantsAssumption, FS_CardinalityType, Zenon
  <2>2. closed \in BOOLEAN /\ honest \in [Worker -> BOOLEAN]
    BY Zenon DEF Init
  <2>3. requests \in Seq(Torrent) /\ Len(requests) = 0 /\ Len(responses) = 0
    BY DEF Init
  <2>4. QED
    BY <2>1, <2>2, <2>3, ConstantsAssumption DEF Init, TypeOK
<1>2. VerifiedInv
  BY DEF Init, VerifiedInv
<1>3. CountInv
  <2> SUFFICES ASSUME NEW t \in Torrent
               PROVE  answered[t] + Running(t) + Queued(t) + Waiting(t) <= submitted[t]
    BY Zenon DEF CountInv
  <2>1. Positions(requests, t) = {} /\ Holders(job, t) = {}
    BY ConstantsAssumption DEF Init, Positions, Holders
  <2>2. Running(t) = 0 /\ Queued(t) = 0
    BY <2>1, FS_EmptySet, Zenon DEF Running, Queued
  <2>3. QED
    BY <2>2, ConstantsAssumption DEF Init, Waiting
<1>4. QED
  BY <1>1, <1>2, <1>3, Zenon DEF IInv

\* Each step of the application and of the workers keeps the invariant.
LEMMA IInvNext == IInv /\ [Next]_vars => IInv'
<1> SUFFICES ASSUME IInv, [Next]_vars PROVE IInv'
  OBVIOUS
<1>1. ASSUME NEW t \in Torrent, Request(t)
      PROVE  IInv'
  BY <1>1, RequestInv, Zenon
<1>2. CASE Submit
  BY <1>2, SubmitInv, Zenon
<1>3. CASE Response
  BY <1>3, ResponseInv, Zenon
<1>4. CASE Close
  <2>1. closed' \in BOOLEAN
    BY <1>4, Zenon DEF Close
  <2>2. UNCHANGED <<calling, requests, responses, submitted, pc, job, honest, size, pieces, asked, noise, answered>>
    BY <1>4, Zenon DEF Close, download
  <2>3. QED
    BY <2>1, <2>2, Zenon DEF IInv, TypeOK, VerifiedInv, CountInv, Running, Queued, Waiting
<1>5. ASSUME NEW w \in Worker, WorkerStep(w) \/ RequestPiece(w)
      PROVE  IInv'
  BY <1>5, TakeRequestInv, OtherWorkerStepsInv, Zenon DEF WorkerStep
<1>6. ASSUME NEW w \in Worker, Deliver(w)
      PROVE  IInv'
  BY <1>6, DeliverInv, Zenon
<1>7. ASSUME NEW w \in Worker, ReadMsg(w) \/ ReadOther(w) \/ ReadFails(w)
      PROVE  IInv'
  BY <1>7, ReadInv, Zenon
<1>8. CASE UNCHANGED vars
  <2>1. UNCHANGED <<calling, requests, responses, closed, submitted, pc, job, honest, size, pieces, asked,
                    noise, answered>>
    BY <1>8, Zenon DEF vars, queues, download
  <2>2. QED
    BY <2>1, Zenon DEF IInv, TypeOK, VerifiedInv, CountInv, Running, Queued, Waiting
<1>9. QED
  BY <1>1, <1>2, <1>3, <1>4, <1>5, <1>6, <1>7, <1>8 DEF Next, Terminated

\* The invariant holds from the start.
LEMMA Invariance == Spec => []IInv
  BY IInvInit, IInvNext, PTL DEF Spec

\* Channels, workers and downloads have the types of the code; neither channel
\* holds more than its capacity.
THEOREM TypeCorrect == Spec => []TypeOK
<1>1. IInv => TypeOK
  BY Zenon DEF IInv
<1>2. QED
  BY <1>1, Invariance, PTL

\* download puts nothing into the channel of responses but the whole info part
\* of the torrent that was asked for, for all sizes and blocks that peers send.
THEOREM ResponsesAreWhole == Spec => []ResponsesAreVerified
<1>1. IInv => ResponsesAreVerified
  <2> SUFFICES ASSUME IInv, NEW k \in DOMAIN responses
               PROVE  /\ responses[k].size = Size[responses[k].infohash]
                      /\ \A i \in 0..(PiecesNum(responses[k].size) - 1) : responses[k].data[i] = "good"
    BY Zenon DEF ResponsesAreVerified
  <2>1. PICK t \in Torrent : responses[k] = Whole(t)
    BY DEF IInv, VerifiedInv
  <2>2. QED
    BY <2>1 DEF Whole
<1>2. QED
  BY <1>1, Invariance, PTL

\* For every call of Request there is at most one response: the requests with
\* the caller, in the channel and with the workers are still without one.
THEOREM RequestsAreAnsweredOnce == Spec => []OneResponsePerRequest
<1>1. IInv => OneResponsePerRequest
  <2> SUFFICES ASSUME IInv, NEW t \in Torrent
               PROVE  answered[t] <= submitted[t]
    BY Zenon DEF OneResponsePerRequest
  <2>1. Running(t) \in Nat /\ Queued(t) \in Nat /\ Waiting(t) \in Nat
    BY HoldersFinite, PositionsFinite, Zenon DEF Running, Queued, Waiting, IInv, TypeOK
  <2>2. QED
    BY <2>1 DEF IInv, CountInv, TypeOK
<1>2. QED
  BY <1>1, Invariance, PTL

=============================================================================
