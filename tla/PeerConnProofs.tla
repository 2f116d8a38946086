---------------------------- MODULE PeerConnProofs ----------------------------
(***************************************************************************)
(* Proofs about PeerConn, for any infohashes, extension bits and number of *)
(* pieces, and whatever messages the applications send; and about          *)
(* AllowedFast, for any torrent and any draws.                             *)
(***************************************************************************)
EXTENDS PeerConn, AllowedFast, FiniteSetTheorems, SequenceTheorems, TLAPS

\* The connection carries messages in both directions.
Live == ~cut /\ \A e \in End : open[e]

\* The infohash that the accepting end reads is that of the dialing one.
HashInv ==
    /\ infohash[Dialer] = DialerHash
    /\ hello[Acceptor].hash \in {Zero, DialerHash}
    /\ pc[Acceptor] = "loop" => infohash[Acceptor] = DialerHash

\* The flag v of a receiver becomes w when the messages of s have been handled:
\* the last message about it says so, and without one it is w already.
Becomes(s, on, off, v, w) ==
    /\ (\A i \in DOMAIN s : s[i].type \notin {on, off}) => v = w
    /\ \A i \in DOMAIN s :
        (s[i].type \in {on, off} /\ \A j \in DOMAIN s : s[j].type \in {on, off} => j <= i) =>
            w = (s[i].type = on)

\* Choked and Interested of an end, once the flag it has sent is assigned.
WillBeChoked(e) == IF pending[e] \in {"choke", "unchoke"} THEN pending[e] = "choke" ELSE choked[e]
WillBeInterested(e) ==
    IF pending[e] \in {"interested", "notInterested"} THEN pending[e] = "interested" ELSE interested[e]

FlagsInv ==
    Live =>
      \A e \in End :
        /\ Becomes(channel[Other(e)], "choke", "unchoke", peerChoked[Other(e)], WillBeChoked(e))
        /\ Becomes(channel[Other(e)], "interested", "notInterested",
                   peerInterested[Other(e)], WillBeInterested(e))

\* The pieces that the messages of s announce, and those of rejected requests.
Announced(s) == UNION {Announces(s[k]) : k \in DOMAIN s}
Rejected(s) == {s[k].index : k \in {j \in DOMAIN s : s[j].type = "reject"}}

\* Until an end has received its first message all announcements are on their
\* way to it; it makes its bit field, if at all, from the first message.
PiecesAt(e, o) ==
    /\ Announced(channel[o]) \subseteq announced[e]
    /\ Rejected(channel[o]) \subseteq rejected[e]
    /\ bitfield[o].set \cap Piece \subseteq announced[e]
    /\ pc[o] \in {"start", "wait"} => stage[o] # "message"
    /\ stage[o] # "message" => bitfield[o].bytes = 0
    /\ Live =>
        /\ stage[o] # "message" => announced[e] \subseteq Announced(channel[o])
        /\ bitfield[o].bytes > 0 =>
            announced[e] \ rejected[e] \subseteq bitfield[o].set \cup Announced(channel[o])

PiecesInv == \A e \in End : PiecesAt(e, Other(e))

IInv == TypeOK /\ HashInv /\ FlagsInv /\ PiecesInv

-----------------------------------------------------------------------------
(***************************************************************************)
(* The two ends, and the messages on their way                             *)
(***************************************************************************)

\* A connection has an end and another one.
LEMMA TwoEnds ==
    ASSUME NEW e \in End
    PROVE  /\ Other(e) \in End /\ Other(e) # e /\ Other(Other(e)) = e
           /\ \A x \in End : x = e \/ x = Other(e)
<1>1. \A x \in End : \E o \in End : o # x
  BY ConstantsAssumption DEF End
<1>2. \A x \in End : Other(x) \in End /\ Other(x) # x
  BY <1>1, Zenon DEF Other
<1>3. QED
  BY <1>2, Zenon DEF End

\* The elements of the sequences that a write and a read make.
LEMMA Elements ==
    ASSUME NEW s \in Seq(Message), NEW f \in Message
    PROVE  /\ DOMAIN s = 1..Len(s) /\ Len(s) \in Nat
           /\ Append(s, f) \in Seq(Message)
           /\ DOMAIN Append(s, f) = 1..(Len(s) + 1)
           /\ Append(s, f)[Len(s) + 1] = f
           /\ \A i \in DOMAIN s : Append(s, f)[i] = s[i]
           /\ s # <<>> =>
                /\ Tail(s) \in Seq(Message) /\ Head(s) \in Message /\ Head(s) = s[1]
                /\ Len(s) >= 1 /\ DOMAIN Tail(s) = 1..(Len(s) - 1)
                /\ \A i \in 1..(Len(s) - 1) : Tail(s)[i] = s[i + 1]
<1> HIDE DEF Message
<1>1. QED
  OBVIOUS

\* A message about something else changes nothing,
LEMMA BecomesOther ==
    ASSUME NEW s \in Seq(Message), NEW f \in Message, NEW on, NEW off, NEW v, NEW w,
           f.type \notin {on, off}, Becomes(s, on, off, v, w)
    PROVE  Becomes(Append(s, f), on, off, v, w)
<1>1. \A i \in DOMAIN Append(s, f) :
        Append(s, f)[i].type \in {on, off} => i \in DOMAIN s /\ Append(s, f)[i] = s[i]
  BY Elements
<1>2. \A i \in DOMAIN s : i \in DOMAIN Append(s, f) /\ Append(s, f)[i] = s[i]
  BY Elements
<1>3. QED
  BY <1>1, <1>2, Zenon DEF Becomes

\* one about the flag decides,
LEMMA BecomesSent ==
    ASSUME NEW s \in Seq(Message), NEW f \in Message, NEW on, NEW off, on # off, NEW v
    PROVE  /\ f.type = on => Becomes(Append(s, f), on, off, v, TRUE)
           /\ f.type = off => Becomes(Append(s, f), on, off, v, FALSE)
<1> DEFINE n == Len(s) + 1
<1>1. n \in DOMAIN Append(s, f) /\ Append(s, f)[n] = f
  BY Elements
<1>2. \A i \in DOMAIN Append(s, f) : n <= i => i = n
  BY Elements
<1> HIDE DEF n
<1>3. QED
  BY <1>1, <1>2, Zenon DEF Becomes

\* and the first one is handled.
LEMMA BecomesTail ==
    ASSUME NEW s \in Seq(Message), s # <<>>, NEW on, NEW off, NEW v, NEW w,
           Becomes(s, on, off, v, w), NEW u,
           Head(s).type \in {on, off} => u = (Head(s).type = on),
           Head(s).type \notin {on, off} => u = v
    PROVE  Becomes(Tail(s), on, off, u, w)
<1>1. /\ 1 \in DOMAIN s /\ Head(s) = s[1]
      /\ \A i \in DOMAIN s : i <= 1 => i = 1
      /\ \A i \in DOMAIN Tail(s) : i + 1 \in DOMAIN s /\ Tail(s)[i] = s[i + 1] /\ 1 <= i + 1
      /\ \A i, j \in DOMAIN Tail(s) : j <= i => j + 1 <= i + 1
  BY Elements
<1>2. ASSUME NEW j \in DOMAIN s, j # 1
      PROVE  \E k \in DOMAIN Tail(s) : j = k + 1 /\ s[j] = Tail(s)[k]
  <2>1. j - 1 \in DOMAIN Tail(s) /\ j = (j - 1) + 1 /\ s[j] = Tail(s)[j - 1]
    BY <1>2, Elements
  <2>2. QED
    BY <2>1, Zenon
<1>3. ASSUME NEW i \in DOMAIN Tail(s), Tail(s)[i].type \in {on, off},
             \A j \in DOMAIN Tail(s) : Tail(s)[j].type \in {on, off} => j <= i
      PROVE  w = (Tail(s)[i].type = on)
  <2>1. i + 1 \in DOMAIN s /\ s[i + 1] = Tail(s)[i]
    BY <1>1, Zenon
  <2>2. ASSUME NEW j \in DOMAIN s, s[j].type \in {on, off} PROVE j <= i + 1
    BY <1>1, <1>2, <1>3, <2>2, Zenon
  <2>3. QED
    BY <1>3, <2>1, <2>2, Zenon DEF Becomes
<1>4. ASSUME \A i \in DOMAIN Tail(s) : Tail(s)[i].type \notin {on, off}
      PROVE  u = w
  <2>1. \A i \in DOMAIN s : s[i].type \in {on, off} => i = 1 /\ i <= 1
    BY <1>1, <1>2, <1>4
  <2>2. CASE Head(s).type \in {on, off}
    BY <1>1, <2>1, <2>2, Zenon DEF Becomes
  <2>3. CASE Head(s).type \notin {on, off}
    BY <1>1, <2>1, <2>3, Zenon DEF Becomes
  <2>4. QED
    BY <2>2, <2>3, Zenon
<1>5. QED
  BY <1>3, <1>4, Zenon DEF Becomes

\* What is announced and rejected after a write and after a read.
LEMMA AnnouncedAppend ==
    ASSUME NEW s \in Seq(Message), NEW f \in Message
    PROVE  /\ Announced(Append(s, f)) = Announced(s) \cup Announces(f)
           /\ Rejected(Append(s, f)) =
                Rejected(s) \cup IF f.type = "reject" THEN {f.index} ELSE {}
<1> DEFINE n == Len(s) + 1
<1>1. /\ n \in DOMAIN Append(s, f) /\ Append(s, f)[n] = f
      /\ \A i \in DOMAIN Append(s, f) : i = n \/ i \in DOMAIN s
      /\ \A i \in DOMAIN s : i \in DOMAIN Append(s, f) /\ Append(s, f)[i] = s[i]
  BY Elements
<1> HIDE DEF n
<1>2. QED
  BY <1>1, Zenon DEF Announced, Rejected

\* ReadMsg takes the first message, and with it what it announces or rejects.
LEMMA AnnouncedTail ==
    ASSUME NEW s \in Seq(Message), s # <<>>
    PROVE  /\ Announced(s) = Announces(Head(s)) \cup Announced(Tail(s))
           /\ Rejected(Tail(s)) \subseteq Rejected(s)
           /\ Head(s).type = "reject" => Head(s).index \in Rejected(s)
<1>1. /\ 1 \in DOMAIN s /\ Head(s) = s[1]
      /\ \A i \in DOMAIN Tail(s) : i + 1 \in DOMAIN s /\ Tail(s)[i] = s[i + 1]
  BY Elements
<1>2. ASSUME NEW j \in DOMAIN s, j # 1
      PROVE  \E k \in DOMAIN Tail(s) : s[j] = Tail(s)[k]
  <2>1. j - 1 \in DOMAIN Tail(s) /\ s[j] = Tail(s)[j - 1]
    BY <1>2, Elements
  <2>2. QED
    BY <2>1, Zenon
<1>3. Announced(s) = Announces(Head(s)) \cup Announced(Tail(s))
  BY <1>1, <1>2, Zenon DEF Announced
<1>4. ASSUME NEW x \in Rejected(Tail(s)) PROVE x \in Rejected(s)
  <2>1. PICK k \in DOMAIN Tail(s) : Tail(s)[k].type = "reject" /\ x = Tail(s)[k].index
    BY <1>4, Zenon DEF Rejected
  <2>2. k + 1 \in DOMAIN s /\ s[k + 1].type = "reject" /\ x = s[k + 1].index
    BY <1>1, <2>1, Zenon
  <2>3. QED
    BY <2>2, Zenon DEF Rejected
<1>5. Head(s).type = "reject" => Head(s).index \in Rejected(s)
  BY <1>1, Zenon DEF Rejected
<1>6. QED
  BY <1>3, <1>4, <1>5, Zenon

-----------------------------------------------------------------------------
(***************************************************************************)
(* What the handling of a message changes                                  *)
(***************************************************************************)

\* The fields of messages.
LEMMA MessageFields ==
    /\ 0 \in Piece
    /\ \A f \in Message : f.type \in Type /\ f.index \in Piece /\ f.bits \subseteq Piece
    /\ \A t \in Type : Encode(t) \in {Fields(u) : u \in Type}
<1>1. 0 \in Piece
  BY ConstantsAssumption DEF Piece
<1>2. \A f \in Message : f.type \in Type /\ f.index \in Piece /\ f.bits \subseteq Piece
  <2> HIDE DEF Type, Piece
  <2>1. QED
    BY DEF Message
<1>3. Fields("keepalive") = {} /\ "keepalive" \in Type
  BY DEF Fields, Type
<1>4. QED
  BY <1>1, <1>2, <1>3, Zenon DEF Encode

\* A message that is written has the fields that it is read with.
LEMMA FrameType ==
    ASSUME NEW t \in Type, NEW i \in Piece, NEW bits \in SUBSET Piece,
           NEW body \in {Fields(u) : u \in Type}
    PROVE  /\ Frame(t, i, bits, body) \in Message
           /\ Frame(t, i, bits, body).type = t
           /\ Frame(t, i, bits, body).index = i
           /\ Frame(t, i, bits, body).bits = bits
<1> HIDE DEF Type, Piece, Fields
<1>1. QED
  BY DEF Frame, Message

\* A message is taken from the channel and perhaps a request is written; the loop
\* goes on or stops.
Reads(e) ==
    /\ channel' \in [End -> Seq(Message)]
    /\ channel'[e] = Tail(channel[e])
    /\ \/ channel'[Other(e)] = channel[Other(e)]
       \/ \E r \in Message : r.type = "request" /\ channel'[Other(e)] = Append(channel[Other(e)], r)
    /\ Continue(e) \/ Stop(e)

\* Handlers that assign nothing but the state of the loop only take the message.
LEMMA TakenReads ==
    ASSUME TypeOK, NEW e \in End, channel[e] # <<>>, channel' = Taken(e), Continue(e) \/ Stop(e)
    PROVE  Reads(e)
<1>1. channel \in [End -> Seq(Message)] /\ channel[e] \in Seq(Message)
  BY Zenon DEF TypeOK
<1>2. Tail(channel[e]) \in Seq(Message)
  BY <1>1, Elements
<1>3. QED
  BY <1>1, <1>2, TwoEnds, Zenon DEF Taken, Reads

\* So does the block handler when it asks for the next block.
LEMMA RequestReads ==
    ASSUME TypeOK, NEW e \in End, channel[e] # <<>>, RequestBlock(e)
    PROVE  Reads(e)
<1> DEFINE r == Frame("request", 0, {}, Encode("request"))
<1>1. channel \in [End -> Seq(Message)] /\ channel[e] \in Seq(Message) /\ channel[Other(e)] \in Seq(Message)
  BY TwoEnds, Zenon DEF TypeOK
<1>2. "request" \in Type
  BY DEF Type
<1>3. r \in Message /\ r.type = "request"
  <2>1. {} \in SUBSET Piece /\ 0 \in Piece /\ Encode("request") \in {Fields(u) : u \in Type}
    BY <1>2, MessageFields, Zenon
  <2>2. QED
    BY <1>2, <2>1, FrameType
<1>4. CASE channel' = Taken(e) /\ (Continue(e) \/ Stop(e))
  BY <1>4, TakenReads, Zenon
<1>5. CASE channel' = [Taken(e) EXCEPT ![Other(e)] = Written(e, r)] /\ Continue(e)
  <2> HIDE DEF r
  <2>1. Tail(channel[e]) \in Seq(Message) /\ Append(channel[Other(e)], r) \in Seq(Message)
    BY <1>1, <1>3, Elements
  <2>2. QED
    BY <1>1, <1>3, <1>5, <2>1, TwoEnds, Zenon DEF Taken, Written, Reads
<1>6. QED
  BY <1>4, <1>5, Zenon DEF RequestBlock

\* What becomes of the bit field of an end.
BitsAfter(e, f) ==
    IF f.type = "have" THEN SetBit(bitfield[e], f.index)
    ELSE IF f.type = "bitfield" THEN [bytes |-> Bytes, set |-> f.bits]
    ELSE IF e = Dialer /\ f.type = "haveAll" THEN FullBitField
    ELSE IF e = Dialer /\ f.type = "reject" THEN UnsetBit(bitfield[e], f.index)
    ELSE bitfield[e]

\* What becomes of its flags about the peer.
FlagAfter(e, f, on, off, old, new) ==
    /\ new \in [End -> BOOLEAN]
    /\ new[Other(e)] = old[Other(e)]
    /\ f.type \in {on, off} => new[e] = (f.type = on)
    /\ f.type \notin {on, off} => new[e] = old[e]

\* The message f is handled at e.
Handles(e, f) ==
    /\ Reads(e)
    /\ InOrder(e, f)
    /\ pc[e] = "loop" /\ open[e]
    /\ UNCHANGED <<local, hello, cut>>
    /\ stage' = [stage EXCEPT ![e] = "message"]
    /\ got' = [got EXCEPT ![e] = TRUE]
    /\ FlagAfter(e, f, "choke", "unchoke", peerChoked, peerChoked')
    /\ FlagAfter(e, f, "interested", "notInterested", peerInterested, peerInterested')
    /\ bitfield' = [bitfield EXCEPT ![e] = BitsAfter(e, f)]
    /\ fasts' \in [End -> SUBSET Piece] /\ suggests' \in [End -> SUBSET Piece]
    /\ extended' \in [End -> BOOLEAN]

\* What HandleMessage does, type by type, as the proofs below use it.
LEMMA HandleEffect ==
    ASSUME TypeOK, NEW e \in End, channel[e] # <<>>, HandleMessage(e)
    PROVE  Handles(e, Head(channel[e]))
<1> DEFINE f == Head(channel[e])
<1>1. f \in Message /\ f.index \in Piece
  <2>1. channel[e] \in Seq(Message)
    BY Zenon DEF TypeOK
  <2>2. f \in Message
    BY <2>1, Elements
  <2>3. QED
    BY <2>2, MessageFields, Zenon
<1> HIDE DEF f
<1>2. CASE HandleOther(e, f)
  <2>1. Reads(e)
    BY <1>2, TakenReads, Zenon DEF HandleOther, Handler
  <2>2. /\ f.type \notin {"choke", "unchoke", "interested", "notInterested"}
        /\ f.type \notin {"have", "bitfield"}
        /\ f.type \in {"haveAll", "reject"} => e # Dialer
    BY <1>2, ConstantsAssumption DEF HandleOther
  <2>3. QED
    BY <1>2, <2>1, <2>2, Zenon DEF HandleOther, ReadMsg, Arrived, StageAfter, Handles, BitsAfter, FlagAfter, TypeOK
<1>3. CASE HandleChoke(e, f)
  <2>1. Reads(e)
    BY <1>3, TakenReads, RequestReads, Zenon DEF HandleChoke, Handler
  <2>2. FlagAfter(e, f, "choke", "unchoke", peerChoked, peerChoked')
    <3>1. /\ peerChoked \in [End -> BOOLEAN] /\ Other(e) \in End /\ Other(e) # e
          /\ f.type \in {"choke", "unchoke"}
          /\ peerChoked' = [peerChoked EXCEPT ![e] = f.type = "choke"]
      BY <1>3, TwoEnds, Zenon DEF HandleChoke, TypeOK
    <3>2. QED
      BY <3>1, Zenon DEF FlagAfter
  <2>3. QED
    BY <1>3, <2>1, <2>2, Zenon DEF HandleChoke, ReadMsg, Arrived, StageAfter, Handles, BitsAfter, FlagAfter, TypeOK
<1>4. CASE HandleInterest(e, f)
  <2>1. Reads(e)
    BY <1>4, TakenReads, Zenon DEF HandleInterest, Handler
  <2>2. FlagAfter(e, f, "interested", "notInterested", peerInterested, peerInterested')
    <3>1. /\ peerInterested \in [End -> BOOLEAN] /\ Other(e) \in End /\ Other(e) # e
          /\ f.type \in {"interested", "notInterested"}
          /\ peerInterested' = [peerInterested EXCEPT ![e] = f.type = "interested"]
      BY <1>4, TwoEnds, Zenon DEF HandleInterest, TypeOK
    <3>2. QED
      BY <3>1, Zenon DEF FlagAfter
  <2>3. QED
    BY <1>4, <2>1, <2>2, Zenon DEF HandleInterest, ReadMsg, Arrived, StageAfter, Handles, BitsAfter, FlagAfter, TypeOK
<1>5. CASE HandleHave(e, f)
  <2>1. Reads(e)
    BY <1>5, TakenReads, Zenon DEF HandleHave, Handler
  <2>2. QED
    BY <1>5, <2>1, Zenon DEF HandleHave, ReadMsg, Arrived, StageAfter, Handles, BitsAfter, FlagAfter, TypeOK
<1>6. CASE HandleBitField(e, f)
  <2>1. Reads(e)
    BY <1>6, TakenReads, Zenon DEF HandleBitField, Handler
  <2>2. QED
    BY <1>6, <2>1, Zenon DEF HandleBitField, ReadMsg, Arrived, StageAfter, Handles, BitsAfter, FlagAfter, TypeOK
<1>7. CASE BlockPiece(e, f)
  <2>1. Reads(e)
    BY <1>7, TakenReads, RequestReads, Zenon DEF BlockPiece
  <2>2. QED
    BY <1>7, <2>1, Zenon DEF BlockPiece, ReadMsg, Arrived, StageAfter, Handles, BitsAfter, FlagAfter, TypeOK
<1>8. CASE BlockHaveAll(e, f)
  <2>1. Reads(e)
    BY <1>8, TakenReads, Zenon DEF BlockHaveAll, Handler
  <2>2. QED
    BY <1>8, <2>1, Zenon DEF BlockHaveAll, ReadMsg, Arrived, StageAfter, Handles, BitsAfter, FlagAfter, TypeOK
<1>9. CASE BlockReject(e, f)
  <2>1. Reads(e)
    BY <1>9, RequestReads, Zenon DEF BlockReject
  <2>2. QED
    BY <1>9, <2>1, Zenon DEF BlockReject, ReadMsg, Arrived, StageAfter, Handles, BitsAfter, FlagAfter, TypeOK
<1>10. CASE HandleFast(e, f)
  <2>1. Reads(e)
    BY <1>10, TakenReads, Zenon DEF HandleFast, Handler
  <2>2. fasts' \in [End -> SUBSET Piece] /\ suggests' \in [End -> SUBSET Piece]
    <3>1. fasts \in [End -> SUBSET Piece] /\ suggests \in [End -> SUBSET Piece]
      BY Zenon DEF TypeOK
    <3>2. QED
      BY <1>1, <1>10, <3>1 DEF HandleFast, AppendPiece
  <2>3. QED
    BY <1>10, <2>1, <2>2, Zenon DEF HandleFast, ReadMsg, Arrived, StageAfter, Handles, BitsAfter, FlagAfter, TypeOK
<1>11. CASE HandleExtended(e, f)
  <2>1. Reads(e)
    BY <1>11, TakenReads, Zenon DEF HandleExtended, Handler
  <2>2. QED
    BY <1>11, <2>1, Zenon DEF HandleExtended, ReadMsg, Arrived, StageAfter, Handles, BitsAfter, FlagAfter, TypeOK
<1>12. QED
  BY <1>2, <1>3, <1>4, <1>5, <1>6, <1>7, <1>8, <1>9, <1>10, <1>11, Zenon DEF HandleMessage, f

-----------------------------------------------------------------------------
(***************************************************************************)
(* The handling of a message keeps the invariant                           *)
(***************************************************************************)

BitFields == [bytes : {0, Bytes}, set : SUBSET (0..(8 * Bytes - 1))]

\* The last piece has a bit in the last byte.
LEMMA BytesFacts ==
    /\ Bytes \in Nat /\ Bytes > 0
    /\ \A i \in Piece : i \div 8 < Bytes /\ i \in 0..(8 * Bytes - 1)
  BY ConstantsAssumption DEF Bytes, Piece

\* No bit is set of a piece that was not announced; and once the end has a bit
\* field the announcements that are handled are in it.
LEMMA BitsEffect ==
    ASSUME NEW e \in End, NEW f \in Message, bitfield[e] \in BitFields, InOrder(e, f),
           stage[e] # "message" => bitfield[e].bytes = 0
    PROVE  /\ BitsAfter(e, f) \in BitFields
           /\ BitsAfter(e, f).set \cap Piece \subseteq bitfield[e].set \cup Announces(f)
           /\ BitsAfter(e, f).bytes > 0 =>
                \/ /\ bitfield[e].bytes > 0
                   /\ \A i \in bitfield[e].set \cup Announces(f) :
                        i \in BitsAfter(e, f).set \/ (f.type = "reject" /\ i = f.index)
                \/ stage[e] # "message" /\ Announces(f) \subseteq BitsAfter(e, f).set
<1> DEFINE b == bitfield[e]
<1> DEFINE S == 0..(8 * Bytes - 1)
<1>1. f.index \in Piece /\ f.bits \subseteq Piece /\ Piece \subseteq S /\ f.index \div 8 < Bytes
  BY BytesFacts, MessageFields
<1>2. b = [bytes |-> b.bytes, set |-> b.set] /\ b.bytes \in {0, Bytes} /\ b.set \subseteq S
  BY DEF BitFields
<1> HIDE DEF b, S
<1>3. CASE f.type = "have"
  <2>1. PICK x \in {b.set, b.set \cup {f.index}} :
            /\ SetBit(b, f.index) = [bytes |-> b.bytes, set |-> x]
            /\ f.index \div 8 < b.bytes => x = b.set \cup {f.index}
    <3>1. CASE f.index \div 8 < b.bytes
      BY <1>2, <3>1 DEF SetBit
    <3>2. CASE ~(f.index \div 8 < b.bytes)
      BY <1>2, <3>2 DEF SetBit
    <3>3. QED
      BY <3>1, <3>2, Zenon
  <2>2. Announces(f) = {f.index} /\ BitsAfter(e, f) = SetBit(b, f.index)
    BY <1>3, Zenon DEF Announces, BitsAfter, b
  <2>3. b.bytes > 0 => x = b.set \cup {f.index}
    BY <1>1, <1>2, <2>1
  <2>4. x \subseteq S /\ x \subseteq b.set \cup {f.index}
    BY <1>1, <1>2, Zenon
  <2>5. SetBit(b, f.index) \in BitFields /\ SetBit(b, f.index).bytes = b.bytes /\ SetBit(b, f.index).set = x
    BY <1>2, <2>1, <2>4 DEF BitFields, S
  <2>6. QED
    BY <2>2, <2>3, <2>4, <2>5, Zenon DEF b
<1>4. CASE f.type = "bitfield"
  <2>1. Announces(f) = f.bits /\ BitsAfter(e, f) = [bytes |-> Bytes, set |-> f.bits] /\ stage[e] # "message"
    BY <1>4, Zenon DEF Announces, BitsAfter, InOrder
  <2>2. f.bits \in SUBSET S
    BY <1>1, Zenon
  <2>3. BitsAfter(e, f) \in BitFields /\ BitsAfter(e, f).set = f.bits
    BY <2>1, <2>2 DEF BitFields, S
  <2>4. QED
    BY <2>1, <2>3, Zenon
<1>5. CASE f.type = "haveAll"
  <2>1. Announces(f) = Piece /\ stage[e] # "message" /\ b.bytes = 0
    BY <1>5, Zenon DEF Announces, InOrder, b
  <2>2. CASE e = Dialer
    <3>1. BitsAfter(e, f) = FullBitField
      BY <1>5, <2>2, Zenon DEF BitsAfter
    <3>2. FullBitField.set = S /\ FullBitField \in BitFields
      BY BytesFacts DEF FullBitField, S, BitFields
    <3>3. QED
      BY <1>1, <2>1, <3>1, <3>2, Zenon
  <2>3. CASE e # Dialer
    <3>1. BitsAfter(e, f) = b
      BY <1>5, <2>3, Zenon DEF BitsAfter, b
    <3>2. ~(b.bytes > 0)
      BY <2>1
    <3>3. QED
      BY <3>1, <3>2, Zenon DEF b
  <2>4. QED
    BY <2>2, <2>3, Zenon
<1>6. CASE f.type = "reject" /\ e = Dialer
  <2>1. /\ UnsetBit(b, f.index).bytes = b.bytes /\ UnsetBit(b, f.index).set = b.set \ {f.index}
        /\ UnsetBit(b, f.index) = [bytes |-> b.bytes, set |-> b.set \ {f.index}]
    BY <1>2 DEF UnsetBit
  <2>2. Announces(f) = {} /\ BitsAfter(e, f) = UnsetBit(b, f.index)
    BY <1>6, Zenon DEF Announces, BitsAfter, b
  <2>3. UnsetBit(b, f.index) \in BitFields
    BY <1>2, <2>1 DEF BitFields, S
  <2>4. QED
    BY <1>6, <2>1, <2>2, <2>3, Zenon DEF b
<1>7. CASE f.type \notin {"have", "bitfield", "haveAll"} /\ ~(f.type = "reject" /\ e = Dialer)
  <2>1. Announces(f) = {} /\ BitsAfter(e, f) = b
    BY <1>7, Zenon DEF Announces, BitsAfter, b
  <2>2. QED
    BY <2>1, Zenon DEF b
<1>8. QED
  BY <1>3, <1>4, <1>5, <1>6, <1>7, Zenon

\* The channels are sequences of messages.
LEMMA ChannelTypes ==
    ASSUME TypeOK, NEW e \in End
    PROVE  channel[e] \in Seq(Message) /\ channel[Other(e)] \in Seq(Message)
  BY TwoEnds, Zenon DEF TypeOK

\* The effect of a message keeps the types,
LEMMA HandleTypes ==
    ASSUME IInv, NEW e \in End, channel[e] # <<>>, Handles(e, Head(channel[e]))
    PROVE  TypeOK'
<1> DEFINE f == Head(channel[e])
<1>1. f \in Message
  BY ChannelTypes, Elements DEF IInv
<1> HIDE DEF f
<1>2. Handles(e, f)
  BY Zenon DEF f
<1>3. bitfield' \in [End -> BitFields]
  <2>1. bitfield \in [End -> BitFields] /\ (stage[e] # "message" => bitfield[e].bytes = 0)
    BY TwoEnds, Zenon DEF IInv, TypeOK, PiecesInv, PiecesAt, BitFields
  <2>2. BitsAfter(e, f) \in BitFields
    BY <1>1, <1>2, <2>1, BitsEffect, Zenon DEF Handles
  <2>3. QED
    BY <1>2, <2>1, <2>2, Zenon DEF Handles
<1>4. /\ peerChoked' \in [End -> BOOLEAN] /\ peerInterested' \in [End -> BOOLEAN]
      /\ got' \in [End -> BOOLEAN]
      /\ stage' \in [End -> {"connected", "handshook", "message"}]
  BY <1>2, Zenon DEF IInv, TypeOK, Handles, FlagAfter
<1>5. /\ pc' \in [End -> {"start", "wait", "loop", "done"}]
      /\ open' \in [End -> BOOLEAN] /\ told' \in [End -> BOOLEAN]
  BY <1>2, Zenon DEF IInv, TypeOK, Handles, Reads, Continue, Stop, loop
<1>6. /\ channel' \in [End -> Seq(Message)] /\ UNCHANGED <<local, hello, cut>>
      /\ fasts' \in [End -> SUBSET Piece] /\ suggests' \in [End -> SUBSET Piece]
      /\ extended' \in [End -> BOOLEAN]
  BY <1>2, Zenon DEF Handles, Reads
<1>7. QED
  BY <1>3, <1>4, <1>5, <1>6, Zenon DEF IInv, TypeOK, local, BitFields

\* When the end handles a message and goes on, nothing was lost before.
LEMMA HandleLive ==
    ASSUME IInv, NEW e \in End, Handles(e, Head(channel[e])), Live'
    PROVE  Live /\ UNCHANGED <<pc, open>>
<1>1. Continue(e) \/ Stop(e)
  BY Zenon DEF Handles, Reads
<1>2. ~Stop(e)
  BY Zenon DEF Stop, Live, IInv, TypeOK
<1>3. QED
  BY <1>1, <1>2, Zenon DEF Continue, loop, Live, Handles

\* the agreement about the flags,
LEMMA HandleFlags ==
    ASSUME IInv, NEW e \in End, channel[e] # <<>>, Handles(e, Head(channel[e]))
    PROVE  FlagsInv'
<1> DEFINE f == Head(channel[e])
<1> DEFINE o == Other(e)
<1> SUFFICES ASSUME Live', NEW x \in End
             PROVE  /\ Becomes(channel'[Other(x)], "choke", "unchoke", peerChoked'[Other(x)], WillBeChoked(x)')
                    /\ Becomes(channel'[Other(x)], "interested", "notInterested",
                               peerInterested'[Other(x)], WillBeInterested(x)')
  BY Zenon DEF FlagsInv
<1> HIDE DEF f, o
<1>1. o \in End /\ o # e /\ Other(o) = e /\ (x = e \/ x = o) /\ o = Other(e)
  BY TwoEnds, Zenon DEF o
<1>2. Handles(e, f)
  BY Zenon DEF f
<1>3. /\ Becomes(channel[o], "choke", "unchoke", peerChoked[o], WillBeChoked(e))
      /\ Becomes(channel[o], "interested", "notInterested", peerInterested[o], WillBeInterested(e))
      /\ Becomes(channel[e], "choke", "unchoke", peerChoked[e], WillBeChoked(o))
      /\ Becomes(channel[e], "interested", "notInterested", peerInterested[e], WillBeInterested(o))
  BY <1>1, HandleLive, Zenon DEF IInv, FlagsInv
<1>4. /\ UNCHANGED <<WillBeChoked(e), WillBeChoked(o), WillBeInterested(e), WillBeInterested(o)>>
      /\ FlagAfter(e, f, "choke", "unchoke", peerChoked, peerChoked')
      /\ FlagAfter(e, f, "interested", "notInterested", peerInterested, peerInterested')
  BY <1>2, Zenon DEF Handles, WillBeChoked, WillBeInterested, local
<1>5. channel[e] \in Seq(Message) /\ channel[o] \in Seq(Message)
  BY ChannelTypes, Zenon DEF IInv, o
<1>6. CASE x = o
  <2>1. channel'[e] = Tail(channel[e]) /\ f = Head(channel[e])
    BY <1>2, Zenon DEF Handles, Reads, f
  <2>2. Becomes(Tail(channel[e]), "choke", "unchoke", peerChoked'[e], WillBeChoked(o))
    BY <1>3, <1>4, <1>5, <2>1, BecomesTail, Zenon DEF FlagAfter
  <2>3. Becomes(Tail(channel[e]), "interested", "notInterested", peerInterested'[e], WillBeInterested(o))
    BY <1>3, <1>4, <1>5, <2>1, BecomesTail, Zenon DEF FlagAfter
  <2>4. QED
    BY <1>1, <1>4, <1>6, <2>1, <2>2, <2>3, Zenon
<1>7. CASE x = e
  <2>1. CASE channel'[o] = channel[o]
    BY <1>1, <1>3, <1>4, <1>7, <2>1, Zenon DEF FlagAfter
  <2>2. CASE \E r \in Message : r.type = "request" /\ channel'[o] = Append(channel[o], r)
    <3>1. PICK r \in Message : r.type = "request" /\ channel'[o] = Append(channel[o], r)
      BY <2>2, Zenon
    <3>2. r.type \notin {"choke", "unchoke"} /\ r.type \notin {"interested", "notInterested"}
      BY <3>1, Zenon
    <3>3. /\ Becomes(Append(channel[o], r), "choke", "unchoke", peerChoked[o], WillBeChoked(e))
          /\ Becomes(Append(channel[o], r), "interested", "notInterested",
                     peerInterested[o], WillBeInterested(e))
      BY <1>3, <1>5, <3>2, BecomesOther, Zenon
    <3>4. QED
      BY <1>1, <1>4, <1>7, <3>1, <3>3, Zenon DEF FlagAfter
  <2>3. QED
    BY <1>1, <1>2, <2>1, <2>2, Zenon DEF Handles, Reads
<1>8. QED
  BY <1>1, <1>6, <1>7, Zenon

\* and that of the bit field with what was announced.
LEMMA HandlePieces ==
    ASSUME IInv, NEW e \in End, channel[e] # <<>>, Handles(e, Head(channel[e]))
    PROVE  PiecesInv'
<1> DEFINE f == Head(channel[e])
<1> DEFINE o == Other(e)
<1>1. f \in Message /\ channel[e] \in Seq(Message) /\ channel[o] \in Seq(Message)
  BY ChannelTypes, Elements DEF IInv
<1> HIDE DEF f, o
<1>2. o \in End /\ o # e /\ Other(o) = e /\ o = Other(e) /\ (\A x \in End : x = e \/ x = o)
  BY TwoEnds, Zenon DEF o
<1>3. /\ Handles(e, f) /\ channel'[e] = Tail(channel[e]) /\ f = Head(channel[e])
      /\ UNCHANGED <<announced, rejected>>
      /\ bitfield'[e] = BitsAfter(e, f) /\ bitfield'[o] = bitfield[o]
      /\ stage'[e] = "message" /\ stage'[o] = stage[o]
      /\ pc'[o] = pc[o] /\ pc'[e] \in {"loop", "done"}
  <2>1. Handles(e, f) /\ f = Head(channel[e])
    BY Zenon DEF f
  <2>2. pc'[o] = pc[o] /\ pc'[e] \in {"loop", "done"}
    BY <1>2, <2>1, Zenon DEF Handles, Reads, Continue, Stop, loop, IInv, TypeOK
  <2>3. QED
    BY <1>2, <2>1, <2>2, Zenon DEF Handles, Reads, local, IInv, TypeOK
<1>4. PiecesAt(o, e) /\ PiecesAt(e, o)
  BY <1>2, Zenon DEF PiecesInv, IInv
<1>5. Live' => Live
  BY HandleLive, Zenon
\* The messages to the end that handles one,
<1>6. PiecesAt(o, e)'
  <2>1. /\ Announced(channel[e]) = Announces(f) \cup Announced(channel'[e])
        /\ Rejected(channel'[e]) \subseteq Rejected(channel[e])
        /\ f.type = "reject" => f.index \in Rejected(channel[e])
    BY <1>1, <1>3, AnnouncedTail, Zenon
  <2>2. /\ BitsAfter(e, f).set \cap Piece \subseteq bitfield[e].set \cup Announces(f)
        /\ BitsAfter(e, f).bytes > 0 =>
            \/ /\ bitfield[e].bytes > 0
               /\ \A i \in bitfield[e].set \cup Announces(f) :
                    i \in BitsAfter(e, f).set \/ (f.type = "reject" /\ i = f.index)
            \/ stage[e] # "message" /\ Announces(f) \subseteq BitsAfter(e, f).set
    <3>1. bitfield[e] \in BitFields
      BY Zenon DEF IInv, TypeOK, BitFields
    <3>2. InOrder(e, f) /\ (stage[e] # "message" => bitfield[e].bytes = 0)
      BY <1>2, <1>3, <1>4, Zenon DEF Handles, PiecesAt
    <3>3. QED
      BY <1>1, <3>1, <3>2, BitsEffect, Zenon
  <2>3. announced[o] \subseteq Piece
    BY <1>2, Zenon DEF IInv, TypeOK
  <2>4. /\ Announced(channel'[e]) \subseteq announced[o]
        /\ Rejected(channel'[e]) \subseteq rejected[o]
        /\ bitfield'[e].set \cap Piece \subseteq announced[o]
    BY <1>2, <1>3, <1>4, <2>1, <2>2, Zenon DEF PiecesAt
  <2>5. (Live' /\ bitfield'[e].bytes > 0) =>
            announced[o] \ rejected[o] \subseteq bitfield'[e].set \cup Announced(channel'[e])
    <3> SUFFICES ASSUME Live', bitfield'[e].bytes > 0, NEW i \in announced[o] \ rejected[o]
                 PROVE  i \in bitfield'[e].set \cup Announced(channel'[e])
      BY Zenon
    <3>1. /\ f.type = "reject" => i # f.index
          /\ bitfield[e].bytes > 0 => i \in bitfield[e].set \cup Announced(channel[e])
          /\ stage[e] # "message" => i \in Announced(channel[e])
      BY <1>2, <1>4, <1>5, <2>1, Zenon DEF PiecesAt
    <3>2. QED
      BY <1>3, <2>1, <2>2, <3>1, Zenon
  <2>6. QED
    BY <1>2, <1>3, <2>4, <2>5, Zenon DEF PiecesAt
\* and those to the other one.
<1>7. PiecesAt(e, o)'
  <2>1. /\ Announced(channel'[o]) = Announced(channel[o])
        /\ Rejected(channel'[o]) = Rejected(channel[o])
    <3>1. CASE channel'[o] = channel[o]
      BY <3>1, Zenon
    <3>2. CASE \E r \in Message : r.type = "request" /\ channel'[o] = Append(channel[o], r)
      <4>1. PICK r \in Message : r.type = "request" /\ channel'[o] = Append(channel[o], r)
        BY <3>2, Zenon
      <4>2. Announces(r) = {} /\ r.type # "reject"
        BY <4>1, Zenon DEF Announces
      <4>3. QED
        <5>1. /\ Announced(Append(channel[o], r)) = Announced(channel[o]) \cup Announces(r)
              /\ Rejected(Append(channel[o], r)) =
                    Rejected(channel[o]) \cup IF r.type = "reject" THEN {r.index} ELSE {}
          BY <1>1, AnnouncedAppend, Zenon
        <5>2. QED
          BY <4>1, <4>2, <5>1, Zenon
    <3>3. \/ channel'[o] = channel[o]
          \/ \E r \in Message : r.type = "request" /\ channel'[o] = Append(channel[o], r)
      BY <1>3, Zenon DEF Handles, Reads, o
    <3>4. QED
      BY <3>1, <3>2, <3>3, Zenon
  <2>2. /\ Announced(channel'[o]) \subseteq announced[e]
        /\ Rejected(channel'[o]) \subseteq rejected[e]
        /\ bitfield[o].set \cap Piece \subseteq announced[e]
        /\ pc[o] \in {"start", "wait"} => stage[o] # "message"
        /\ stage[o] # "message" => bitfield[o].bytes = 0
        /\ Live' =>
            /\ stage[o] # "message" => announced[e] \subseteq Announced(channel'[o])
            /\ bitfield[o].bytes > 0 =>
                announced[e] \ rejected[e] \subseteq bitfield[o].set \cup Announced(channel'[o])
    BY <1>4, <1>5, <2>1, Zenon DEF PiecesAt, o
  <2>3. QED
    BY <1>3, <2>2, Zenon DEF PiecesAt, o
<1>8. QED
  BY <1>2, <1>6, <1>7, Zenon DEF PiecesInv

\* The handling of a message changes neither infohashes nor what was said of them.
LEMMA HandleInv ==
    ASSUME IInv, NEW e \in End, channel[e] # <<>>, HandleMessage(e)
    PROVE  IInv'
<1>1. Handles(e, Head(channel[e]))
  BY HandleEffect, Zenon DEF IInv
<1>2. HashInv'
  <2>1. pc'[Acceptor] = "loop" => pc[Acceptor] = "loop"
    BY <1>1, Zenon DEF Handles, Reads, Continue, Stop, loop, IInv, TypeOK, End
  <2>2. QED
    BY <1>1, <2>1, Zenon DEF Handles, local, IInv, HashInv
<1>3. QED
  BY <1>1, <1>2, HandleTypes, HandleFlags, HandlePieces, Zenon DEF IInv

-----------------------------------------------------------------------------
(***************************************************************************)
(* The other steps                                                         *)
(***************************************************************************)

\* A step that neither sends nor receives about flags,
LEMMA QuietFlags ==
    ASSUME FlagsInv, Live' => Live,
           UNCHANGED <<channel, peerChoked, peerInterested, choked, interested, pending>>
    PROVE  FlagsInv'
  BY Zenon DEF FlagsInv, WillBeChoked, WillBeInterested

\* and one that neither sends nor receives about pieces.
LEMMA QuietPieces ==
    ASSUME PiecesInv, Live' => Live,
           UNCHANGED <<channel, announced, rejected, bitfield>>,
           \A e \in End : stage'[e] = "message" <=> stage[e] = "message",
           \A e \in End : pc'[e] \in {"start", "wait"} => pc[e] \in {"start", "wait"}
    PROVE  PiecesInv'
<1> SUFFICES ASSUME NEW e \in End PROVE PiecesAt(e, Other(e))'
  BY Zenon DEF PiecesInv
<1> DEFINE o == Other(e)
<1>1. PiecesAt(e, o) /\ o \in End
  BY TwoEnds, Zenon DEF PiecesInv
<1>2. /\ pc'[o] \in {"start", "wait"} => stage'[o] # "message"
      /\ stage'[o] # "message" => bitfield[o].bytes = 0
      /\ Live' =>
          /\ stage'[o] # "message" => announced[e] \subseteq Announced(channel[o])
          /\ bitfield[o].bytes > 0 =>
              announced[e] \ rejected[e] \subseteq bitfield[o].set \cup Announced(channel[o])
  BY <1>1, Zenon DEF PiecesAt
<1>3. /\ Announced(channel[o]) \subseteq announced[e]
      /\ Rejected(channel[o]) \subseteq rejected[e]
      /\ bitfield[o].set \cap Piece \subseteq announced[e]
  BY <1>1, Zenon DEF PiecesAt
<1>4. QED
  BY <1>2, <1>3, Zenon DEF PiecesAt

\* The end of an end: nothing is carried from then on.
LEMMA Ended ==
    ASSUME TypeOK, NEW e \in End, Stop(e) \/ Refuse(e)
    PROVE  /\ ~Live'
           /\ pc' \in [End -> {"start", "wait", "loop", "done"}]
           /\ open' \in [End -> BOOLEAN] /\ told' \in [End -> BOOLEAN]
           /\ \A x \in End : pc'[x] = "done" \/ pc'[x] = pc[x]
  BY Zenon DEF TypeOK, Stop, Refuse, Live

\* An end that returns takes nothing from the invariant.
LEMMA EndInv ==
    ASSUME IInv, NEW e \in End, Stop(e) \/ Refuse(e), UNCHANGED <<local, remote, wire>>
    PROVE  IInv'
<1> USE DEF IInv
<1>1. TypeOK'
  BY Ended, Zenon DEF TypeOK, local, remote, wire
<1>2. HashInv'
  BY Ended, Zenon DEF HashInv, local, wire, End
<1>3. FlagsInv'
  BY Ended, Zenon DEF FlagsInv
<1>4. PiecesInv'
  BY Ended, QuietPieces, Zenon DEF local, remote, wire
<1>5. QED
  BY <1>1, <1>2, <1>3, <1>4, Zenon

\* The first half of Handshake: the end tells its infohash and extension bits.
LEMMA WriteHelloInv ==
    ASSUME IInv, NEW e \in End, WriteHello(e)
    PROVE  IInv'
<1> USE DEF IInv
<1>1. CASE Refuse(e) /\ UNCHANGED hello
  BY <1>1, EndInv, Zenon DEF WriteHello, wire
<1>2. CASE /\ hello' = [hello EXCEPT ![Other(e)] = [hash |-> infohash[e]]]
           /\ pc' = [pc EXCEPT ![e] = "wait"]
           /\ UNCHANGED <<open, told>>
  <2>1. pc[e] = "start" /\ UNCHANGED <<local, remote, channel, cut>>
    BY Zenon DEF WriteHello
  <2>2. [hash |-> infohash[e]] \in [hash : Hash \cup {Zero}] /\ [hash |-> infohash[e]].hash = infohash[e]
    BY DEF TypeOK
  <2>3. TypeOK'
    BY <1>2, <2>1, <2>2, Zenon DEF TypeOK, local, remote
  <2>4. HashInv'
    BY <1>2, <2>1, <2>2, TwoEnds, Zenon DEF HashInv, TypeOK, local, End
  <2>5. FlagsInv'
    BY <1>2, <2>1, QuietFlags, Zenon DEF local, remote, Live
  <2>6. PiecesInv'
    BY <1>2, <2>1, QuietPieces, Zenon DEF local, remote, Live, TypeOK
  <2>7. QED
    BY <2>3, <2>4, <2>5, <2>6, Zenon
<1>3. QED
  BY <1>1, <1>2, Zenon DEF WriteHello

\* The second half: the peer's infohash is accepted, taken over or refused.
LEMMA ReadHelloInv ==
    ASSUME IInv, NEW e \in End, ReadHello(e)
    PROVE  IInv'
<1> USE DEF IInv
<1>1. /\ pc[e] \in {"start", "wait"} /\ hello[e] # NoHello
      /\ hello' = [hello EXCEPT ![e] = NoHello,
                                ![Other(e)] = IF infohash[e] = Zero THEN hello[e] ELSE @]
      /\ UNCHANGED <<extBits, choked, interested, pending, sent, announced, rejected>>
      /\ UNCHANGED <<peerChoked, peerInterested, bitfield, fasts, suggests, extended, got>>
      /\ UNCHANGED <<channel, cut>>
  BY Zenon DEF ReadHello, WaitsForHello
<1>2. \/ UNCHANGED <<infohash, stage>> /\ Refuse(e)
      \/ /\ Accepts(e, hello[e].hash)
         /\ infohash' = [infohash EXCEPT ![e] = IF @ = Zero THEN hello[e].hash ELSE @]
         /\ stage' = [stage EXCEPT ![e] = "handshook"]
         /\ \/ pc' = [pc EXCEPT ![e] = "loop"] /\ UNCHANGED <<open, told>>
            \/ Refuse(e)
  BY Zenon DEF ReadHello
<1>3. /\ hello[e].hash \in Hash \cup {Zero} /\ hello[e].hash # Zero
      /\ NoHello \in [hash : Hash \cup {Zero}] /\ NoHello.hash = Zero
  <2>1. hello[e] \in [hash : Hash \cup {Zero}]
    BY Zenon DEF TypeOK
  <2>2. QED
    BY <1>1, <2>1 DEF NoHello
<1>4. /\ hello' \in [End -> [hash : Hash \cup {Zero}]]
      /\ hello'[e] = NoHello
      /\ hello'[Other(e)] = IF infohash[e] = Zero THEN hello[e] ELSE hello[Other(e)]
  <2>1. /\ hello \in [End -> [hash : Hash \cup {Zero}]] /\ hello[e] \in [hash : Hash \cup {Zero}]
        /\ Other(e) \in End /\ Other(e) # e
    BY TwoEnds, Zenon DEF TypeOK
  <2>2. QED
    BY <1>1, <1>3, <2>1, Zenon
<1>5. /\ infohash' \in [End -> Hash \cup {Zero}]
      /\ infohash'[Other(e)] = infohash[Other(e)]
      /\ infohash[e] # Zero => infohash'[e] = infohash[e]
      /\ \/ Refuse(e)
         \/ pc' = [pc EXCEPT ![e] = "loop"] /\ UNCHANGED <<open, told>> /\ infohash'[e] = hello[e].hash
  <2>1. infohash \in [End -> Hash \cup {Zero}] /\ Other(e) \in End /\ Other(e) # e
    BY TwoEnds, Zenon DEF TypeOK
  <2>2. CASE UNCHANGED <<infohash, stage>> /\ Refuse(e)
    BY <2>1, <2>2, Zenon
  <2>3. CASE /\ Accepts(e, hello[e].hash)
             /\ infohash' = [infohash EXCEPT ![e] = IF @ = Zero THEN hello[e].hash ELSE @]
    <3>1. infohash' = [infohash EXCEPT ![e] = hello[e].hash]
      BY <2>1, <2>3, Zenon DEF Accepts
    <3>2. infohash[e] # Zero => hello[e].hash = infohash[e]
      BY <2>3, Zenon DEF Accepts
    <3>3. QED
      BY <1>2, <1>3, <2>1, <3>1, <3>2, Zenon
  <2>4. QED
    BY <1>2, <2>2, <2>3, Zenon
<1>6. /\ pc' \in [End -> {"start", "wait", "loop", "done"}]
      /\ open' \in [End -> BOOLEAN] /\ told' \in [End -> BOOLEAN]
      /\ \A x \in End : pc'[x] \in {"start", "wait"} => pc[x] \in {"start", "wait"}
      /\ pc'[Other(e)] = pc[Other(e)]
      /\ Live' => Live
  <2>1. CASE Refuse(e)
    BY <1>1, <2>1, Ended, TwoEnds, Zenon DEF Refuse, TypeOK
  <2>2. CASE pc' = [pc EXCEPT ![e] = "loop"] /\ UNCHANGED <<open, told>>
    BY <1>1, <2>2, TwoEnds, Zenon DEF TypeOK, Live
  <2>3. QED
    BY <1>5, <2>1, <2>2, Zenon
<1>7. /\ stage' \in [End -> {"connected", "handshook", "message"}]
      /\ \A x \in End : stage'[x] = "message" <=> stage[x] = "message"
  <2>1. stage[e] # "message"
    BY <1>1, TwoEnds, Zenon DEF PiecesInv, PiecesAt
  <2>2. QED
    BY <1>2, <2>1, Zenon DEF TypeOK
<1>8. TypeOK'
  BY <1>1, <1>4, <1>5, <1>6, <1>7, Zenon DEF TypeOK
<1>9. HashInv'
  <2>1. CASE e = Acceptor
    <3>1. hello[e].hash = DialerHash /\ Other(e) = Dialer
      BY <1>3, <2>1, TwoEnds, Zenon DEF HashInv, End
    <3>2. pc'[e] = "loop" => infohash'[e] = DialerHash
      BY <1>5, <3>1, Zenon DEF Refuse, TypeOK
    <3>3. QED
      BY <1>3, <1>4, <1>5, <2>1, <3>1, <3>2, Zenon DEF HashInv
  <2>2. CASE e = Dialer
    <3>1. infohash[e] # Zero /\ Other(e) = Acceptor
      BY <2>2, ConstantsAssumption, TwoEnds, Zenon DEF HashInv, End
    <3>2. QED
      BY <1>4, <1>5, <1>6, <2>2, <3>1, Zenon DEF HashInv
  <2>3. QED
    BY <2>1, <2>2, Zenon DEF End
<1>10. FlagsInv'
  BY <1>1, <1>6, QuietFlags, Zenon
<1>11. PiecesInv'
  BY <1>1, <1>6, <1>7, QuietPieces, Zenon
<1>12. QED
  BY <1>8, <1>9, <1>10, <1>11, Zenon

\* Reading leaves the other direction alone.
LEMMA ChannelsApart ==
    ASSUME TypeOK, NEW e \in End, channel' = Taken(e), NEW o \in End, o # e
    PROVE  channel'[o] = channel[o]
  BY Zenon DEF TypeOK, Taken

\* A message that is not decoded, comes too late or is not supported ends the loop.
LEMMA BadMsgInv ==
    ASSUME IInv, NEW e \in End, channel[e] # <<>>, BadMsg(e)
    PROVE  IInv'
<1> USE DEF IInv
<1>1. /\ channel' = Taken(e) /\ Stop(e) /\ UNCHANGED <<local, hello, cut>>
      /\ UNCHANGED <<peerChoked, peerInterested, bitfield, fasts, suggests, extended>>
      /\ \/ UNCHANGED <<stage, got>>
         \/ stage' = [stage EXCEPT ![e] = "message"] /\ got' = [got EXCEPT ![e] = TRUE]
      /\ pc[e] = "loop"
  BY Zenon DEF BadMsg, ReadMsg, StageAfter, Arrived
<1>2. Reads(e)
  BY <1>1, TakenReads, Zenon
<1>3. TypeOK'
  BY <1>1, <1>2, Ended, Zenon DEF TypeOK, Reads, local
<1>4. HashInv'
  BY <1>1, Ended, Zenon DEF HashInv, local, End
<1>5. FlagsInv'
  BY <1>1, Ended, Zenon DEF FlagsInv
<1>6. PiecesInv'
  <2> SUFFICES ASSUME NEW x \in End PROVE PiecesAt(x, Other(x))'
    BY Zenon DEF PiecesInv
  <2> DEFINE o == Other(x)
  <2>1. PiecesAt(x, o) /\ o \in End
    BY TwoEnds, Zenon DEF PiecesInv
  <2>2. /\ Announced(channel'[o]) \subseteq Announced(channel[o])
        /\ Rejected(channel'[o]) \subseteq Rejected(channel[o])
    <3>1. CASE o = e
      BY <1>2, <3>1, ChannelTypes, AnnouncedTail, Zenon DEF Reads
    <3>2. CASE o # e
      <4>1. channel'[o] = channel[o]
        BY <1>1, <3>2, ChannelsApart, TwoEnds, Zenon
      <4>2. QED
        BY <4>1, Zenon
    <3>3. QED
      BY <3>1, <3>2, Zenon
  <2>3. ~Live' /\ (pc'[o] \in {"start", "wait"} => o # e /\ pc'[o] = pc[o])
    BY <1>1, <2>1, Ended, Zenon DEF Stop, TypeOK
  <2>4. o # e => stage'[o] = stage[o]
    BY <1>1, <2>1, Zenon DEF TypeOK
  <2>5. stage'[o] # "message" => stage[o] # "message"
    BY <1>1, <2>1, Zenon DEF TypeOK
  <2> HIDE DEF o
  <2>6. QED
    BY <1>1, <2>1, <2>2, <2>3, <2>4, <2>5, Zenon DEF PiecesAt, local, o
<1>7. QED
  BY <1>3, <1>4, <1>5, <1>6, Zenon

\* An end writes a message.
LEMMA WriteEffect ==
    ASSUME IInv, NEW e \in End, NEW f \in Message, channel' = [channel EXCEPT ![Other(e)] = Written(e, f)]
    PROVE  /\ channel' \in [End -> Seq(Message)]
           /\ channel'[e] = channel[e]
           /\ channel'[Other(e)] = Append(channel[Other(e)], f)
           /\ Announced(channel'[Other(e)]) = Announced(channel[Other(e)]) \cup Announces(f)
           /\ Rejected(channel'[Other(e)]) =
                Rejected(channel[Other(e)]) \cup IF f.type = "reject" THEN {f.index} ELSE {}
<1>1. channel \in [End -> Seq(Message)] /\ Other(e) \in End /\ Other(e) # e
  BY TwoEnds, Zenon DEF IInv, TypeOK
<1>2. channel[Other(e)] \in Seq(Message) /\ Append(channel[Other(e)], f) \in Seq(Message)
  BY <1>1, Elements
<1>3. /\ channel' \in [End -> Seq(Message)] /\ channel'[e] = channel[e]
      /\ channel'[Other(e)] = Append(channel[Other(e)], f)
  BY <1>1, <1>2, Zenon DEF Written
<1>4. /\ Announced(Append(channel[Other(e)], f)) = Announced(channel[Other(e)]) \cup Announces(f)
      /\ Rejected(Append(channel[Other(e)], f)) =
            Rejected(channel[Other(e)]) \cup IF f.type = "reject" THEN {f.index} ELSE {}
  BY <1>2, AnnouncedAppend, Zenon
<1>5. QED
  BY <1>3, <1>4, Zenon

\* What is on its way to the end that writes is not touched.
LEMMA WriteOthers ==
    ASSUME IInv, NEW e \in End, channel'[e] = channel[e], Live' => Live,
           announced'[Other(e)] = announced[Other(e)], rejected'[Other(e)] = rejected[Other(e)],
           UNCHANGED <<bitfield, stage, pc>>
    PROVE  PiecesAt(Other(e), e)'
<1> DEFINE o == Other(e)
<1>1. PiecesAt(o, e)
  BY TwoEnds, Zenon DEF IInv, PiecesInv
<1> HIDE DEF o
<1>2. /\ Announced(channel[e]) \subseteq announced[o]
      /\ Rejected(channel[e]) \subseteq rejected[o]
      /\ bitfield[e].set \cap Piece \subseteq announced[o]
      /\ pc[e] \in {"start", "wait"} => stage[e] # "message"
      /\ stage[e] # "message" => bitfield[e].bytes = 0
      /\ Live' =>
          /\ stage[e] # "message" => announced[o] \subseteq Announced(channel[e])
          /\ bitfield[e].bytes > 0 =>
              announced[o] \ rejected[o] \subseteq bitfield[e].set \cup Announced(channel[e])
  BY <1>1, Zenon DEF PiecesAt
<1>3. announced'[o] = announced[o] /\ rejected'[o] = rejected[o]
  BY Zenon DEF o
<1>4. PiecesAt(o, e)'
  BY <1>2, <1>3, Zenon DEF PiecesAt
<1>5. QED
  BY <1>4, Zenon DEF o

\* The pieces that the end itself announces or rejects are on their way.
LEMMA WritePieces ==
    ASSUME IInv, NEW e \in End, NEW f \in Message, UNCHANGED <<bitfield, stage, pc, open, cut>>,
           channel' = [channel EXCEPT ![Other(e)] = Written(e, f)],
           announced' = [announced EXCEPT ![e] = @ \cup Announces(f)],
           rejected' = [rejected EXCEPT ![e] = @ \cup (IF f.type = "reject" THEN {f.index} ELSE {})]
    PROVE  PiecesInv'
<1> DEFINE o == Other(e)
<1> DEFINE A == Announces(f)
<1> DEFINE R == IF f.type = "reject" THEN {f.index} ELSE {}
<1>1. PiecesAt(e, o)
  BY Zenon DEF IInv, PiecesInv
<1>2. /\ o \in End /\ o # e /\ Other(o) = e /\ o = Other(e)
      /\ \A x \in End : x = e \/ x = o
  BY TwoEnds, Zenon
<1>3. /\ announced'[e] = announced[e] \cup A /\ announced'[o] = announced[o]
      /\ rejected'[e] = rejected[e] \cup R /\ rejected'[o] = rejected[o]
  BY <1>2, Zenon DEF IInv, TypeOK
<1>4. /\ channel'[e] = channel[e]
      /\ Announced(channel'[o]) = Announced(channel[o]) \cup A
      /\ Rejected(channel'[o]) = Rejected(channel[o]) \cup R
  BY WriteEffect, Zenon
<1>5. Live' => Live
  BY Zenon DEF Live
<1>6. PiecesAt(o, e)'
  BY <1>3, <1>4, <1>5, WriteOthers, Zenon
<1> HIDE DEF A, R, o
<1>7. /\ Announced(channel'[o]) \subseteq announced'[e]
      /\ Rejected(channel'[o]) \subseteq rejected'[e]
      /\ bitfield[o].set \cap Piece \subseteq announced'[e]
      /\ pc[o] \in {"start", "wait"} => stage[o] # "message"
      /\ stage[o] # "message" => bitfield[o].bytes = 0
  BY <1>1, <1>3, <1>4, Zenon DEF PiecesAt, o
<1>8. Live' =>
          /\ stage[o] # "message" => announced'[e] \subseteq Announced(channel'[o])
          /\ bitfield[o].bytes > 0 =>
              announced'[e] \ rejected'[e] \subseteq bitfield[o].set \cup Announced(channel'[o])
  BY <1>1, <1>3, <1>4, <1>5, Zenon DEF PiecesAt, o
<1>9. PiecesAt(e, o)'
  BY <1>7, <1>8, Zenon DEF PiecesAt, o
<1>10. QED
  BY <1>2, <1>6, <1>9, Zenon DEF PiecesInv

\* The messages of Frames.
LEMMA FramesType ==
    ASSUME NEW e \in End, NEW t \in Sends[e], NEW f \in Frames(t)
    PROVE  f \in Message /\ f.type \notin Flag /\ Announces(f) \subseteq Piece
<1>1. t \in Type /\ t \notin Flag
  BY ConstantsAssumption, Zenon
<1>2. PICK i \in IF t \in {"have", "reject"} THEN Piece ELSE {0},
           bits \in IF t = "bitfield" THEN SUBSET Piece ELSE {{}},
           body \in {Encode(t), Fields(t)} : f = Frame(t, i, bits, body)
  BY DEF Frames
<1>3. i \in Piece /\ bits \in SUBSET Piece /\ body \in {Fields(u) : u \in Type}
  <2>1. i \in Piece
    BY MessageFields, Zenon
  <2>2. bits \in SUBSET Piece
    BY Zenon
  <2>3. body \in {Fields(u) : u \in Type}
    BY <1>1, MessageFields, Zenon
  <2>4. QED
    BY <2>1, <2>2, <2>3, Zenon
<1>4. f \in Message /\ f.type = t
  <2>1. Frame(t, i, bits, body) \in Message /\ Frame(t, i, bits, body).type = t
    BY <1>1, <1>3, FrameType
  <2>2. QED
    BY <1>2, <2>1
<1>5. Announces(f) \subseteq Piece
  BY <1>4, MessageFields, Zenon DEF Announces
<1>6. QED
  BY <1>1, <1>4, <1>5, Zenon

\* The application sends a message of any type.
LEMMA SendInv ==
    ASSUME IInv, NEW e \in End, NEW t \in Sends[e], NEW f \in Frames(t), Send(e, f)
    PROVE  IInv'
<1> DEFINE o == Other(e)
<1>1. /\ sent < MaxSend /\ sent' = sent + 1
      /\ channel' = [channel EXCEPT ![o] = Written(e, f)]
      /\ announced' = [announced EXCEPT ![e] = @ \cup Announces(f)]
      /\ rejected' = [rejected EXCEPT ![e] = @ \cup (IF f.type = "reject" THEN {f.index} ELSE {})]
      /\ UNCHANGED <<infohash, extBits, choked, interested, pending, remote, hello, cut, loop>>
  BY Zenon DEF Send
<1>2. /\ f \in Message /\ f.type \notin Flag /\ Announces(f) \subseteq Piece
      /\ f.index \in Piece
  BY FramesType, MessageFields, Zenon
<1>3. /\ channel' \in [End -> Seq(Message)] /\ channel'[e] = channel[e]
      /\ channel'[o] = Append(channel[o], f)
  BY <1>1, <1>2, WriteEffect, Zenon
<1>4. TypeOK'
  <2>1. sent' \in 0..MaxSend
    <3>1. sent \in 0..MaxSend /\ MaxSend \in Nat
      BY ConstantsAssumption, Zenon DEF IInv, TypeOK
    <3>2. QED
      BY <1>1, <3>1
  <2>2. announced' \in [End -> SUBSET Piece]
    BY <1>1, <1>2, Zenon DEF IInv, TypeOK
  <2>3. rejected' \in [End -> SUBSET Piece]
    BY <1>1, <1>2, Zenon DEF IInv, TypeOK
  <2>4. QED
    BY <1>1, <1>3, <2>1, <2>2, <2>3, Zenon DEF IInv, TypeOK, remote, loop
<1>5. HashInv'
  BY <1>1, Zenon DEF IInv, HashInv, loop
<1>6. FlagsInv'
  <2> SUFFICES ASSUME Live', NEW x \in End
               PROVE  /\ Becomes(channel'[Other(x)], "choke", "unchoke", peerChoked'[Other(x)], WillBeChoked(x)')
                      /\ Becomes(channel'[Other(x)], "interested", "notInterested",
                                 peerInterested'[Other(x)], WillBeInterested(x)')
    BY Zenon DEF FlagsInv
  <2>1. /\ Becomes(channel[Other(x)], "choke", "unchoke", peerChoked[Other(x)], WillBeChoked(x))
        /\ Becomes(channel[Other(x)], "interested", "notInterested", peerInterested[Other(x)], WillBeInterested(x))
    BY <1>1, Zenon DEF IInv, FlagsInv, Live, loop
  <2>2. UNCHANGED <<WillBeChoked(x), WillBeInterested(x), peerChoked, peerInterested>>
    BY <1>1, Zenon DEF WillBeChoked, WillBeInterested, remote
  <2>3. CASE x = e
    <3>1. f.type \notin {"choke", "unchoke"} /\ f.type \notin {"interested", "notInterested"}
      BY <1>2, Zenon DEF Flag
    <3>2. channel[o] \in Seq(Message)
      BY ChannelTypes, Zenon DEF IInv
    <3>3. /\ Becomes(Append(channel[o], f), "choke", "unchoke", peerChoked[o], WillBeChoked(e))
          /\ Becomes(Append(channel[o], f), "interested", "notInterested",
                     peerInterested[o], WillBeInterested(e))
      BY <1>2, <2>1, <2>3, <3>1, <3>2, BecomesOther, Zenon
    <3>4. QED
      BY <1>3, <2>2, <2>3, <3>3, Zenon
  <2>4. CASE x = o
    BY <1>3, <2>1, <2>2, <2>4, TwoEnds, Zenon
  <2>5. QED
    BY <2>3, <2>4, TwoEnds, Zenon
<1>7. PiecesInv'
  BY <1>1, <1>2, WritePieces, Zenon DEF remote, loop
<1>8. QED
  BY <1>4, <1>5, <1>6, <1>7, Zenon DEF IInv

\* SetChoked and the others have sent their message, and the flag is as before.
LEMMA SetFlagInv ==
    ASSUME IInv, NEW e \in End, NEW t \in Flag, SetFlag(e, t)
    PROVE  IInv'
<1> DEFINE o == Other(e)
<1> DEFINE f == Frame(t, 0, {}, Encode(t))
<1>1. /\ sent < MaxSend /\ sent' = sent + 1 /\ pending[e] = "none"
      /\ channel' = [channel EXCEPT ![o] = Written(e, f)]
      /\ pending' = [pending EXCEPT ![e] = t]
      /\ UNCHANGED <<infohash, extBits, choked, interested, announced, rejected, remote, hello, cut, loop>>
  BY Zenon DEF SetFlag
<1>2. f \in Message /\ f.type = t
  <2>1. t \in Type /\ {} \in SUBSET Piece /\ 0 \in Piece /\ Encode(t) \in {Fields(u) : u \in Type}
    BY MessageFields, Zenon DEF Type
  <2>2. QED
    BY <2>1, FrameType
<1> HIDE DEF f
<1>3. /\ channel' \in [End -> Seq(Message)] /\ channel'[e] = channel[e]
      /\ channel'[o] = Append(channel[o], f)
  BY <1>1, <1>2, WriteEffect, Zenon
<1>4. TypeOK'
  <2>1. sent' \in 0..MaxSend
    <3>1. sent \in 0..MaxSend /\ MaxSend \in Nat
      BY ConstantsAssumption, Zenon DEF IInv, TypeOK
    <3>2. QED
      BY <1>1, <3>1
  <2>2. pending' \in [End -> Flag \cup {"none"}]
    BY <1>1, Zenon DEF IInv, TypeOK
  <2>3. QED
    BY <1>1, <1>3, <2>1, <2>2, Zenon DEF IInv, TypeOK, remote, loop
<1>5. HashInv'
  BY <1>1, Zenon DEF IInv, HashInv, loop
<1>6. FlagsInv'
  <2> SUFFICES ASSUME Live', NEW x \in End
               PROVE  /\ Becomes(channel'[Other(x)], "choke", "unchoke", peerChoked'[Other(x)], WillBeChoked(x)')
                      /\ Becomes(channel'[Other(x)], "interested", "notInterested",
                                 peerInterested'[Other(x)], WillBeInterested(x)')
    BY Zenon DEF FlagsInv
  <2>1. /\ Becomes(channel[Other(x)], "choke", "unchoke", peerChoked[Other(x)], WillBeChoked(x))
        /\ Becomes(channel[Other(x)], "interested", "notInterested", peerInterested[Other(x)], WillBeInterested(x))
    BY <1>1, Zenon DEF IInv, FlagsInv, Live, loop
  <2>2. UNCHANGED <<choked, interested, peerChoked, peerInterested>>
    BY <1>1, Zenon DEF remote
  <2>3. pending \in [End -> Flag \cup {"none"}]
    BY Zenon DEF IInv, TypeOK
  <2>4. CASE x = e
    <3>1. channel[o] \in Seq(Message) /\ pending'[e] = t
      BY <1>1, <2>3, ChannelTypes, Zenon DEF IInv
    <3>2. CASE t \in {"choke", "unchoke"}
      <4>1. t \notin {"interested", "notInterested"}
        BY <3>2, Zenon
      <4>2. WillBeChoked(e)' = (t = "choke") /\ WillBeInterested(e)' = WillBeInterested(e)
        BY <1>1, <2>2, <3>1, <3>2, <4>1, Zenon DEF WillBeChoked, WillBeInterested
      <4>3. Becomes(Append(channel[o], f), "choke", "unchoke", peerChoked[o], WillBeChoked(e)')
        <5>1. /\ f.type = "choke" => Becomes(Append(channel[o], f), "choke", "unchoke", peerChoked[o], TRUE)
              /\ f.type = "unchoke" => Becomes(Append(channel[o], f), "choke", "unchoke", peerChoked[o], FALSE)
          BY <1>2, <3>1, BecomesSent, Zenon
        <5>2. /\ t = "choke" => WillBeChoked(e)' = TRUE
              /\ t = "unchoke" => WillBeChoked(e)' = FALSE
          BY <4>2, Zenon
        <5>3. QED
          BY <1>2, <3>2, <5>1, <5>2, Zenon
      <4>4. Becomes(Append(channel[o], f), "interested", "notInterested", peerInterested[o], WillBeInterested(e))
        BY <1>2, <2>1, <2>4, <3>1, <4>1, BecomesOther, Zenon
      <4>5. QED
        BY <1>3, <2>2, <2>4, <4>2, <4>3, <4>4, Zenon
    <3>3. CASE t \in {"interested", "notInterested"}
      <4>1. t \notin {"choke", "unchoke"}
        BY <3>3, Zenon
      <4>2. WillBeInterested(e)' = (t = "interested") /\ WillBeChoked(e)' = WillBeChoked(e)
        BY <1>1, <2>2, <3>1, <3>3, <4>1, Zenon DEF WillBeChoked, WillBeInterested
      <4>3. Becomes(Append(channel[o], f), "interested", "notInterested", peerInterested[o], WillBeInterested(e)')
        <5>1. /\ f.type = "interested" => Becomes(Append(channel[o], f), "interested", "notInterested", peerInterested[o], TRUE)
              /\ f.type = "notInterested" => Becomes(Append(channel[o], f), "interested", "notInterested", peerInterested[o], FALSE)
          BY <1>2, <3>1, BecomesSent, Zenon
        <5>2. /\ t = "interested" => WillBeInterested(e)' = TRUE
              /\ t = "notInterested" => WillBeInterested(e)' = FALSE
          BY <4>2, Zenon
        <5>3. QED
          BY <1>2, <3>3, <5>1, <5>2, Zenon
      <4>4. Becomes(Append(channel[o], f), "choke", "unchoke", peerChoked[o], WillBeChoked(e))
        BY <1>2, <2>1, <2>4, <3>1, <4>1, BecomesOther, Zenon
      <4>5. QED
        BY <1>3, <2>2, <2>4, <4>2, <4>3, <4>4, Zenon
    <3>4. QED
      BY <3>2, <3>3, Zenon DEF Flag
  <2>5. CASE x = o
    <3>1. Other(x) = e /\ x # e /\ x \in End
      BY <2>5, TwoEnds, Zenon
    <3>2. pending'[x] = pending[x]
      BY <1>1, <2>3, <3>1, Zenon
    <3>3. WillBeChoked(x)' = WillBeChoked(x) /\ WillBeInterested(x)' = WillBeInterested(x)
      BY <2>2, <3>2, Zenon DEF WillBeChoked, WillBeInterested
    <3>4. QED
      BY <1>3, <2>1, <2>2, <3>1, <3>3, Zenon
  <2>6. QED
    BY <2>4, <2>5, TwoEnds, Zenon
<1>7. PiecesInv'
  <2>1. Announces(f) = {} /\ f.type # "reject"
    BY <1>2, Zenon DEF Announces, Flag
  <2>2. /\ announced' = [announced EXCEPT ![e] = @ \cup Announces(f)]
        /\ rejected' = [rejected EXCEPT ![e] = @ \cup (IF f.type = "reject" THEN {f.index} ELSE {})]
    BY <1>1, <2>1, Zenon DEF IInv, TypeOK
  <2>3. QED
    BY <1>1, <1>2, <2>2, WritePieces, Zenon DEF remote, loop
<1>8. QED
  BY <1>4, <1>5, <1>6, <1>7, Zenon DEF IInv

\* The flag is assigned.
LEMMA FlagSetInv ==
    ASSUME IInv, NEW e \in End, FlagSet(e)
    PROVE  IInv'
<1> USE DEF IInv
<1>1. /\ Assign(e, pending[e]) /\ pending' = [pending EXCEPT ![e] = "none"]
      /\ UNCHANGED <<infohash, extBits, sent, announced, rejected, remote, wire, loop>>
  BY Zenon DEF FlagSet
<1>2. /\ choked' \in [End -> BOOLEAN] /\ interested' \in [End -> BOOLEAN]
      /\ pending' \in [End -> Flag \cup {"none"}]
  <2>1. choked' \in [End -> BOOLEAN]
    BY <1>1, Zenon DEF Assign, TypeOK
  <2>2. interested' \in [End -> BOOLEAN]
    BY <1>1, Zenon DEF Assign, TypeOK
  <2>3. QED
    BY <1>1, <2>1, <2>2, Zenon DEF TypeOK
<1>3. TypeOK'
  BY <1>1, <1>2, Zenon DEF TypeOK, remote, wire, loop
<1>4. HashInv'
  BY <1>1, Zenon DEF HashInv, wire, loop
<1>5. \A x \in End : UNCHANGED <<WillBeChoked(x), WillBeInterested(x)>>
  BY <1>1, Zenon DEF Assign, WillBeChoked, WillBeInterested, TypeOK
<1>6. FlagsInv'
  BY <1>1, <1>5, Zenon DEF FlagsInv, Live, remote, wire, loop
<1>7. PiecesInv'
  BY <1>1, QuietPieces, Zenon DEF Live, remote, wire, loop
<1>8. QED
  BY <1>3, <1>4, <1>6, <1>7, Zenon

\* The connection breaks with messages on their way.
LEMMA BreakInv ==
    ASSUME IInv, Break
    PROVE  IInv'
<1> USE DEF IInv
<1>1. /\ cut' = TRUE /\ hello' = [e \in End |-> NoHello] /\ channel' = [e \in End |-> <<>>]
      /\ UNCHANGED <<local, remote, loop>>
  BY Zenon DEF Break
<1>2. /\ NoHello \in [hash : Hash \cup {Zero}] /\ NoHello.hash = Zero
      /\ <<>> \in Seq(Message) /\ DOMAIN <<>> = {}
  BY DEF NoHello
<1>3. TypeOK'
  BY <1>1, <1>2, Zenon DEF TypeOK, local, remote, loop
<1>4. HashInv'
  BY <1>1, <1>2, Zenon DEF HashInv, local, loop, End
<1>5. ~Live' /\ FlagsInv'
  BY <1>1, Zenon DEF Live, FlagsInv
<1>6. PiecesInv'
  <2> SUFFICES ASSUME NEW e \in End PROVE PiecesAt(e, Other(e))'
    BY Zenon DEF PiecesInv
  <2>1. channel'[Other(e)] = <<>> /\ PiecesAt(e, Other(e))
    BY <1>1, TwoEnds, Zenon DEF PiecesInv
  <2>2. QED
    BY <1>1, <1>2, <1>5, <2>1, Zenon DEF PiecesAt, Announced, Rejected, local, remote, loop
<1>7. QED
  BY <1>3, <1>4, <1>5, <1>6, Zenon

\* An end closes the connection.
LEMMA CloseInv ==
    ASSUME IInv, NEW e \in End, Close(e)
    PROVE  IInv'
<1> USE DEF IInv
<1>1. /\ open' = [open EXCEPT ![e] = FALSE]
      /\ UNCHANGED <<local, remote, wire, pc, told>>
  BY Zenon DEF Close
<1>2. ~Live'
  BY <1>1, Zenon DEF Live, TypeOK
<1>3. TypeOK'
  BY <1>1, Zenon DEF TypeOK, local, remote, wire
<1>4. HashInv' /\ FlagsInv'
  BY <1>1, <1>2, Zenon DEF HashInv, FlagsInv, local, wire
<1>5. PiecesInv'
  BY <1>1, <1>2, QuietPieces, Zenon DEF local, remote, wire
<1>6. QED
  BY <1>3, <1>4, <1>5, Zenon

-----------------------------------------------------------------------------
(***************************************************************************)
(* The invariant and what follows from it                                  *)
(***************************************************************************)

\* Neither end has sent anything.
LEMMA IInvInit == Init => IInv
<1> SUFFICES ASSUME Init PROVE IInv
  OBVIOUS
<1>1. /\ NoHello \in [hash : Hash \cup {Zero}] /\ NoHello.hash = Zero
      /\ <<>> \in Seq(Message) /\ DOMAIN <<>> = {}
      /\ 0 \in 0..MaxSend
      /\ [bytes |-> 0, set |-> {}] \in BitFields
      /\ [bytes |-> 0, set |-> {}].bytes = 0 /\ [bytes |-> 0, set |-> {}].set = {}
      /\ ~(0 > 0)
  <2>1. MaxSend \in Nat
    BY ConstantsAssumption, Zenon
  <2>2. QED
    BY <2>1 DEF NoHello, BitFields
<1>2. TypeOK
  BY <1>1, Zenon DEF Init, TypeOK, BitFields
<1>3. HashInv
  BY <1>1, Zenon DEF Init, HashInv, End
<1>4. FlagsInv
  <2> SUFFICES ASSUME NEW e \in End
               PROVE  /\ Becomes(channel[Other(e)], "choke", "unchoke", peerChoked[Other(e)], WillBeChoked(e))
                      /\ Becomes(channel[Other(e)], "interested", "notInterested",
                                 peerInterested[Other(e)], WillBeInterested(e))
    BY Zenon DEF FlagsInv
  <2>1. channel[Other(e)] = <<>> /\ peerChoked[Other(e)] = TRUE /\ peerInterested[Other(e)] = FALSE
    BY TwoEnds, Zenon DEF Init
  <2>2. WillBeChoked(e) = TRUE /\ WillBeInterested(e) = FALSE
    BY Zenon DEF Init, WillBeChoked, WillBeInterested
  <2>3. QED
    BY <1>1, <2>1, <2>2, Zenon DEF Becomes
<1>5. PiecesInv
  <2> SUFFICES ASSUME NEW e \in End PROVE PiecesAt(e, Other(e))
    BY Zenon DEF PiecesInv
  <2>1. /\ channel[Other(e)] = <<>> /\ announced[e] = {} /\ stage[Other(e)] = "connected"
        /\ bitfield[Other(e)].bytes = 0 /\ bitfield[Other(e)].set = {}
    BY <1>1, TwoEnds, Zenon DEF Init
  <2>2. QED
    BY <1>1, <2>1, Zenon DEF PiecesAt, Announced, Rejected
<1>6. QED
  BY <1>2, <1>3, <1>4, <1>5, Zenon DEF IInv

\* Each step of either end keeps the invariant.
LEMMA IInvNext == IInv /\ [Next]_vars => IInv'
<1> SUFFICES ASSUME IInv, [Next]_vars PROVE IInv'
  OBVIOUS
<1>1. CASE UNCHANGED vars
  <2>1. UNCHANGED <<local, remote, wire, loop>>
    BY <1>1, Zenon DEF vars
  <2>2. TypeOK' /\ HashInv'
    BY <2>1, Zenon DEF IInv, TypeOK, HashInv, local, remote, wire, loop
  <2>3. FlagsInv'
    BY <2>1, QuietFlags, Zenon DEF IInv, Live, local, remote, wire, loop
  <2>4. PiecesInv'
    BY <2>1, QuietPieces, Zenon DEF IInv, Live, local, remote, wire, loop
  <2>5. QED
    BY <2>2, <2>3, <2>4, Zenon DEF IInv
<1>2. ASSUME NEW e \in End, Run(e) PROVE IInv'
  <2>1. CASE HelloFails(e) \/ LoopFails(e)
    BY <2>1, EndInv, Zenon DEF HelloFails, LoopFails
  <2>2. CASE BadMsg(e)
    <3>1. channel[e] # <<>>
      BY <2>2, Zenon DEF BadMsg, Arrived
    <3>2. QED
      BY <2>2, <3>1, BadMsgInv, Zenon
  <2>3. QED
    BY <1>2, <2>1, <2>2, WriteHelloInv, ReadHelloInv, HandleInv, Zenon DEF Run
<1>3. ASSUME NEW e \in End, \E t \in Sends[e] : \E f \in Frames(t) : Send(e, f) PROVE IInv'
  BY <1>3, SendInv, Zenon
<1>4. ASSUME NEW e \in End, \E t \in Flag : SetFlag(e, t) PROVE IInv'
  BY <1>4, SetFlagInv, Zenon
<1>5. ASSUME NEW e \in End, FlagSet(e) \/ Close(e) PROVE IInv'
  BY <1>5, FlagSetInv, CloseInv, Zenon
<1>6. CASE Break
  BY <1>6, BreakInv, Zenon
<1>7. QED
  BY <1>1, <1>2, <1>3, <1>4, <1>5, <1>6, Zenon DEF Next, Terminated

\* The invariant holds from the start.
LEMMA Invariance == Spec => []IInv
  BY IInvInit, IInvNext, PTL DEF Spec

\* Type correctness of both ends and of what is on the wire.
THEOREM TypeCorrect == Spec => []TypeOK
<1>1. IInv => TypeOK
  BY Zenon DEF IInv
<1>2. QED
  BY <1>1, Invariance, PTL

\* Handshake lets two ends into their loops only with the same infohash; and
\* PeerChoked and PeerInterested of an end are Choked and Interested of the other
\* one unless a message about them is on its way, although SetChoked and the
\* others send their message before they assign the flag and handlers run
\* meanwhile: for any messages that the applications send.
THEOREM TheEndsAgree == Spec => []EndsAgree
<1>1. IInv => EndsAgree
  <2> SUFFICES ASSUME IInv PROVE EndsAgree
    OBVIOUS
  <2>1. (\A e \in End : pc[e] = "loop") => infohash[Dialer] = infohash[Acceptor]
    BY Zenon DEF IInv, HashInv, End
  <2>2. ASSUME NEW e \in End, Connected, pending[e] = "none"
        PROVE  /\ OnItsWay(Other(e), {"choke", "unchoke"}) \/ peerChoked[Other(e)] = choked[e]
               /\ OnItsWay(Other(e), {"interested", "notInterested"}) \/ peerInterested[Other(e)] = interested[e]
    <3>1. Live
      BY <2>2, Zenon DEF Connected, Live
    <3>2. DOMAIN channel[Other(e)] = 1..Len(channel[Other(e)])
      BY ChannelTypes, Elements DEF IInv
    <3>3. WillBeChoked(e) = choked[e] /\ WillBeInterested(e) = interested[e]
      BY <2>2, Zenon DEF WillBeChoked, WillBeInterested
    <3>4. /\ Becomes(channel[Other(e)], "choke", "unchoke", peerChoked[Other(e)], WillBeChoked(e))
          /\ Becomes(channel[Other(e)], "interested", "notInterested",
                     peerInterested[Other(e)], WillBeInterested(e))
      BY <3>1, Zenon DEF IInv, FlagsInv
    <3>5. QED
      BY <3>2, <3>3, <3>4, Zenon DEF Becomes, OnItsWay
  <2>3. QED
    BY <2>1, <2>2, Zenon DEF EndsAgree
<1>2. QED
  BY <1>1, Invariance, PTL

\* The BitField that HandleMessage keeps holds no piece that the peer has not
\* announced, and every announced piece of which no request was rejected and whose
\* announcement is not on its way, for any number of pieces: the bits of the last
\* byte behind the last piece do not count.
THEOREM BitFieldsTrackPeers == Spec => []BitFieldTracksPeer
<1>1. IInv => BitFieldTracksPeer
  <2> SUFFICES ASSUME IInv, NEW e \in End
               PROVE  /\ bitfield[Other(e)].set \cap Piece \subseteq announced[e]
                      /\ (Connected /\ bitfield[Other(e)].bytes > 0) =>
                            \A i \in announced[e] \ rejected[e] :
                                \/ i \in bitfield[Other(e)].set
                                \/ OnItsWay(Other(e), {"have", "bitfield", "haveAll"})
    BY Zenon DEF BitFieldTracksPeer
  <2> DEFINE o == Other(e)
  <2>1. PiecesAt(e, o)
    BY Zenon DEF IInv, PiecesInv
  <2>2. DOMAIN channel[o] = 1..Len(channel[o])
    BY ChannelTypes, Elements DEF IInv
  <2>3. ASSUME NEW i \in Announced(channel[o]) PROVE OnItsWay(o, {"have", "bitfield", "haveAll"})
    <3>1. PICK k \in DOMAIN channel[o] : i \in Announces(channel[o][k])
      BY <2>3, Zenon DEF Announced
    <3>2. channel[o][k].type \in {"have", "bitfield", "haveAll"}
      BY <3>1, Zenon DEF Announces
    <3>3. QED
      BY <2>2, <3>1, <3>2, Zenon DEF OnItsWay
  <2>4. Connected => Live
    BY Zenon DEF Connected, Live
  <2>5. QED
    BY <2>1, <2>3, <2>4, Zenon DEF PiecesAt
<1>2. QED
  BY <1>1, Invariance, PTL

-----------------------------------------------------------------------------
(***************************************************************************)
(* The allowed fast set                                                    *)
(***************************************************************************)

Index == 0..(Sz - 1)

FTypeOK == fset \in Seq(Index) /\ cur \in 0..Len(fset) /\ drawn \in Seq(Index)

\* The slots that are not filled hold the zeros of make.
Unfilled == \A k \in 1..Len(fset) : k > cur => fset[k] = 0

FromDraws == \A k \in 1..cur : fset[k] # 0 /\ \E p \in DOMAIN drawn : FirstDrawn(drawn, p, fset[k])

FirstsInOrder ==
    \A j, k \in 1..cur : \A p, q \in DOMAIN drawn :
        j < k /\ FirstDrawn(drawn, p, fset[j]) /\ FirstDrawn(drawn, q, fset[k]) => p < q

AllDraws == \A p \in DOMAIN drawn : drawn[p] # 0 => \E k \in 1..cur : fset[k] = drawn[p]

FInv == FTypeOK /\ Unfilled /\ FromDraws /\ FirstsInOrder /\ AllDraws

\* A draw changes nothing about those before it.
LEMMA DrawEffect ==
    ASSUME FTypeOK, NEW x \in Index, drawn' = Append(drawn, x)
    PROVE  /\ drawn' \in Seq(Index) /\ Len(drawn) \in Nat /\ DOMAIN drawn = 1..Len(drawn)
           /\ DOMAIN drawn' = 1..(Len(drawn) + 1)
           /\ \A p \in DOMAIN drawn : p \in DOMAIN drawn' /\ p < Len(drawn) + 1 /\ drawn'[p] = drawn[p]
           /\ \A p \in DOMAIN drawn' : p \in DOMAIN drawn \/ p = Len(drawn) + 1
           /\ \A p \in DOMAIN drawn : \A y : FirstDrawn(drawn', p, y) <=> FirstDrawn(drawn, p, y)
           /\ drawn'[Len(drawn) + 1] = x
           /\ \A y : FirstDrawn(drawn', Len(drawn) + 1, y) <=> y = x /\ \A q \in DOMAIN drawn : drawn[q] # x
<1> DEFINE l == Len(drawn) + 1
<1>1. drawn \in Seq(Index)
  BY Zenon DEF FTypeOK
<1> HIDE DEF FTypeOK
<1>2. /\ drawn' \in Seq(Index) /\ Len(drawn) \in Nat /\ DOMAIN drawn = 1..Len(drawn)
      /\ DOMAIN drawn' = 1..l /\ drawn'[l] = x
      /\ \A p \in 1..Len(drawn) : drawn'[p] = drawn[p]
  BY <1>1
<1>3. /\ \A p \in 1..Len(drawn) : p \in 1..l /\ p < l
      /\ \A p \in 1..l : p \in 1..Len(drawn) \/ p = l
      /\ \A p \in 1..Len(drawn) : \A q \in 1..(p - 1) : q \in 1..Len(drawn)
      /\ 1..(l - 1) = 1..Len(drawn)
  BY <1>2
<1> HIDE DEF l
<1>4. \A p \in DOMAIN drawn : \A y : FirstDrawn(drawn', p, y) <=> FirstDrawn(drawn, p, y)
  <2>1. SUFFICES ASSUME NEW p \in DOMAIN drawn, NEW y PROVE FirstDrawn(drawn', p, y) <=> FirstDrawn(drawn, p, y)
    BY Zenon
  <2>2. drawn'[p] = drawn[p] /\ \A q \in 1..(p - 1) : drawn'[q] = drawn[q]
    BY <1>2, <1>3, Zenon
  <2>3. QED
    BY <2>2, Zenon DEF FirstDrawn
<1>5. \A y : FirstDrawn(drawn', l, y) <=> y = x /\ \A q \in DOMAIN drawn : drawn[q] # x
  <2>1. SUFFICES ASSUME NEW y
                 PROVE  FirstDrawn(drawn', l, y) <=> y = x /\ \A q \in DOMAIN drawn : drawn[q] # x
    BY Zenon
  <2>2. FirstDrawn(drawn', l, y) <=> drawn'[l] = y /\ \A q \in 1..Len(drawn) : drawn'[q] # y
    BY <1>3, Zenon DEF FirstDrawn
  <2>3. QED
    BY <1>2, <2>2, Zenon
<1>6. QED
  BY <1>2, <1>3, <1>4, <1>5, Zenon DEF l

\* A draw keeps the invariant, whether the index is new or not.
LEMMA DrawInv == FInv /\ [Draw]_fvars => FInv'
<1>1. CASE UNCHANGED fvars
  <2>1. fset' = fset /\ cur' = cur /\ drawn' = drawn
    BY <1>1, Zenon DEF fvars
  <2>2. FTypeOK /\ Unfilled => FTypeOK' /\ Unfilled'
    BY <2>1, Zenon DEF FTypeOK, Unfilled
  <2>3. FromDraws /\ AllDraws => FromDraws' /\ AllDraws'
    BY <2>1, Zenon DEF FromDraws, AllDraws
  <2>4. FirstsInOrder => FirstsInOrder'
    BY <2>1, Zenon DEF FirstsInOrder
  <2>5. QED
    BY <2>2, <2>3, <2>4, Zenon DEF FInv
<1>2. ASSUME FInv, Draw PROVE FInv'
  <2>1. PICK x \in Index : /\ drawn' = Append(drawn, x)
                           /\ IF \E i \in DOMAIN fset : fset[i] = x THEN UNCHANGED <<fset, cur>>
                              ELSE fset' = [fset EXCEPT ![cur + 1] = x] /\ cur' = cur + 1
    BY <1>2, Zenon DEF Draw, Index
  <2> DEFINE l == Len(drawn) + 1
  <2>2. /\ fset \in Seq(Index) /\ Len(fset) \in Nat /\ cur \in 0..Len(fset) /\ DOMAIN fset = 1..Len(fset)
        /\ cur < Len(fset) /\ FTypeOK /\ FromDraws /\ FirstsInOrder /\ AllDraws
    <3>1. fset \in Seq(Index) /\ cur \in 0..Len(fset)
      BY <1>2, Zenon DEF FInv, FTypeOK
    <3>2. QED
      BY <1>2, <3>1, LenProperties, Zenon DEF FInv, Draw
  <2>3. /\ drawn' \in Seq(Index) /\ Len(drawn) \in Nat /\ DOMAIN drawn = 1..Len(drawn)
        /\ DOMAIN drawn' = 1..l
        /\ \A p \in DOMAIN drawn : p \in DOMAIN drawn' /\ p < l /\ drawn'[p] = drawn[p]
        /\ \A p \in DOMAIN drawn' : p \in DOMAIN drawn \/ p = l
        /\ \A p \in DOMAIN drawn : \A y : FirstDrawn(drawn', p, y) <=> FirstDrawn(drawn, p, y)
        /\ drawn'[l] = x
        /\ \A y : FirstDrawn(drawn', l, y) <=> y = x /\ \A q \in DOMAIN drawn : drawn[q] # x
    BY <2>1, <2>2, DrawEffect, Zenon
  <2>4. \A k \in 1..Len(fset) : k > cur => fset[k] = 0
    BY <1>2, Zenon DEF FInv, Unfilled
  <2>5. \A k \in 1..Len(fset) : k > cur \/ k \in 1..cur
    BY <2>2
  <2> HIDE DEF l
  <2>6. CASE \E i \in DOMAIN fset : fset[i] = x
    <3>1. fset' = fset /\ cur' = cur
      BY <2>1, <2>6, Zenon
    <3>2. FTypeOK' /\ Unfilled'
      BY <2>2, <2>3, <2>4, <3>1, Zenon DEF FTypeOK, Unfilled
    <3>3. FromDraws'
      <4>1. \A k \in 1..cur : fset[k] # 0 /\ \E p \in DOMAIN drawn' : FirstDrawn(drawn', p, fset[k])
        BY <2>2, <2>3, Zenon DEF FromDraws
      <4>2. QED
        BY <3>1, <4>1, Zenon DEF FromDraws
    <3>4. \A k \in 1..cur : ~FirstDrawn(drawn', l, fset[k])
      <4>1. SUFFICES ASSUME NEW k \in 1..cur, FirstDrawn(drawn', l, fset[k]) PROVE FALSE
        BY Zenon
      <4>2. fset[k] = x /\ \A q \in DOMAIN drawn : drawn[q] # x
        BY <2>3, <4>1, Zenon
      <4>3. PICK p \in DOMAIN drawn : FirstDrawn(drawn, p, fset[k])
        BY <2>2, Zenon DEF FromDraws
      <4>4. QED
        BY <4>2, <4>3, Zenon DEF FirstDrawn
    <3>5. FirstsInOrder'
      <4>1. SUFFICES ASSUME NEW j \in 1..cur, NEW k \in 1..cur, NEW p \in DOMAIN drawn', NEW q \in DOMAIN drawn',
                            j < k, FirstDrawn(drawn', p, fset[j]), FirstDrawn(drawn', q, fset[k])
                     PROVE  p < q
        BY <3>1, Zenon DEF FirstsInOrder
      <4>2. p \in DOMAIN drawn /\ q \in DOMAIN drawn
        BY <2>3, <3>4, <4>1, Zenon
      <4>3. FirstDrawn(drawn, p, fset[j]) /\ FirstDrawn(drawn, q, fset[k])
        BY <2>3, <4>1, <4>2, Zenon
      <4>4. QED
        BY <2>2, <4>1, <4>2, <4>3, Zenon DEF FirstsInOrder
    <3>6. AllDraws'
      <4>1. SUFFICES ASSUME NEW p \in DOMAIN drawn', drawn'[p] # 0
                     PROVE  \E k \in 1..cur : fset[k] = drawn'[p]
        BY <3>1, Zenon DEF AllDraws
      <4>2. CASE p \in DOMAIN drawn
        BY <2>2, <2>3, <4>1, <4>2, Zenon DEF AllDraws
      <4>3. CASE p = l
        <5>1. PICK k \in 1..Len(fset) : fset[k] = x
          BY <2>2, <2>6, Zenon
        <5>2. k \in 1..cur
          BY <2>3, <2>4, <2>5, <4>1, <4>3, <5>1, Zenon
        <5>3. QED
          BY <2>3, <4>3, <5>1, <5>2, Zenon
      <4>4. QED
        BY <2>3, <4>2, <4>3, Zenon
    <3>7. QED
      BY <3>2, <3>3, <3>5, <3>6, Zenon DEF FInv
  <2>7. CASE ~\E i \in DOMAIN fset : fset[i] = x
    <3>1. fset' = [fset EXCEPT ![cur + 1] = x] /\ cur' = cur + 1
      BY <2>1, <2>7, Zenon
    <3>2. \A k \in 1..Len(fset) : fset[k] # x
      BY <2>2, <2>7, Zenon
    <3>3. /\ cur + 1 \in 1..Len(fset) /\ cur + 1 > cur
          /\ \A k \in 1..cur : k \in 1..Len(fset) /\ k \in 1..(cur + 1) /\ k < cur + 1
          /\ \A k \in 1..(cur + 1) : k \in 1..cur \/ k = cur + 1
          /\ ~(cur + 1 < cur + 1) /\ cur + 1 \in 0..Len(fset)
          /\ \A k \in 1..cur : ~(cur + 1 < k)
          /\ \A k \in 1..Len(fset) : k > cur + 1 => k > cur /\ k # cur + 1
      BY <2>2
    <3>4. x # 0
      BY <2>4, <3>2, <3>3, Zenon
    <3>5. /\ fset' \in Seq(Index) /\ Len(fset') = Len(fset) /\ fset'[cur + 1] = x
          /\ \A k \in 1..Len(fset) : k # cur + 1 => fset'[k] = fset[k]
      BY <2>2, <3>1, <3>3
    <3>6. \A k \in 1..cur : fset'[k] = fset[k] /\ fset[k] # x
      <4>1. \A k \in 1..cur : k # cur + 1
        BY <2>2
      <4>2. QED
        BY <3>2, <3>3, <3>5, <4>1, Zenon
    <3>7. \A q \in DOMAIN drawn : drawn[q] # x
      BY <2>2, <3>2, <3>3, <3>4, Zenon DEF AllDraws
    <3>8. FirstDrawn(drawn', l, x) /\ \A p \in DOMAIN drawn' : FirstDrawn(drawn', p, x) => p = l
      <4>1. FirstDrawn(drawn', l, x)
        BY <2>3, <3>7, Zenon
      <4>2. \A p \in DOMAIN drawn : ~FirstDrawn(drawn', p, x)
        BY <2>3, <3>7, Zenon DEF FirstDrawn
      <4>3. QED
        BY <2>3, <4>1, <4>2, Zenon
    <3>9. FTypeOK'
      BY <2>3, <3>1, <3>3, <3>5, Zenon DEF FTypeOK
    <3>10. Unfilled'
      BY <2>4, <3>1, <3>3, <3>5, Zenon DEF Unfilled
    <3>11. FromDraws'
      <4>1. SUFFICES ASSUME NEW k \in 1..(cur + 1)
                     PROVE  fset'[k] # 0 /\ \E p \in DOMAIN drawn' : FirstDrawn(drawn', p, fset'[k])
        BY <3>1, Zenon DEF FromDraws
      <4>2. CASE k \in 1..cur
        <5>1. PICK p \in DOMAIN drawn : FirstDrawn(drawn, p, fset[k]) /\ fset[k] # 0
          BY <2>2, <4>2, Zenon DEF FromDraws
        <5>2. QED
          BY <2>3, <3>6, <4>2, <5>1, Zenon
      <4>3. CASE k = cur + 1
        <5>1. l \in DOMAIN drawn'
          BY <2>3 DEF l
        <5>2. QED
          BY <3>4, <3>5, <3>8, <4>3, <5>1, Zenon
      <4>4. QED
        BY <3>3, <4>2, <4>3, Zenon
    <3>12. \A k \in 1..cur : \A p \in DOMAIN drawn' :
              FirstDrawn(drawn', p, fset'[k]) => p \in DOMAIN drawn /\ FirstDrawn(drawn, p, fset[k])
      <4>1. SUFFICES ASSUME NEW k \in 1..cur, NEW p \in DOMAIN drawn', FirstDrawn(drawn', p, fset'[k])
                     PROVE  p \in DOMAIN drawn /\ FirstDrawn(drawn, p, fset[k])
        BY Zenon
      <4>2. fset'[k] = fset[k] /\ fset[k] # x
        BY <3>6, Zenon
      <4>3. p # l
        BY <2>3, <4>1, <4>2, Zenon
      <4>4. QED
        BY <2>3, <4>1, <4>2, <4>3, Zenon
    <3>13. FirstsInOrder'
      <4>1. SUFFICES ASSUME NEW j \in 1..(cur + 1), NEW k \in 1..(cur + 1),
                            NEW p \in DOMAIN drawn', NEW q \in DOMAIN drawn',
                            j < k, FirstDrawn(drawn', p, fset'[j]), FirstDrawn(drawn', q, fset'[k])
                     PROVE  p < q
        BY <3>1, Zenon DEF FirstsInOrder
      <4>2. CASE j \in 1..cur /\ k \in 1..cur
        BY <2>2, <3>12, <4>1, <4>2, Zenon DEF FirstsInOrder
      <4>3. CASE j \in 1..cur /\ k = cur + 1
        <5>1. p \in DOMAIN drawn
          BY <3>12, <4>1, <4>3, Zenon
        <5>2. q = l
          BY <3>5, <3>8, <4>1, <4>3, Zenon
        <5>3. QED
          BY <2>3, <5>1, <5>2, Zenon
      <4>4. j # cur + 1
        BY <3>3, <4>1, Zenon
      <4>5. QED
        BY <3>3, <4>2, <4>3, <4>4, Zenon
    <3>14. AllDraws'
      <4>1. SUFFICES ASSUME NEW p \in DOMAIN drawn', drawn'[p] # 0
                     PROVE  \E k \in 1..(cur + 1) : fset'[k] = drawn'[p]
        BY <3>1, Zenon DEF AllDraws
      <4>2. CASE p \in DOMAIN drawn
        <5>1. PICK k \in 1..cur : fset[k] = drawn[p]
          BY <2>2, <2>3, <4>1, <4>2, Zenon DEF AllDraws
        <5>2. QED
          BY <2>3, <3>3, <3>6, <4>2, <5>1, Zenon
      <4>3. CASE p = l
        <5>1. cur + 1 \in 1..(cur + 1)
          BY <2>2
        <5>2. QED
          BY <2>3, <3>5, <4>3, <5>1, Zenon
      <4>4. QED
        BY <2>3, <4>2, <4>3, Zenon
    <3>15. QED
      BY <3>9, <3>10, <3>11, <3>13, <3>14, Zenon DEF FInv
  <2>8. QED
    BY <2>6, <2>7, Zenon
<1>3. QED
  BY <1>1, <1>2, Zenon

\* A set with as many slots as there are pieces has room for one more than are
\* found: piece 0 is taken for a slot that is not filled.
LEMMA NeverComplete == FInv /\ Len(fset) >= Sz => cur < Len(fset)
<1>1. SUFFICES ASSUME FInv, Len(fset) >= Sz PROVE cur < Len(fset)
  OBVIOUS
<1> DEFINE S == 1..cur
<1> DEFINE T == 1..(Sz - 1)
<1> DEFINE f == [k \in S |-> fset[k]]
<1>2. fset \in Seq(Index) /\ cur \in 0..Len(fset) /\ drawn \in Seq(Index)
  BY <1>1, Zenon DEF FInv, FTypeOK
<1>3. Len(fset) \in Nat /\ cur \in Nat /\ Sz \in Nat \ {0} /\ \A k \in S : k \in 1..Len(fset) /\ k \in Nat
  BY <1>2, SzAssumption
<1>4. \A k \in S : fset[k] \in T
  <2>1. \A k \in S : fset[k] \in Index /\ fset[k] # 0
    BY <1>1, <1>2, <1>3, ElementOfSeq, Zenon DEF FInv, FromDraws
  <2>2. QED
    BY <1>3, <2>1 DEF Index
<1>5. \A j, k \in S : fset[j] = fset[k] => j = k
  <2>1. SUFFICES ASSUME NEW j \in S, NEW k \in S, fset[j] = fset[k] PROVE j = k
    BY Zenon
  <2>2. PICK p \in DOMAIN drawn : FirstDrawn(drawn, p, fset[j])
    BY <1>1, Zenon DEF FInv, FromDraws
  <2>3. (j < k => p < p) /\ (k < j => p < p)
    BY <1>1, <2>1, <2>2, Zenon DEF FInv, FirstsInOrder
  <2>4. p \in Nat
    BY <1>2, <2>2
  <2>5. ~(p < p) /\ j \in Nat /\ k \in Nat
    BY <1>3, <2>4
  <2>6. QED
    BY <2>3, <2>5
<1>6. IsFiniteSet(S) /\ IsFiniteSet(T) /\ Cardinality(S) = cur /\ Cardinality(T) = Sz - 1
  <2>1. Sz - 1 \in Nat /\ 1 \in Int /\ cur \in Int /\ Sz - 1 \in Int
    BY <1>3
  <2>2. /\ IsFiniteSet(S) /\ Cardinality(S) = IF 1 > cur THEN 0 ELSE cur - 1 + 1
        /\ IsFiniteSet(T) /\ Cardinality(T) = IF 1 > Sz - 1 THEN 0 ELSE (Sz - 1) - 1 + 1
    BY <2>1, FS_Interval, Zenon
  <2> HIDE DEF S, T
  <2>3. QED
    BY <1>3, <2>2
<1>7. f \in Injection(S, T)
  <2>1. f \in [S -> T] /\ \A j, k \in S : f[j] = f[k] => j = k
    BY <1>4, <1>5, Zenon
  <2> HIDE DEF f, S, T
  <2>2. QED
    BY <2>1, Zenon DEF Injection, IsInjective
<1>8. Cardinality(S) <= Cardinality(T)
  <2> HIDE DEF f, S, T
  <2>1. QED
    BY <1>6, <1>7, FS_Injection, Zenon
<1> HIDE DEF S, T
<1>9. QED
  BY <1>1, <1>3, <1>6, <1>8

\* Both ends find the same set: the pieces other than 0 in the order of their
\* first draw, whatever is drawn and however large the set is.
THEOREM FastSetsAreFirstDraws == FSpec => []FastSetIsFirstDraws
<1>1. FInit => FInv
  <2>1. SUFFICES ASSUME FInit PROVE FInv
    OBVIOUS
  <2>2. PICK n \in Ks : fset = [i \in 1..n |-> 0]
    BY <2>1, Zenon DEF FInit
  <2>3. n \in Nat /\ 0 \in Index
    BY SzAssumption DEF Index
  <2>4. cur = 0 /\ drawn = <<>>
    BY <2>1, Zenon DEF FInit
  <2>5. fset \in Seq(Index) /\ Len(fset) = n /\ 0 \in 0..Len(fset) /\ \A k \in 1..n : fset[k] = 0
    BY <2>2, <2>3
  <2>6. FTypeOK /\ Unfilled
    BY <2>4, <2>5, EmptySeq, Zenon DEF FTypeOK, Unfilled
  <2>7. 1..cur = {} /\ DOMAIN drawn = {}
    BY <2>4
  <2>8. QED
    BY <2>6, <2>7, Zenon DEF FInv, FromDraws, FirstsInOrder, AllDraws
<1>2. FInv => FastSetIsFirstDraws
  BY NeverComplete, Zenon DEF FInv, FromDraws, FirstsInOrder, AllDraws, FastSetIsFirstDraws
<1>3. QED
  BY <1>1, <1>2, DrawInv, PTL DEF FSpec

=============================================================================
