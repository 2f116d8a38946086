------------------------------ MODULE PeerConn ------------------------------
(***************************************************************************)
(* A connection of the peer protocol (BEP 3, 5, 6 and 10): PeerConn of     *)
(* peerprotocol/peerconn.go, run by the loop of peerprotocol/server.go at  *)
(* both ends of a TCP connection that may break.  The end that dials       *)
(* downloads, with the handler of downloader/block_handler.go; the other   *)
(* end has a handler of an application that implements every interface.    *)
(*                                                                         *)
(* A frame is a message on the wire: its type, the data that matter and    *)
(* the fields that its body holds.                                         *)
(*                                                                         *)
(* Read and write deadlines are left out: SetReadTimeout and               *)
(* SetWriteTimeout clear the deadline they have just set, so no read or    *)
(* write ends by one.                                                      *)
(***************************************************************************)
EXTENDS Integers, Sequences

CONSTANTS
    Dialer, Acceptor,  \* the two ends
    Hash,              \* infohashes
    DialerHash,        \* that of the dialing end
    Zero,              \* the infohash that is not set
    ExtBits,           \* the extension bits that the two ends may have
    PieceNum,          \* the number of pieces of the torrent
    Sends,             \* the types of the messages that each application sends
    MaxSend            \* bound: messages that the applications send

End == {Dialer, Acceptor}

Piece == 0..(PieceNum - 1)

Flag == {"choke", "unchoke", "interested", "notInterested"}

Type == Flag \cup
    {"keepalive", "have", "bitfield", "request", "piece", "cancel", "port", "suggest", "haveAll",
     "haveNone", "reject", "allowedFast", "extHandshake", "extEmpty", "extMsg", "unknown"}

ASSUME ConstantsAssumption ==
    /\ Dialer # Acceptor
    /\ DialerHash \in Hash
    /\ Zero \notin Hash
    /\ ExtBits \subseteq [End -> SUBSET {"dht", "fast", "extended"}]
    /\ PieceNum \in Nat \ {0}
    /\ Sends \in [End -> SUBSET (Type \ Flag)]
    /\ MaxSend \in Nat

VARIABLES
    pc,              \* where handlePeerMessage is
    stage,           \* PeerStage
    infohash,        \* InfoHash
    extBits,         \* ExtBits
    choked,          \* Choked
    interested,      \* Interested
    peerChoked,      \* PeerChoked
    peerInterested,  \* PeerInterested
    bitfield,        \* BitField: its bytes and the bits that are set
    fasts,           \* Fasts, as a set
    suggests,        \* Suggests, as a set
    extended,        \* ExtendedHandshakeMsg.M is not empty
    pending,         \* the flag message sent whose assignment is to come
    hello,           \* the handshake message on its way to each end
    channel,         \* the frames on their way to each end
    open,            \* the socket is open
    cut,             \* the network has failed
    sent,            \* how many messages the applications have sent
    announced,       \* the pieces that each end has said to have (history)
    rejected,        \* the pieces of which it has rejected a request (history)
    got,             \* a message was received (history)
    told             \* OnClose was called (history)

local == <<infohash, extBits, choked, interested, pending, sent, announced, rejected>>
remote == <<stage, peerChoked, peerInterested, bitfield, fasts, suggests, extended, got>>
wire == <<hello, channel, cut>>
loop == <<pc, open, told>>
vars == <<local, remote, wire, loop>>

Other(e) == CHOOSE o \in End : o # e

NoHello == [hash |-> Zero]

Init ==
    /\ pc = [e \in End |-> "start"]
    /\ stage = [e \in End |-> "connected"]
    /\ infohash \in {h \in [End -> Hash \cup {Zero}] : h[Dialer] = DialerHash}
    /\ extBits \in ExtBits
    /\ choked = [e \in End |-> TRUE]
    /\ interested = [e \in End |-> FALSE]
    /\ peerChoked = [e \in End |-> TRUE]
    /\ peerInterested = [e \in End |-> FALSE]
    /\ bitfield = [e \in End |-> [bytes |-> 0, set |-> {}]]
    /\ fasts = [e \in End |-> {}]
    /\ suggests = [e \in End |-> {}]
    /\ extended = [e \in End |-> FALSE]
    /\ pending = [e \in End |-> "none"]
    /\ hello = [e \in End |-> NoHello]
    /\ channel = [e \in End |-> <<>>]
    /\ open = [e \in End |-> TRUE]
    /\ cut = FALSE
    /\ sent = 0
    /\ announced = [e \in End |-> {}]
    /\ rejected = [e \in End |-> {}]
    /\ got = [e \in End |-> FALSE]
    /\ told = [e \in End |-> FALSE]

-----------------------------------------------------------------------------
(***************************************************************************)
(* The end of a connection                                                 *)
(***************************************************************************)

\* loopRun goes on, or returns: OnClose is called and the socket closed.
Continue(e) == UNCHANGED loop

\* Mutant: OnClose is not called.
StopUntold(e) ==
    /\ pc' = [pc EXCEPT ![e] = "done"]
    /\ open' = [open EXCEPT ![e] = FALSE]
    /\ UNCHANGED told

Stop(e) ==
    /\ pc' = [pc EXCEPT ![e] = "done"]
    /\ open' = [open EXCEPT ![e] = FALSE]
    /\ told' = [told EXCEPT ![e] = TRUE]

\* handlePeerMessage returns before the loop: the socket is closed only.
Refuse(e) ==
    /\ pc' = [pc EXCEPT ![e] = "done"]
    /\ open' = [open EXCEPT ![e] = FALSE]
    /\ UNCHANGED told

\* The connection carries messages: those written to a peer that has closed have
\* no effect, whether the write fails or not.
CanWrite(e) == open[e] /\ open[Other(e)] /\ ~cut

\* The application closes the connection in another goroutine.
Close(e) ==
    /\ CanWrite(e)
    /\ open' = [open EXCEPT ![e] = FALSE]
    /\ UNCHANGED <<local, remote, wire, pc, told>>

\* External: the network fails while both ends are open, and what is on its way
\* does not arrive.
Break ==
    /\ ~cut
    /\ \A e \in End : open[e]
    /\ cut' = TRUE
    /\ hello' = [e \in End |-> NoHello]
    /\ channel' = [e \in End |-> <<>>]
    /\ UNCHANGED <<local, remote, loop>>

\* A read fails: on a closed socket at once, otherwise when all that has arrived
\* was read and no more can come.
ReadFails(e, arrived) == ~open[e] \/ (~arrived /\ (cut \/ ~open[Other(e)]))

-----------------------------------------------------------------------------
(***************************************************************************)
(* Handshake                                                               *)
(***************************************************************************)

\* The end without an infohash waits for that of the peer.
WaitsForHello(e) == pc[e] = "wait" \/ (pc[e] = "start" /\ infohash[e] = Zero)

\* Handshake of an end with an infohash: its message is written first.
WriteHello(e) ==
    /\ pc[e] = "start"
    /\ infohash[e] # Zero
    /\ \/ /\ open[e] /\ ~cut
          /\ hello' = [hello EXCEPT ![Other(e)] = [hash |-> infohash[e]]]
          /\ pc' = [pc EXCEPT ![e] = "wait"]
          /\ UNCHANGED <<open, told>>
       \/ /\ ~open[e] \/ cut \/ ~open[Other(e)]
          /\ Refuse(e)
          /\ UNCHANGED hello
    /\ UNCHANGED <<local, remote, channel, cut>>

\* The infohash of the peer is that of this end, which adopts it if it has none.
Accepts(e, h) == infohash[e] \in {Zero, h}

\* Handshake reads the message of the peer, and the end without an infohash
\* sends it back; OnHandShake of the application may refuse.
ReadHello(e) ==
    /\ WaitsForHello(e)
    /\ open[e]
    /\ hello[e] # NoHello
    /\ hello' = [hello EXCEPT ![e] = NoHello,
                              ![Other(e)] = IF infohash[e] = Zero THEN hello[e] ELSE @]
    /\ \/ /\ Accepts(e, hello[e].hash)
          /\ infohash' = [infohash EXCEPT ![e] = IF @ = Zero THEN hello[e].hash ELSE @]
          /\ stage' = [stage EXCEPT ![e] = "handshook"]
          /\ \/ pc' = [pc EXCEPT ![e] = "loop"] /\ UNCHANGED <<open, told>>
             \/ e = Acceptor /\ Refuse(e)
       \/ /\ ~Accepts(e, hello[e].hash) \/ (infohash[e] = Zero /\ ~open[Other(e)])
          /\ Refuse(e)
          /\ UNCHANGED <<infohash, stage>>
    /\ UNCHANGED <<extBits, choked, interested, pending, sent, announced, rejected>>
    /\ UNCHANGED <<peerChoked, peerInterested, bitfield, fasts, suggests, extended, got>>
    /\ UNCHANGED <<channel, cut>>

HelloFails(e) ==
    /\ WaitsForHello(e)
    /\ ReadFails(e, hello[e] # NoHello)
    /\ Refuse(e)
    /\ UNCHANGED <<local, remote, wire>>

-----------------------------------------------------------------------------
(***************************************************************************)
(* Messages that an end sends                                              *)
(***************************************************************************)

\* The fields that Decode reads from the body of a message of each type.
Fields(t) ==
    CASE t \in {"have", "suggest", "allowedFast"} -> {"index"}
      [] t \in {"request", "cancel", "reject"} -> {"index", "begin", "length"}
      [] t = "bitfield" -> {"bits"}
      [] t = "piece" -> {"index", "begin", "data"}
      [] t \in {"extHandshake", "extEmpty", "extMsg"} -> {"id", "payload"}
      [] t = "port" -> {"port"}
      [] t = "unknown" -> {"payload"}
      [] OTHER -> {}

\* The fields that Encode writes: marshalBinaryType has no case for suggest and
\* allowedFast, and writes the payload of an unknown type, which is empty.
Encode(t) == IF t \in {"suggest", "allowedFast"} THEN {} ELSE Fields(t)

Frame(t, i, bits, body) == [type |-> t, index |-> i, bits |-> bits, body |-> body]

\* WriteMsg.
Written(e, f) == Append(channel[Other(e)], f)

\* The messages of a type with the contents that an end looks at, of this code's
\* Encode and of other implementations, which write every field.
Frames(t) ==
    {Frame(t, i, bits, body) :
        i \in IF t \in {"have", "reject"} THEN Piece ELSE {0},
        bits \in IF t = "bitfield" THEN SUBSET Piece ELSE {{}},
        body \in {Encode(t), Fields(t)}}

\* The pieces that the sender of a message says to have.
Announces(f) ==
    CASE f.type = "have" -> {f.index}
      [] f.type = "bitfield" -> f.bits
      [] f.type = "haveAll" -> Piece
      [] OTHER -> {}

\* The application calls one of the Send methods, in the goroutine that also
\* calls the Set methods.  An end that has announced pieces does not say that it
\* has none.
Send(e, f) ==
    /\ pc[e] = "loop"
    /\ pending[e] = "none"
    /\ CanWrite(e)
    /\ sent < MaxSend
    /\ f.type = "haveNone" => announced[e] = {}
    /\ sent' = sent + 1
    /\ channel' = [channel EXCEPT ![Other(e)] = Written(e, f)]
    /\ announced' = [announced EXCEPT ![e] = @ \cup Announces(f)]
    /\ rejected' = [rejected EXCEPT ![e] = @ \cup (IF f.type = "reject" THEN {f.index} ELSE {})]
    /\ UNCHANGED <<infohash, extBits, choked, interested, pending, remote, hello, cut, loop>>

\* SetChoked, SetUnchoked, SetInterested and SetNotInterested have something to
\* do.
Changes(e, t) ==
    \/ t = "choke" /\ ~choked[e]
    \/ t = "unchoke" /\ choked[e]
    \/ t = "interested" /\ ~interested[e]
    \/ t = "notInterested" /\ interested[e]

\* They send the message first,
SetFlag(e, t) ==
    /\ pc[e] = "loop"
    /\ pending[e] = "none"
    /\ Changes(e, t)
    /\ CanWrite(e)
    /\ sent < MaxSend
    /\ sent' = sent + 1
    /\ channel' = [channel EXCEPT ![Other(e)] = Written(e, Frame(t, 0, {}, Encode(t)))]
    /\ pending' = [pending EXCEPT ![e] = t]
    /\ UNCHANGED <<infohash, extBits, choked, interested, announced, rejected>>
    /\ UNCHANGED <<remote, hello, cut, loop>>

\* Mutant: the flag of the choke messages is left as it is.
AssignInterestOnly(e, t) ==
    /\ interested' = [interested EXCEPT ![e] = IF t \in {"interested", "notInterested"}
                                               THEN t = "interested" ELSE @]
    /\ UNCHANGED choked

\* and then set their flag.
Assign(e, t) ==
    /\ choked' = [choked EXCEPT ![e] = IF t \in {"choke", "unchoke"} THEN t = "choke" ELSE @]
    /\ interested' = [interested EXCEPT ![e] = IF t \in {"interested", "notInterested"}
                                               THEN t = "interested" ELSE @]

FlagSet(e) ==
    /\ pending[e] # "none"
    /\ Assign(e, pending[e])
    /\ pending' = [pending EXCEPT ![e] = "none"]
    /\ UNCHANGED <<infohash, extBits, sent, announced, rejected, remote, wire, loop>>

-----------------------------------------------------------------------------
(***************************************************************************)
(* Messages that an end receives: ReadMsg and HandleMessage                *)
(***************************************************************************)

\* Decode fails when the body holds too little, or more than it reads.  A message
\* that is longer than MaxLength fails as well and ends the connection likewise.
Decodes(f) == f.body = Fields(f.type)

\* The messages that must come first after the handshake.
InOrder(e, f) == f.type \in {"bitfield", "haveAll", "haveNone"} => stage[e] = "handshook"

\* The extension that the end itself needs for messages of some types.
Supports(e, f) ==
    /\ f.type = "port" => "dht" \in extBits[e]
    /\ f.type \in {"suggest", "haveAll", "haveNone", "reject", "allowedFast"} => "fast" \in extBits[e]
    /\ f.type \in {"extHandshake", "extEmpty", "extMsg"} => "extended" \in extBits[e]

Arrived(e) == pc[e] = "loop" /\ open[e] /\ channel[e] # <<>>

Taken(e) == [channel EXCEPT ![e] = Tail(@)]

\* The stage after any message.
StageAfter(e, f) == "message"

\* ReadMsg has a message.
ReadMsg(e, f) ==
    /\ Arrived(e)
    /\ f = Head(channel[e])
    /\ Decodes(f)
    /\ InOrder(e, f)
    /\ stage' = [stage EXCEPT ![e] = StageAfter(e, f)]
    /\ got' = [got EXCEPT ![e] = TRUE]
    /\ UNCHANGED <<local, hello, cut>>

\* A message that cannot be decoded, comes too late or belongs to an extension
\* that the end does not support ends the connection.
BadMsg(e) ==
    /\ Arrived(e)
    /\ LET f == Head(channel[e]) IN
        \/ ~Decodes(f) /\ UNCHANGED <<stage, got>>
        \/ Decodes(f) /\ ~InOrder(e, f) /\ UNCHANGED <<stage, got>>
        \/ ReadMsg(e, f) /\ ~Supports(e, f)
    /\ channel' = Taken(e)
    /\ Stop(e)
    /\ UNCHANGED <<local, hello, cut>>
    /\ UNCHANGED <<peerChoked, peerInterested, bitfield, fasts, suggests, extended>>

\* The method of the handler, which may fail in the application of the accepting
\* end; those of the downloader that do nothing do not.
Handler(e) ==
    /\ channel' = Taken(e)
    /\ Continue(e) \/ (e = Acceptor /\ Stop(e))

\* BlockDownloadHandler.request: the next block is asked for, or nothing more is
\* needed; ReqBlock may fail.
RequestBlock(e) ==
    \/ peerChoked'[e] /\ channel' = Taken(e) /\ Stop(e)
    \/ ~peerChoked'[e] /\ channel' = Taken(e) /\ (Continue(e) \/ Stop(e))
    \/ /\ ~peerChoked'[e]
       /\ CanWrite(e)
       /\ channel' = [Taken(e) EXCEPT ![Other(e)] = Written(e, Frame("request", 0, {}, Encode("request")))]
       /\ Continue(e)

\* Keepalive, and the messages that are left to the handler.
HandleOther(e, f) ==
    /\ ReadMsg(e, f) /\ Supports(e, f)
    /\ \/ f.type = "keepalive" /\ channel' = Taken(e) /\ Continue(e)
       \/ f.type \in {"request", "cancel", "port", "haveNone", "unknown"} /\ Handler(e)
       \/ f.type \in {"piece", "reject", "haveAll"} /\ e = Acceptor /\ Handler(e)
    /\ UNCHANGED <<peerChoked, peerInterested, bitfield, fasts, suggests, extended>>

HandleChoke(e, f) ==
    /\ ReadMsg(e, f)
    /\ f.type \in {"choke", "unchoke"}
    /\ peerChoked' = [peerChoked EXCEPT ![e] = f.type = "choke"]
    /\ \/ f.type = "unchoke" /\ e = Dialer /\ RequestBlock(e)
       \/ ~(f.type = "unchoke" /\ e = Dialer) /\ Handler(e)
    /\ UNCHANGED <<peerInterested, bitfield, fasts, suggests, extended>>

HandleInterest(e, f) ==
    /\ ReadMsg(e, f)
    /\ f.type \in {"interested", "notInterested"}
    /\ peerInterested' = [peerInterested EXCEPT ![e] = f.type = "interested"]
    /\ Handler(e)
    /\ UNCHANGED <<peerChoked, bitfield, fasts, suggests, extended>>

\* BitField.Set and Unset have no effect beyond the bytes there are.
SetBit(b, i) == [b EXCEPT !.set = IF i \div 8 < b.bytes THEN @ \cup {i} ELSE @]

\* Mutant: the byte of the bit is cleared.
UnsetByte(b, i) == [b EXCEPT !.set = {j \in @ : j \div 8 # i \div 8}]

UnsetBit(b, i) == [b EXCEPT !.set = @ \ {i}]

Bytes == (PieceNum + 7) \div 8

\* NewBitField with every bit set, those behind the last piece included.
FullBitField == [bytes |-> Bytes, set |-> 0..(8 * Bytes - 1)]

HandleHave(e, f) ==
    /\ ReadMsg(e, f)
    /\ f.type = "have"
    /\ bitfield' = [bitfield EXCEPT ![e] = SetBit(@, f.index)]
    /\ Handler(e)
    /\ UNCHANGED <<peerChoked, peerInterested, fasts, suggests, extended>>

HandleBitField(e, f) ==
    /\ ReadMsg(e, f)
    /\ f.type = "bitfield"
    /\ bitfield' = [bitfield EXCEPT ![e] = [bytes |-> Bytes, set |-> f.bits]]
    /\ Handler(e)
    /\ UNCHANGED <<peerChoked, peerInterested, fasts, suggests, extended>>

\* The downloader asks for the next block after each one, in any order the peer
\* sends them.  OnBlock may fail.
BlockPiece(e, f) ==
    /\ ReadMsg(e, f)
    /\ e = Dialer
    /\ f.type = "piece"
    /\ UNCHANGED peerChoked
    /\ RequestBlock(e) \/ (channel' = Taken(e) /\ Stop(e))
    /\ UNCHANGED <<peerInterested, bitfield, fasts, suggests, extended>>

BlockHaveAll(e, f) ==
    /\ ReadMsg(e, f) /\ Supports(e, f)
    /\ e = Dialer
    /\ f.type = "haveAll"
    /\ bitfield' = [bitfield EXCEPT ![e] = FullBitField]
    /\ Handler(e)
    /\ UNCHANGED <<peerChoked, peerInterested, fasts, suggests, extended>>

BlockReject(e, f) ==
    /\ ReadMsg(e, f) /\ Supports(e, f)
    /\ e = Dialer
    /\ f.type = "reject"
    /\ bitfield' = [bitfield EXCEPT ![e] = UnsetBit(@, f.index)]
    /\ UNCHANGED peerChoked
    /\ RequestBlock(e)
    /\ UNCHANGED <<peerInterested, fasts, suggests, extended>>

\* Pieces.Append: an index that is there is not added again, and the list is kept
\* sorted.
AppendPiece(ps, i) == ps \cup {i}

HandleFast(e, f) ==
    /\ ReadMsg(e, f) /\ Supports(e, f)
    /\ \/ /\ f.type = "suggest"
          /\ suggests' = [suggests EXCEPT ![e] = AppendPiece(@, f.index)]
          /\ UNCHANGED fasts
       \/ /\ f.type = "allowedFast"
          /\ fasts' = [fasts EXCEPT ![e] = AppendPiece(@, f.index)]
          /\ UNCHANGED suggests
    /\ Handler(e)
    /\ UNCHANGED <<peerChoked, peerInterested, bitfield, extended>>

\* handleExtMsg: one handshake with message IDs, and payloads after it.  The
\* downloader has no Bep10Handler.
HandleExtended(e, f) ==
    /\ ReadMsg(e, f) /\ Supports(e, f)
    /\ \/ /\ e = Dialer
          /\ f.type \in {"extHandshake", "extEmpty", "extMsg"}
          /\ Handler(e)
          /\ UNCHANGED extended
       \/ /\ e = Acceptor
          /\ f.type = "extHandshake" /\ ~extended[e]
          /\ extended' = [extended EXCEPT ![e] = TRUE]
          /\ Handler(e)
       \/ /\ e = Acceptor
          /\ f.type = "extMsg" /\ extended[e]
          /\ Handler(e)
          /\ UNCHANGED extended
       \/ /\ e = Acceptor
          /\ \/ f.type = "extEmpty"
             \/ f.type = "extHandshake" /\ extended[e]
             \/ f.type = "extMsg" /\ ~extended[e]
          /\ channel' = Taken(e)
          /\ Stop(e)
          /\ UNCHANGED extended
    /\ UNCHANGED <<peerChoked, peerInterested, bitfield, fasts, suggests>>

LoopFails(e) ==
    /\ pc[e] = "loop"
    /\ ReadFails(e, channel[e] # <<>>)
    /\ Stop(e)
    /\ UNCHANGED <<local, remote, wire>>

-----------------------------------------------------------------------------

HandleMessage(e) ==
    \E f \in {Head(channel[e])} :
        \/ HandleOther(e, f)
        \/ HandleChoke(e, f)
        \/ HandleInterest(e, f)
        \/ HandleHave(e, f)
        \/ HandleBitField(e, f)
        \/ BlockPiece(e, f)
        \/ BlockHaveAll(e, f)
        \/ BlockReject(e, f)
        \/ HandleFast(e, f)
        \/ HandleExtended(e, f)

\* What handlePeerMessage does at an end.
Run(e) ==
    \/ WriteHello(e)
    \/ ReadHello(e)
    \/ HelloFails(e)
    \/ channel[e] # <<>> /\ HandleMessage(e)
    \/ BadMsg(e)
    \/ LoopFails(e)

\* Both ends have returned.
Terminated == (\A e \in End : pc[e] = "done") /\ UNCHANGED vars

Next ==
    \/ \E e \in End :
        \/ Run(e)
        \/ \E t \in Sends[e] : \E f \in Frames(t) : Send(e, f)
        \/ \E t \in Flag : SetFlag(e, t)
        \/ FlagSet(e)
        \/ Close(e)
    \/ Break
    \/ Terminated

Spec == Init /\ [][Next]_vars

\* The server's goroutine of the connection runs; applications, the dialing end and
\* the network do what they like.
FairSpec == Spec /\ WF_vars(Run(Acceptor))

-----------------------------------------------------------------------------
(***************************************************************************)
(* Properties                                                              *)
(***************************************************************************)

Message == [type : Type, index : Piece, bits : SUBSET Piece, body : {Fields(t) : t \in Type}]

TypeOK ==
    /\ pc \in [End -> {"start", "wait", "loop", "done"}]
    /\ stage \in [End -> {"connected", "handshook", "message"}]
    /\ infohash \in [End -> Hash \cup {Zero}]
    /\ extBits \in ExtBits
    /\ choked \in [End -> BOOLEAN] /\ interested \in [End -> BOOLEAN]
    /\ peerChoked \in [End -> BOOLEAN] /\ peerInterested \in [End -> BOOLEAN]
    /\ bitfield \in [End -> [bytes : {0, Bytes}, set : SUBSET (0..(8 * Bytes - 1))]]
    /\ fasts \in [End -> SUBSET Piece] /\ suggests \in [End -> SUBSET Piece]
    /\ announced \in [End -> SUBSET Piece] /\ rejected \in [End -> SUBSET Piece]
    /\ extended \in [End -> BOOLEAN] /\ open \in [End -> BOOLEAN]
    /\ got \in [End -> BOOLEAN] /\ told \in [End -> BOOLEAN]
    /\ pending \in [End -> Flag \cup {"none"}]
    /\ hello \in [End -> [hash : Hash \cup {Zero}]]
    /\ channel \in [End -> Seq(Message)]
    /\ cut \in BOOLEAN
    /\ sent \in 0..MaxSend

\* A message of one of the types is on its way to an end.
OnItsWay(e, types) == \E i \in 1..Len(channel[e]) : channel[e][i].type \in types

\* Both ends are in their loops and nothing is lost.
Connected == ~cut /\ \A e \in End : pc[e] = "loop" /\ open[e]

\* Two ends that exchange messages talk about the same torrent, whether the
\* accepting end knew the infohash or took it from the dialing end; and
\* PeerChoked and PeerInterested of an end are Choked and Interested of the other
\* one when no message about them is on its way: the flags are set after the
\* message was sent, while messages of the peer are handled.
EndsAgree ==
    /\ (\A e \in End : pc[e] = "loop") => infohash[Dialer] = infohash[Acceptor]
    /\ \A e \in End :
        LET o == Other(e) IN
        (Connected /\ pending[e] = "none") =>
            /\ OnItsWay(o, {"choke", "unchoke"}) \/ peerChoked[o] = choked[e]
            /\ OnItsWay(o, {"interested", "notInterested"}) \/ peerInterested[o] = interested[e]

\* The bit field of an end that has one holds the pieces that the peer has
\* announced: none it did not announce, and all whose announcement has arrived
\* and of which no request was rejected.
BitFieldTracksPeer ==
    \A e \in End :
        LET o == Other(e) IN
        /\ bitfield[o].set \cap Piece \subseteq announced[e]
        /\ (Connected /\ bitfield[o].bytes > 0) =>
            \A i \in announced[e] \ rejected[e] :
                i \in bitfield[o].set \/ OnItsWay(o, {"have", "bitfield", "haveAll"})

\* When the dialing end closes, or the network fails, the server's goroutine of
\* the connection ends, and the handler is told if it was given a message.
ConnectionEnds ==
    ~open[Dialer] \/ cut ~> pc[Acceptor] = "done" /\ (got[Acceptor] => told[Acceptor])

=============================================================================
