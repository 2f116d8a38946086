-------------------------- MODULE TorrentDownloader --------------------------
(***************************************************************************)
(* TorrentDownloader of downloader/torrent.go: workers take requests from  *)
(* a bounded channel, download the info part of a torrent from a peer with *)
(* the ut_metadata extension (BEP 9) and put it into a second bounded      *)
(* channel, which the application reads.                                   *)
(*                                                                         *)
(* A peer is honest, or says what it likes: wrong sizes, blocks that were  *)
(* not asked for, come twice, have a wrong length or wrong data.  The      *)
(* numbers of its blocks are those of the size it has given.  The data of  *)
(* a block are "good" or "bad", and the SHA-1 sum of the blocks is the     *)
(* infohash when the size is right and all blocks are good.                *)
(***************************************************************************)
EXTENDS Integers, Sequences, FiniteSets, FiniteSetsExt

CONSTANTS
    Worker,       \* the workers, conf.WorkerNum of them
    Torrent,      \* infohashes
    None,         \* no torrent, no size, no data
    Size,         \* the size of the info part of each
    FalseSize,    \* the sizes that other peers give
    BlockSize,    \* conf.BlockSize
    RespCap,      \* the capacity of the channel of responses, 1024
    MaxRequests,  \* bound: all calls of Request
    MaxNoise      \* bound: messages of peers that are not honest

ASSUME ConstantsAssumption ==
    /\ IsFiniteSet(Worker) /\ Worker # {}
    /\ None \notin Torrent
    /\ Size \in [Torrent -> Nat \ {0}]
    /\ FalseSize \subseteq Nat
    /\ {BlockSize, RespCap} \subseteq Nat \ {0}
    /\ {MaxRequests, MaxNoise} \subseteq Nat

VARIABLES
    calling,    \* the infohash of a call of Request that has not returned
    requests,   \* d.requests
    responses,  \* d.responses
    closed,     \* d.exit is closed
    pc,         \* where each worker is
    job,        \* infohash of its download
    honest,     \* whether its peer is honest
    size,       \* metadataSize
    pieces,     \* pieces: the data of the blocks that there are
    asked,      \* how many blocks requestPieces has asked for
    noise,      \* the messages that other peers have sent
    submitted,  \* how often each torrent was requested (history)
    answered    \* and how many responses there were for it (history)

queues == <<calling, requests, responses, closed, submitted>>
download == <<job, honest, size, pieces, asked>>
vars == <<queues, pc, download, noise, answered>>

Init ==
    /\ calling = None
    /\ requests = <<>>
    /\ responses = <<>>
    /\ closed = FALSE
    /\ pc = [w \in Worker |-> "idle"]
    /\ job = [w \in Worker |-> None]
    /\ honest = [w \in Worker |-> TRUE]
    /\ size = [w \in Worker |-> 0]
    /\ pieces = [w \in Worker |-> None]
    /\ asked = [w \in Worker |-> 0]
    /\ noise = 0
    /\ submitted = [t \in Torrent |-> 0]
    /\ answered = [t \in Torrent |-> 0]

\* The number of the blocks, the last of which may be short.
PiecesNum(n) == (n \div BlockSize) + (IF n % BlockSize # 0 THEN 1 ELSE 0)

\* A message is an extended handshake with a size and an ID of ut_metadata, a
\* block, one that does not decode or lacks the ID ("refusal"), or one that the
\* downloader ignores: a keepalive, a port, a reject, another extension.
Handshake(n) == [type |-> "handshake", size |-> n]
Block(i, len, data) == [type |-> "block", piece |-> i, len |-> len, data |-> data]

\* An honest peer gives the size, and each block that it was asked for.
BlockLength(t, i) ==
    IF (i + 1) * BlockSize <= Size[t] THEN BlockSize ELSE Size[t] % BlockSize

HonestMsgs(w) ==
    IF pieces[w] = None
    THEN {Handshake(Size[job[w]])}
    ELSE {Block(i, BlockLength(job[w], i), "good") :
             i \in {j \in 0..(asked[w] - 1) : pieces[w][j] = None}}

OtherMsgs(w) ==
    {[type |-> "other"]} \cup
    (IF honest[w] THEN {} ELSE
        {[type |-> "refusal"]}
        \cup {Handshake(n) : n \in FalseSize \cup {Size[job[w]]}}
        \cup {Block(i, len, data) : i \in IF pieces[w] = None THEN {0} ELSE DOMAIN pieces[w],
                                    len \in 0..BlockSize, data \in {"good", "bad"}})

-----------------------------------------------------------------------------
(***************************************************************************)
(* The application                                                         *)
(***************************************************************************)

Calls == MapThenSumSet(LAMBDA t : submitted[t], Torrent)

\* Request is called,
Request(t) ==
    /\ calling = None
    /\ Calls < MaxRequests
    /\ calling' = t
    /\ submitted' = [submitted EXCEPT ![t] = @ + 1]
    /\ UNCHANGED <<requests, responses, closed, pc, download, noise, answered>>

\* and returns when there is room in the channel, whether the downloader is
\* closed or not.
Submit ==
    /\ calling # None
    /\ Len(requests) < Cardinality(Worker)
    /\ requests' = Append(requests, calling)
    /\ calling' = None
    /\ UNCHANGED <<responses, closed, submitted, pc, download, noise, answered>>

\* The application reads the channel that Response returns.
Response ==
    /\ responses # <<>>
    /\ responses' = Tail(responses)
    /\ UNCHANGED <<calling, requests, closed, submitted, pc, download, noise, answered>>

Close ==
    /\ ~closed
    /\ closed' = TRUE
    /\ UNCHANGED <<calling, requests, responses, submitted, pc, download, noise, answered>>

-----------------------------------------------------------------------------
(***************************************************************************)
(* A worker                                                                *)
(***************************************************************************)

\* download returns: the connection is closed, and requestPieces ends with its
\* next write.
Forget(w) ==
    /\ job' = [job EXCEPT ![w] = None]
    /\ honest' = [honest EXCEPT ![w] = TRUE]
    /\ size' = [size EXCEPT ![w] = 0]
    /\ pieces' = [pieces EXCEPT ![w] = None]
    /\ asked' = [asked EXCEPT ![w] = 0]

Return(w) == pc' = [pc EXCEPT ![w] = "idle"] /\ Forget(w)

\* Mutant: the worker leaves the select, but not the loop.
ExitSelect(w) == pc[w] = "idle" /\ closed /\ UNCHANGED vars

Exit(w) ==
    /\ pc[w] = "idle"
    /\ closed
    /\ pc' = [pc EXCEPT ![w] = "exited"]
    /\ UNCHANGED <<queues, download, noise, answered>>

\* A request is taken, also when the downloader is closed at the same time.
TakeRequest(w) ==
    /\ pc[w] = "idle"
    /\ requests # <<>>
    /\ requests' = Tail(requests)
    /\ job' = [job EXCEPT ![w] = Head(requests)]
    /\ pc' = [pc EXCEPT ![w] = "dial"]
    /\ UNCHANGED <<calling, responses, closed, submitted, honest, size, pieces, asked, noise, answered>>

\* The connection is made and the handshakes are sent; or one of them fails, or
\* the peer does not support the extension protocol.
Dial(w) ==
    /\ pc[w] = "dial"
    /\ \/ /\ pc' = [pc EXCEPT ![w] = "read"]
          /\ honest' \in {[honest EXCEPT ![w] = b] : b \in BOOLEAN}
          /\ UNCHANGED <<job, size, pieces, asked>>
       \/ Return(w)
    /\ UNCHANGED <<queues, noise, answered>>

\* requestPieces, a goroutine of its own, asks for the next block.
RequestPiece(w) ==
    /\ pc[w] = "read"
    /\ pieces[w] # None
    /\ asked[w] < PiecesNum(size[w])
    /\ asked' = [asked EXCEPT ![w] = @ + 1]
    /\ UNCHANGED <<queues, pc, job, honest, size, pieces, noise, answered>>

\* Mutant: the last block is taken for the one after it.
LengthOKOffByOne(w, i, len) ==
    IF i = PiecesNum(size[w]) THEN len = size[w] % BlockSize ELSE len = BlockSize

\* The length that a block must have, which is 0 for the last one when the size
\* is a multiple of BlockSize.
LengthOK(w, i, len) ==
    IF i = PiecesNum(size[w]) - 1 THEN len = size[w] % BlockSize ELSE len = BlockSize

\* The block is stored; one without data counts as missing.
Stored(w, i, len, data) == [pieces[w] EXCEPT ![i] = IF len = 0 THEN None ELSE data]

Finished(ps) == \A i \in DOMAIN ps : ps[i] # None

\* Mutant: the sum is not compared.
AnySum(w, ps) == TRUE

\* The SHA-1 sum of the blocks is the infohash.
SumOK(w, ps) == size[w] = Size[job[w]] /\ \A i \in DOMAIN ps : ps[i] = "good"

\* The first extended handshake gives the size, a second one ends the download.
ExtHandshake(w, m) ==
    \/ /\ pieces[w] = None
       /\ size' = [size EXCEPT ![w] = m.size]
       /\ pieces' = [pieces EXCEPT ![w] = [i \in 0..(PiecesNum(m.size) - 1) |-> None]]
       /\ UNCHANGED <<pc, job, honest, asked>>
    \/ pieces[w] # None /\ Return(w)

\* A block ends the download when no size is known or its length is wrong, and
\* when there are all blocks, with a response if they are right.
Data(w, m) ==
    \/ /\ pieces[w] = None \/ ~LengthOK(w, m.piece, m.len)
       /\ Return(w)
    \/ /\ pieces[w] # None /\ LengthOK(w, m.piece, m.len)
       /\ LET ps == Stored(w, m.piece, m.len, m.data) IN
          \/ /\ Finished(ps) => SumOK(w, ps)
             /\ pieces' = [pieces EXCEPT ![w] = ps]
             /\ pc' = [pc EXCEPT ![w] = IF Finished(ps) THEN "deliver" ELSE "read"]
             /\ UNCHANGED <<job, honest, size, asked>>
          \/ Finished(ps) /\ ~SumOK(w, ps) /\ Return(w)

\* After each message the worker looks whether the downloader is closed.
Handle(w, m) ==
    /\ pc[w] = "read"
    /\ \/ closed /\ Return(w)
       \/ ~closed /\ m.type = "refusal" /\ Return(w)
       \/ ~closed /\ m.type = "other" /\ UNCHANGED <<pc, download>>
       \/ ~closed /\ m.type = "handshake" /\ ExtHandshake(w, m)
       \/ ~closed /\ m.type = "block" /\ Data(w, m)
    /\ UNCHANGED <<queues, answered>>

\* A message comes from the peer of w,
ReadMsg(w) ==
    /\ pc[w] = "read" /\ honest[w]
    /\ \E m \in HonestMsgs(w) : Handle(w, m)
    /\ UNCHANGED noise

ReadOther(w) ==
    /\ pc[w] = "read"
    /\ noise < MaxNoise
    /\ \E m \in OtherMsgs(w) : Handle(w, m)
    /\ noise' = noise + 1

\* or the connection ends.
ReadFails(w) ==
    /\ pc[w] = "read" /\ ~honest[w]
    /\ Return(w)
    /\ UNCHANGED <<queues, noise, answered>>

\* Mutant: the download does not end with its response.
DeliverAgain(w) ==
    /\ pc[w] = "deliver"
    /\ Len(responses) < RespCap
    /\ responses' = Append(responses, [infohash |-> job[w], size |-> size[w], data |-> pieces[w]])
    /\ answered' = [answered EXCEPT ![job[w]] = @ + 1]
    /\ UNCHANGED <<calling, requests, closed, submitted, pc, download, noise>>

\* The response is put into the channel when there is room; Close does not end
\* the wait.
Deliver(w) ==
    /\ pc[w] = "deliver"
    /\ Len(responses) < RespCap
    /\ responses' = Append(responses, [infohash |-> job[w], size |-> size[w], data |-> pieces[w]])
    /\ answered' = [answered EXCEPT ![job[w]] = @ + 1]
    /\ Return(w)
    /\ UNCHANGED <<calling, requests, closed, submitted, noise>>

-----------------------------------------------------------------------------
\* Nothing is left to do: all workers are gone, and a call of Request that finds
\* the channel full never returns.
Terminated ==
    /\ closed /\ \A w \in Worker : pc[w] = "exited"
    /\ responses = <<>>
    /\ \/ calling # None /\ Len(requests) = Cardinality(Worker)
       \/ calling = None /\ Calls = MaxRequests
    /\ UNCHANGED vars

WorkerStep(w) == Exit(w) \/ TakeRequest(w) \/ Dial(w)

Next ==
    \/ \E t \in Torrent : Request(t)
    \/ Submit \/ Response \/ Close \/ Terminated
    \/ \E w \in Worker :
          \/ WorkerStep(w) \/ RequestPiece(w) \/ Deliver(w)
          \/ ReadMsg(w) \/ ReadOther(w) \/ ReadFails(w)

Spec == Init /\ [][Next]_vars

(***************************************************************************)
(* Goroutines run, senders that wait for a channel are served in turn, and *)
(* the application reads the responses.  An honest peer answers; any other *)
(* one ends the connection if nothing else ends the download, which is an  *)
(* assumption on the peers, since download sets no deadline.               *)
(***************************************************************************)
FairSpec ==
    /\ Spec
    /\ WF_vars(Submit)
    /\ WF_vars(Response)
    /\ \A w \in Worker :
          /\ WF_vars(WorkerStep(w))
          /\ WF_vars(RequestPiece(w))
          /\ WF_vars(ReadMsg(w))
          /\ WF_vars(ReadFails(w))
          /\ SF_vars(Deliver(w))

-----------------------------------------------------------------------------
TypeOK ==
    /\ calling \in Torrent \cup {None}
    /\ requests \in Seq(Torrent) /\ Len(requests) <= Cardinality(Worker)
    /\ Len(responses) <= RespCap
    /\ closed \in BOOLEAN
    /\ pc \in [Worker -> {"idle", "dial", "read", "deliver", "exited"}]
    /\ job \in [Worker -> Torrent \cup {None}]
    /\ honest \in [Worker -> BOOLEAN]
    /\ size \in [Worker -> Nat]
    /\ DOMAIN pieces = Worker
    /\ asked \in [Worker -> Nat]
    /\ noise \in 0..MaxNoise
    /\ submitted \in [Torrent -> Nat]
    /\ answered \in [Torrent -> Nat]
    /\ \A w \in Worker :
          /\ pc[w] \in {"idle", "exited"} <=> job[w] = None
          /\ pc[w] \notin {"read", "deliver"} => pieces[w] = None
          /\ pieces[w] # None =>
                pieces[w] \in [0..(PiecesNum(size[w]) - 1) -> {None, "good", "bad"}]

(***************************************************************************)
(* Every response that the application can read is the whole info part of  *)
(* its torrent, whatever sizes and blocks the peers have sent and in what- *)
(* ever order: the sum over the blocks is compared with the infohash.      *)
(***************************************************************************)
ResponsesAreVerified ==
    \A k \in DOMAIN responses :
        LET r == responses[k] IN
        /\ r.size = Size[r.infohash]
        /\ \A i \in 0..(PiecesNum(r.size) - 1) : r.data[i] = "good"

(***************************************************************************)
(* There are never more responses for a torrent than calls of Request: a   *)
(* download ends with its response, also when blocks come twice or late.   *)
(***************************************************************************)
OneResponsePerRequest == \A t \in Torrent : answered[t] <= submitted[t]

(***************************************************************************)
(* A download from an honest peer ends with a response, unless the down-   *)
(* loader is closed meanwhile.  The length check of download makes this    *)
(* fail for a size that is a multiple of BlockSize.                        *)
(***************************************************************************)
HonestDownloadsFinish ==
    \A w \in Worker :
        pc[w] = "read" /\ honest[w] /\ Size[job[w]] % BlockSize # 0
            ~> pc[w] = "deliver" \/ closed

(***************************************************************************)
(* After Close all workers end, if the peers do not keep silent and the    *)
(* application goes on to read the responses; before it, Request does not  *)
(* block for ever: the workers, the two bounded channels and the           *)
(* application never all wait for each other.                              *)
(***************************************************************************)
NobodyWaitsForEver ==
    /\ closed ~> \A w \in Worker : pc[w] = "exited"
    /\ calling # None ~> calling = None \/ closed

=============================================================================
