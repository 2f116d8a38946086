----------------------------- MODULE UDPTracker -----------------------------
(***************************************************************************)
(* The UDP tracker protocol (BEP 15): Client of                            *)
(* tracker/udptracker/udp_client.go and Server of udp_server.go, over a    *)
(* network that loses, repeats, reorders and delays datagrams.             *)
(*                                                                         *)
(* A datagram is in queries or replies until it is taken or older than     *)
(* MaxDelay, when it is lost.  A response that arrives when the client     *)
(* does not wait stays in the receive buffer of its socket, until a later  *)
(* request reads it.                                                       *)
(*                                                                         *)
(* Times are ages, saturated above the largest value that is compared.     *)
(***************************************************************************)
EXTENDS Integers

CONSTANTS
    Client,       \* clients, each with an address of its own
    IPv6,         \* the clients with an IPv6 address
    Minute,       \* how long a client uses a connection ID
    Interval,     \* how long the server keeps one, and the period of its cleaner
    MaxDelay,     \* the longest time a datagram is on its way
    MaxTid,       \* bound: requests of a client; transaction IDs are uint32
    MaxCid,       \* bound: connections of a server process; the IDs are uint64
    MaxCopies,    \* bound: datagrams that the network repeats
    MaxEpoch      \* bound: restarts of the server

ASSUME ConstantsAssumption ==
    /\ IPv6 \subseteq Client
    /\ {Minute, Interval} \subseteq Nat \ {0}
    /\ {MaxDelay, MaxTid, MaxCid, MaxCopies, MaxEpoch} \subseteq Nat

\* One minute and two in the code: a connection outlives its use by a client,
\* as long as datagrams take less than half a minute.
ASSUME DelayAssumption == Minute + 2 * MaxDelay <= Interval

VARIABLES
    pc,        \* what each client waits for
    request,   \* the request that the caller of each client has made
    tid,       \* utc.tid
    cid,       \* utc.cid,
    cidEpoch,  \* and the server process that issued it (history)
    last,      \* the age of utc.last
    socket,    \* "expired" once the read deadline is in the past
    result,    \* what the last request of each client returned (history)
    queries,   \* datagrams to the server
    replies,   \* datagrams to the clients, on their way or in a receive buffer
    copies,    \* the datagrams the network will still repeat
    up,        \* the server process runs
    epoch,     \* the number of its restarts (history)
    nextCid,   \* uts.cid
    conns,     \* uts.conns, as a set of connections
    opening,   \* handlers of connect requests between their two steps
    clock,     \* the time since the ticker of cleanConnectionID fired
    handled    \* the requests OnAnnounce and OnScrap accepted (history)

client == <<pc, request, tid, cid, cidEpoch, last, socket, result>>
server == <<up, epoch, nextCid, conns, opening, clock, handled>>
vars == <<client, queries, replies, copies, server>>

Request == {"announce", "scrape"}

Init ==
    /\ pc = [c \in Client |-> "idle"]
    /\ request = [c \in Client |-> "announce"]
    /\ tid = [c \in Client |-> 0]
    /\ cid = [c \in Client |-> 0]
    /\ cidEpoch = [c \in Client |-> 0]
    /\ last = [c \in Client |-> Minute + 1]
    /\ socket = [c \in Client |-> "open"]
    /\ result = [c \in Client |-> "none"]
    /\ queries = {}
    /\ replies = {}
    /\ copies = MaxCopies
    /\ up = TRUE
    /\ epoch = 0
    /\ nextCid = 0
    /\ conns = {}
    /\ opening = {}
    /\ clock = 0
    /\ handled = {}

\* External: a datagram is taken from the network, which may repeat it.
Take(datagrams, d) ==
    \/ datagrams' = datagrams \ {d} /\ UNCHANGED copies
    \/ copies > 0 /\ copies' = copies - 1 /\ UNCHANGED datagrams

-----------------------------------------------------------------------------
(***************************************************************************)
(* Client: Announce and Scrape                                             *)
(***************************************************************************)

Return(c, outcome) ==
    /\ pc' = [pc EXCEPT ![c] = "idle"]
    /\ result' = [result EXCEPT ![c] = outcome]

\* getTranID, an atomic addition.
GetTranID(c) == tid' = [tid EXCEPT ![c] = @ + 1]

\* The request is written to the socket.  A write may fail, and does on a closed
\* socket.
Send(c, kind, id, ep) ==
    /\ GetTranID(c)
    /\ \/ /\ socket[c] # "closed"
          /\ queries' = queries \cup
                {[kind |-> kind, from |-> c, tid |-> tid'[c], cid |-> id, epoch |-> ep, age |-> 0]}
          /\ pc' = [pc EXCEPT ![c] = kind]
          /\ result' = [result EXCEPT ![c] = "none"]
       \/ Return(c, "error") /\ UNCHANGED queries

\* Mutant: a connection ID is used for as long as the server keeps it.
ConnectedForLonger(c) == last[c] <= Interval

\* getConnectionID: utc.cid is not older than a minute.
Connected(c) == last[c] <= Minute

\* The request is sent with the connection ID there is, or after a connect
\* request.
Begin(c, r) ==
    /\ pc[c] = "idle"
    /\ tid[c] + (IF Connected(c) THEN 1 ELSE 2) <= MaxTid
    /\ request' = [request EXCEPT ![c] = r]
    /\ \/ Connected(c) /\ Send(c, r, cid[c], cidEpoch[c])
       \/ ~Connected(c) /\ Send(c, "connect", 0, epoch)
    /\ UNCHANGED <<cid, cidEpoch, last, socket, replies, copies, server>>

Announce(c) == Begin(c, "announce")

Scrape(c) == Begin(c, "scrape")

\* Mutant: the transaction ID of a response is not compared.
AnswersAny(c, d) == d.kind = pc[c]

\* The response has the action and the transaction ID of the request.
Answers(c, d) == d.kind = pc[c] /\ d.tid = tid[c]

\* connect: its answer is followed by the request itself.
ConnectResp(c, d) ==
    /\ pc[c] = "connect"
    /\ Answers(c, d)
    /\ cid' = [cid EXCEPT ![c] = d.cid]
    /\ cidEpoch' = [cidEpoch EXCEPT ![c] = d.epoch]
    /\ last' = [last EXCEPT ![c] = 0]
    /\ Send(c, request[c], d.cid, d.epoch)

\* announce and scrape: their answer is returned.
AnnounceResp(c, d) ==
    /\ pc[c] = "announce"
    /\ Answers(c, d)
    /\ Return(c, "ok")
    /\ UNCHANGED <<tid, cid, cidEpoch, last, queries>>

ScrapeResp(c, d) ==
    /\ pc[c] = "scrape"
    /\ Answers(c, d)
    /\ Return(c, "ok")
    /\ UNCHANGED <<tid, cid, cidEpoch, last, queries>>

\* readResp returns a datagram.  Whatever is no answer, an error response to any
\* request included, ends the call.
ReadResp(c, d) ==
    /\ d.to = c
    /\ socket[c] = "open"
    /\ Take(replies, d)
    /\ \/ ConnectResp(c, d)
       \/ AnnounceResp(c, d)
       \/ ScrapeResp(c, d)
       \/ /\ pc[c] # "idle"
          /\ ~Answers(c, d)
          /\ Return(c, "error")
          /\ UNCHANGED <<tid, cid, cidEpoch, last, queries>>
    /\ UNCHANGED <<request, socket, server>>

\* Mutant: the context is not watched.
CancelNever(c) == FALSE /\ UNCHANGED vars

\* readResp: the context is done.  The read deadline that ends the reader is
\* never taken back.
Cancel(c) ==
    /\ pc[c] # "idle"
    /\ socket[c] = "open"
    /\ socket' = [socket EXCEPT ![c] = "expired"]
    /\ Return(c, "error")
    /\ UNCHANGED <<request, tid, cid, cidEpoch, last, queries, replies, copies, server>>

\* A read with a deadline in the past, or on a closed socket, fails at once.
ReadFails(c) ==
    /\ pc[c] # "idle"
    /\ socket[c] # "open"
    /\ Return(c, "error")
    /\ UNCHANGED <<request, tid, cid, cidEpoch, last, socket, queries, replies, copies, server>>

CloseClient(c) ==
    /\ socket[c] # "closed"
    /\ socket' = [socket EXCEPT ![c] = "closed"]
    /\ UNCHANGED <<pc, request, tid, cid, cidEpoch, last, result, queries, replies, copies, server>>

-----------------------------------------------------------------------------
(***************************************************************************)
(* Server: a goroutine for every datagram                                  *)
(***************************************************************************)

Reply(q, kind, id) ==
    replies' = replies \cup
        {[kind |-> kind, to |-> q.from, tid |-> q.tid, cid |-> id, epoch |-> epoch, age |-> 0]}

\* getConnectionID, an atomic addition.
GetConnectionID == nextCid' = nextCid + 1

\* A connect request, up to the next connection ID.  OnConnect may refuse.
Connect(q) ==
    /\ up
    /\ q.kind = "connect"
    /\ Take(queries, q)
    /\ \/ Reply(q, "error", 0) /\ UNCHANGED <<nextCid, opening>>
       \/ /\ nextCid < MaxCid
          /\ GetConnectionID
          /\ opening' = opening \cup {[from |-> q.from, tid |-> q.tid, cid |-> nextCid + 1]}
          /\ UNCHANGED replies
    /\ UNCHANGED <<client, up, epoch, conns, clock, handled>>

\* addConnection and sendConnResp.
AddConnection(o) ==
    /\ up
    /\ opening' = opening \ {o}
    /\ conns' = {w \in conns : w.cid # o.cid} \cup
                {[cid |-> o.cid, addr |-> o.from, age |-> 0]}
    /\ Reply(o, "connect", o.cid)
    /\ UNCHANGED <<client, queries, copies, up, epoch, nextCid, clock, handled>>

CheckConnection(q) == \E w \in conns : w.cid = q.cid /\ w.addr = q.from

\* The length of an announce request without extensions, and what the server
\* wants of one.
AnnounceLen == 82

MinAnnounceLen(c) == IF c \in IPv6 THEN 94 ELSE 82

\* An announce or scrape request.  OnAnnounce and OnScrap may return an error.
HandlePacket(q) ==
    /\ up
    /\ q.kind \in Request
    /\ Take(queries, q)
    /\ \/ Reply(q, "error", 0) /\ UNCHANGED handled
       \/ /\ CheckConnection(q)
          /\ q.kind = "announce" => AnnounceLen >= MinAnnounceLen(q.from)
          /\ Reply(q, q.kind, 0)
          /\ handled' = handled \cup {<<q.from, q.tid>>}
    /\ UNCHANGED <<client, up, epoch, nextCid, conns, opening, clock>>

IsExpired(w) == w.age > Interval

\* The ticker of cleanConnectionID fires.
CleanConnectionID ==
    /\ up
    /\ clock = Interval
    /\ clock' = 0
    /\ conns' = {w \in conns : ~IsExpired(w)}
    /\ UNCHANGED <<client, queries, replies, copies, up, epoch, nextCid, opening, handled>>

\* Close, a crash, or the end of the process by the Go runtime: the cleaner
\* deletes from the map under the read lock, where other handlers read it.
Down ==
    /\ up
    /\ up' = FALSE
    /\ nextCid' = 0
    /\ conns' = {}
    /\ opening' = {}
    /\ clock' = 0
    /\ UNCHANGED <<client, queries, replies, copies, epoch, handled>>

\* NewServer and Run in a new process.
Restart ==
    /\ ~up
    /\ epoch < MaxEpoch
    /\ up' = TRUE
    /\ epoch' = epoch + 1
    /\ UNCHANGED <<client, queries, replies, copies, nextCid, conns, opening, clock, handled>>

-----------------------------------------------------------------------------
(***************************************************************************)
(* Time                                                                    *)
(***************************************************************************)

Older(a, cap) == IF a < cap THEN a + 1 ELSE cap

\* The datagrams that are not lost, after some time.
Delayed(datagrams) == {[d EXCEPT !.age = @ + 1] : d \in {e \in datagrams : e.age < MaxDelay}}

\* Responses that have arrived at a client that does not wait.
Buffered == {d \in replies : d.age = MaxDelay /\ pc[d.to] = "idle" /\ socket[d.to] = "open"}

\* Time passes when no handler is between two steps, no call is about to return
\* and the ticker is served.
Tick ==
    /\ opening = {}
    /\ clock < Interval
    /\ \A c \in Client : pc[c] # "idle" => socket[c] = "open"
    /\ clock' = IF up THEN clock + 1 ELSE 0
    /\ last' = [c \in Client |-> Older(last[c], Minute + 1)]
    /\ conns' = {[w EXCEPT !.age = Older(@, 2 * Interval + 1)] : w \in conns}
    /\ queries' = Delayed(queries)
    /\ replies' = Delayed(replies) \cup Buffered
    /\ UNCHANGED <<pc, request, tid, cid, cidEpoch, socket, result, copies>>
    /\ UNCHANGED <<up, epoch, nextCid, opening, handled>>

Next ==
    \/ \E c \in Client :
        \/ Announce(c)
        \/ Scrape(c)
        \/ \E d \in replies : ReadResp(c, d)
        \/ Cancel(c)
        \/ ReadFails(c)
        \/ CloseClient(c)
    \/ \E q \in queries : Connect(q) \/ HandlePacket(q)
    \/ \E o \in opening : AddConnection(o)
    \/ CleanConnectionID
    \/ Down
    \/ Restart
    \/ Tick

Spec == Init /\ [][Next]_vars

\* The caller's context is done some time, and a read that fails returns.
\* Nothing is assumed of the server and of the network.
FairSpec == Spec /\ \A c \in Client : WF_vars(Cancel(c)) /\ WF_vars(ReadFails(c))

-----------------------------------------------------------------------------
(***************************************************************************)
(* Properties                                                              *)
(***************************************************************************)

Kind == {"connect"} \cup Request

Query == [kind : Kind, from : Client, tid : 0..MaxTid, cid : 0..MaxCid,
          epoch : 0..MaxEpoch, age : 0..MaxDelay]
Answer == [kind : Kind \cup {"error"}, to : Client, tid : 0..MaxTid, cid : 0..MaxCid,
           epoch : 0..MaxEpoch, age : 0..MaxDelay]
Connection == [cid : 1..MaxCid, addr : Client, age : 0..(2 * Interval + 1)]
Opening == [from : Client, tid : 0..MaxTid, cid : 1..MaxCid]

TypeOK ==
    /\ pc \in [Client -> Kind \cup {"idle"}]
    /\ request \in [Client -> Request]
    /\ tid \in [Client -> 0..MaxTid]
    /\ cid \in [Client -> 0..MaxCid]
    /\ cidEpoch \in [Client -> 0..MaxEpoch]
    /\ last \in [Client -> 0..(Minute + 1)]
    /\ socket \in [Client -> {"open", "expired", "closed"}]
    /\ result \in [Client -> {"none", "ok", "error"}]
    /\ queries \subseteq Query
    /\ replies \subseteq Answer
    /\ copies \in 0..MaxCopies
    /\ up \in BOOLEAN
    /\ epoch \in 0..MaxEpoch
    /\ nextCid \in 0..MaxCid
    /\ conns \subseteq Connection
    /\ opening \subseteq Opening
    /\ clock \in 0..Interval
    /\ handled \subseteq (Client \X (0..MaxTid))

\* A call that returns without an error was handled by the server, this call
\* and not an earlier one, although responses come late, twice and in any order,
\* and the buffer of the socket keeps those that earlier calls did not read.
OkMeansHandled == \A c \in Client : result[c] = "ok" => <<c, tid[c]>> \in handled

\* A client that uses a connection ID for a minute is never told that it is
\* expired, unless the server was restarted: the connection is there whenever
\* the request arrives.
FreshConnectionIsAccepted ==
    up => \A q \in queries : q.kind \in Request /\ q.epoch = epoch => CheckConnection(q)

\* Announce and Scrape return, whatever happens to the datagrams and to the
\* server, once their contexts are done.
CallsReturn == \A c \in Client : pc[c] # "idle" ~> pc[c] = "idle"

=============================================================================
