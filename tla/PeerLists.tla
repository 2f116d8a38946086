----------------------------- MODULE PeerLists -----------------------------
(***************************************************************************)
(* What a tracker is asked and what it answers, as it is converted on its  *)
(* way: tracker.Client over httptracker and udptracker, and the lists of   *)
(* nodes in a response of the DHT.  That datagrams get lost, late or twice *)
(* is the subject of UDPTracker.                                           *)
(*                                                                         *)
(* An HTTP query is a function from parameters to values; a datagram is a  *)
(* sequence of units, one for each field, byte of an extension, or unit of *)
(* Compact.  A number in a query is the number; the integer types have few *)
(* bits here, and are unsigned on the wire.                                *)
(***************************************************************************)
EXTENDS Compact, FiniteSets, TLC

CONSTANTS
    ByteBits,   \* bits of a uint8
    IntBits,    \* bits of an int32 and a uint32
    LongBits,   \* bits of an int64 and a uint64
    ClientID,   \* the ID of the client
    Paths,      \* RequestURI of the tracker's URL, not empty
    Requests,   \* the announce requests that are made
    Torrents,   \* infohashes
    Stats,      \* what the tracker knows: results of some torrents
    Answers,    \* what it may answer to an announce request
    NodeLists,  \* nodes that a DHT server may answer with
    BufSize,    \* MaxBufSize of the UDP client
    Extra6      \* what an announce request over IPv6 needs behind the port

VARIABLES
    pc,         \* "new", "idle", "announced", "scraped", "announceResp",
                \* "scrapeResp", "nodes", "done", "failed" or "panic"
    transport,  \* what the URL leads to: "http", "udp4", "udp6" or "unknown"
    path,       \* its RequestURI
    req,        \* the request that was made
    wire,       \* what is on the way
    seen,       \* what the handler of the server was given
    answer,     \* what it answered
    got         \* what the client returned

pvars == <<pc, transport, path, req, wire, seen, answer, got>>

Nothing == <<>>
UDP == {"udp4", "udp6"}

Unsigned(n, bits) == n % 2^bits
Signed(n, bits) ==
    LET u == n % 2^bits IN IF u < 2^(bits - 1) THEN u ELSE u - 2^bits

PInit ==
    /\ pc = "new"
    /\ transport = "unknown" /\ path = Nothing
    /\ req = Nothing /\ wire = Nothing /\ seen = Nothing /\ answer = Nothing /\ got = Nothing

\* NewClient.  The error about an unknown scheme is not returned.
NewClient ==
    /\ pc = "new"
    /\ transport' \in {"http", "unknown"} \cup UDP
    /\ path' \in (IF transport' \in UDP THEN Paths ELSE {Nothing})
    /\ pc' = "idle"
    /\ UNCHANGED <<req, wire, seen, answer, got>>

-----------------------------------------------------------------------------
(* HTTP requests.                                                          *)

\* ToHTTPAnnounceRequest: the IP as a text, if there is one.
ToHTTPAnnounceRequest(r) == [r EXCEPT !.ip = IF r.ip = <<>> THEN <<>> ELSE <<Text(r.ip)>>]

\* Mutant: numwant is set only if it is positive, as event and port are.
ToQueryPositive(r) ==
    LET optional == [ip |-> r.ip,
                     event |-> IF r.event > 0 THEN <<r.event>> ELSE <<>>,
                     port |-> IF r.port > 0 THEN <<r.port>> ELSE <<>>,
                     numwant |-> IF r.numwant > 0 THEN <<r.numwant>> ELSE <<>>,
                     key |-> IF r.key # 0 THEN <<r.key>> ELSE <<>>]
    IN  [info_hash |-> <<r.infohash>>, peer_id |-> <<ClientID>>, uploaded |-> <<r.uploaded>>,
         downloaded |-> <<r.downloaded>>, left |-> <<r.left>>] @@ optional

\* ToQuery of a request in which Announce has set the ID: parameter |-> <<value>>,
\* or <<>> where it is not set.  uint64(NumWant) extends the sign.
ToQuery(r) ==
    LET optional == [ip |-> r.ip,
                     event |-> IF r.event > 0 THEN <<r.event>> ELSE <<>>,
                     port |-> IF r.port > 0 THEN <<r.port>> ELSE <<>>,
                     numwant |-> IF r.numwant # 0 THEN <<Unsigned(r.numwant, LongBits)>> ELSE <<>>,
                     key |-> IF r.key # 0 THEN <<r.key>> ELSE <<>>]
    IN  [info_hash |-> <<r.infohash>>, peer_id |-> <<ClientID>>, uploaded |-> <<r.uploaded>>,
         downloaded |-> <<r.downloaded>>, left |-> <<r.left>>] @@ optional

\* FromQuery.
FromQuery(vs) ==
    LET Get(p) == IF vs[p] = <<>> THEN 0 ELSE vs[p][1] IN
    [infohash |-> Get("info_hash"), peerid |-> Get("peer_id"), uploaded |-> Get("uploaded"),
     downloaded |-> Get("downloaded"), left |-> Get("left"),
     event |-> Unsigned(Get("event"), IntBits), port |-> Get("port"),
     numwant |-> Signed(Get("numwant"), IntBits), key |-> Signed(Get("key"), IntBits),
     ip |-> vs["ip"], exts |-> <<>>]

-----------------------------------------------------------------------------
(* UDP requests.                                                           *)

URLData == 2

NewURLData(data) == [type |-> URLData, length |-> Unsigned(Len(data), ByteBits), data |-> data]

\* Extension.EncodeTo; it does not panic for what NewURLData returns.
EncodeExt(e) == <<e.type, e.length>> \o e.data

\* An access out of the bounds of a slice.
OutOfBounds == [type |-> -1, length |-> 0, data |-> <<>>]

\* The loop of AnnounceRequest.DecodeFrom with Extension.DecodeFrom; a length
\* that is more than what is left leads out of the bounds.
RECURSIVE DecodeExts(_)
DecodeExts(b) ==
    IF b = <<>> THEN <<>>
    ELSE IF Len(b) = 1 THEN <<[type |-> b[1], length |-> 0, data |-> <<>>]>>
    ELSE IF b[2] + 2 > Len(b) THEN <<OutOfBounds>>
    ELSE <<[type |-> b[1], length |-> b[2], data |-> SubSeq(b, 3, b[2] + 2)]>>
            \o DecodeExts(SubSeq(b, b[2] + 3, Len(b)))

\* ToUDPAnnounceRequest, which leaves out the IP.
ToUDPAnnounceRequest(r) == [field \in DOMAIN r \ {"ip"} |-> r[field]]

\* AnnounceRequest.EncodeTo, with the ID of the client and the path.
EncodeRequest(r) ==
    LET numwant == IF r.numwant <= 0 THEN -1 ELSE r.numwant IN
    <<r.infohash, ClientID, Unsigned(r.downloaded, LongBits), Unsigned(r.left, LongBits),
      Unsigned(r.uploaded, LongBits), r.event, 0, Unsigned(r.key, IntBits),
      Unsigned(numwant, IntBits), r.port>> \o EncodeExt(NewURLData(path))

\* AnnounceRequest.DecodeFrom.
DecodeRequest(b) ==
    [infohash |-> b[1], peerid |-> b[2], downloaded |-> Signed(b[3], LongBits),
     left |-> Signed(b[4], LongBits), uploaded |-> Signed(b[5], LongBits), event |-> b[6],
     key |-> Signed(b[8], IntBits), numwant |-> Signed(b[9], IntBits), port |-> b[10],
     ip |-> <<>>, exts |-> DecodeExts(SubSeq(b, 11, Len(b)))]

-----------------------------------------------------------------------------

\* Announce.  A client of an unknown scheme has neither an HTTP nor a UDP client.
Announce ==
    /\ pc = "idle"
    /\ \E r \in Requests :
        /\ req' = r
        /\ pc' = IF transport = "unknown" THEN "panic" ELSE "announced"
        /\ wire' = CASE transport = "http" -> ToQuery(ToHTTPAnnounceRequest(r))
                     [] transport \in UDP -> EncodeRequest(ToUDPAnnounceRequest(r))
                     [] OTHER -> Nothing
    /\ UNCHANGED <<transport, path, seen, answer, got>>

\* Scrape, of a list of infohashes.
Scrape ==
    /\ pc = "idle"
    /\ \E hs \in UNION {[1..n -> Torrents] : n \in 0..2} :
        /\ req' = hs
        /\ pc' = IF transport = "unknown" THEN "panic" ELSE "scraped"
        /\ wire' = hs
    /\ UNCHANGED <<transport, path, seen, answer, got>>

-----------------------------------------------------------------------------
(* HTTP responses.  A peer has an ID, a host and a port.                   *)

\* Peers.MarshalBencode: compact, which drops the IDs, if all peers are IPv4
\* addresses, else a list; and nothing for no peers, because of omitempty.
MarshalPeers(ps) ==
    LET addrs == [i \in DOMAIN ps |-> [ip |-> To4(ParseIP(ps[i].host)), port |-> ps[i].port]] IN
    IF ps = <<>> THEN <<"absent">>
    ELSE IF \A i \in DOMAIN ps : addrs[i].ip # <<>> THEN <<"compact", MarshalIPv4(addrs)>>
    ELSE <<"list", ps>>

\* Peers6.MarshalBencode, which fails for a host name.
MarshalPeers6(ps) ==
    LET addrs == [i \in DOMAIN ps |-> [ip |-> ParseIP(ps[i].host), port |-> ps[i].port]] IN
    IF ps = <<>> THEN <<"absent">>
    ELSE IF \E i \in DOMAIN ps : addrs[i].ip = <<>> THEN <<"error">>
    ELSE <<"compact", MarshalIPv6(addrs)>>

\* UnmarshalBencode of the two.
UnmarshalPeers(v, size) ==
    LET addrs == UnmarshalAddrs(v[2], size) IN
    CASE v[1] = "absent" -> <<>>
      [] v[1] = "list" -> v[2]
      [] OTHER -> [i \in DOMAIN addrs |->
                      [id |-> "", host |-> Text(addrs[i].ip), port |-> addrs[i].port]]

\* An httptracker.AnnounceResponse, bencoded.
EncodeHTTP(a) ==
    LET Written(ps) == [i \in DOMAIN ps |->
            IF ps[i].host[1] = "ip" THEN [ps[i] EXCEPT !.host = Text(ps[i].host[2])] ELSE ps[i]]
    IN  [interval |-> a.interval, complete |-> a.seeders, incomplete |-> a.leechers,
         peers |-> MarshalPeers(Written(a.peers)), peers6 |-> MarshalPeers6(Written(a.peers6))]

\* FromHTTPAnnounceResponse of what was decoded.
FromHTTP(r) ==
    LET ps == UnmarshalPeers(r.peers, IPv4len + 1) \o UnmarshalPeers(r.peers6, IPv6len + 1) IN
    [interval |-> r.interval, leechers |-> r.incomplete, seeders |-> r.complete,
     addresses |-> [i \in DOMAIN ps |-> [host |-> ps[i].host, port |-> ps[i].port]]]

-----------------------------------------------------------------------------
(* UDP responses.                                                          *)

\* What the handler of a UDP tracker answers with: addresses.
Addresses(a) ==
    LET ps == a.peers \o a.peers6
    IN  [i \in DOMAIN ps |-> [ip |-> ps[i].host[2], port |-> ps[i].port]]

InFamily(ip, ipv4) == IF ipv4 THEN To4(ip) ELSE To16(ip)

\* AnnounceResponse.EncodeTo panics for an address that the client, by its own
\* address, cannot have in the compact form.
EncodePanics(a, ipv4) == \E i \in DOMAIN Addresses(a) : InFamily(Addresses(a)[i].ip, ipv4) = <<>>

EncodeUDP(a, ipv4) ==
    LET addrs == Addresses(a) IN
    <<a.interval, a.leechers, a.seeders>> \o FlattenSeq([i \in DOMAIN addrs |->
        WriteBinary([addrs[i] EXCEPT !.ip = InFamily(addrs[i].ip, ipv4)])])

\* A datagram that is longer than the buffer is cut.
Read(datagram) == SubSeq(datagram, 1, IF Len(datagram) < BufSize THEN Len(datagram) ELSE BufSize)

\* AnnounceResponse.DecodeFrom and FromUDPAnnounceResponse.
FromUDP(b, ipv4) ==
    LET step == (IF ipv4 THEN IPv4len ELSE IPv6len) + 1
        addrs == Cut(SubSeq(b, 4, Len(b)), step)
        Addr(i) == UnmarshalBinary(addrs[i])
    IN  [interval |-> b[1], leechers |-> b[2], seeders |-> b[3],
         addresses |-> [i \in DOMAIN addrs |-> [host |-> Text(Addr(i).ip), port |-> Addr(i).port]]]

\* Mutant: the fields are in the order in which the struct declares them.
EncodeScrapeAsDeclared(rs) ==
    FlattenSeq([i \in DOMAIN rs |-> <<rs[i].seeders, rs[i].leechers, rs[i].completed>>])

\* ScrapeResponse.EncodeTo of the results, and DecodeFrom.
EncodeScrape(rs) ==
    FlattenSeq([i \in DOMAIN rs |-> <<rs[i].seeders, rs[i].completed, rs[i].leechers>>])

DecodeScrape(b) ==
    LET rs == Cut(b, 3)
    IN  [i \in DOMAIN rs |-> [seeders |-> rs[i][1], completed |-> rs[i][2], leechers |-> rs[i][3]]]

\* The files of an httptracker.ScrapeResponse, and FromHTTPScrapeResponse.
Files(known) ==
    [h \in known |-> [complete |-> Stats[h].seeders, downloaded |-> Stats[h].completed,
                      incomplete |-> Stats[h].leechers]]

FromHTTPScrape(files) ==
    [h \in DOMAIN files |-> [seeders |-> files[h].complete, completed |-> files[h].downloaded,
                             leechers |-> files[h].incomplete]]

\* FromUDPScrapeResponse: the i-th result is that of the i-th infohash, and of
\* an infohash that comes twice the later one counts.
FromUDPScrape(hs, rs) ==
    LET n == IF Len(rs) < Len(hs) THEN Len(rs) ELSE Len(hs)
        LastOf(h) == CHOOSE i \in 1..n : hs[i] = h /\ \A j \in (i + 1)..n : hs[j] # h
    IN  [h \in {hs[i] : i \in 1..n} |-> rs[LastOf(h)]]

-----------------------------------------------------------------------------
(* The servers, and what the client returns.                               *)

\* The request fails at the server, which sees it or not.
Ends(outcome, what) ==
    /\ pc' = outcome
    /\ seen' = what
    /\ wire' = Nothing
    /\ UNCHANGED answer

\* A server of the HTTP tracker: FromQuery, and an answer or a failure reason.
HandleHTTP ==
    /\ pc = "announced" /\ transport = "http"
    /\ LET r == FromQuery(wire) IN
        \/ Ends("failed", r)
        \/ \E a \in Answers :
            /\ seen' = r /\ answer' = a
            /\ wire' = EncodeHTTP(a)
            /\ pc' = IF EncodeHTTP(a).peers6 = <<"error">> THEN "failed" ELSE "announceResp"
    /\ UNCHANGED <<transport, path, req, got>>

\* handlePacket of the UDP tracker for an announce request.
HandleUDP ==
    /\ pc = "announced" /\ transport \in UDP
    /\ LET r == DecodeRequest(wire)
           ipv4 == transport = "udp4"
       IN  IF ~ipv4 /\ Len(wire) - 10 < Extra6 THEN Ends("failed", Nothing)
           ELSE IF Contains(r.exts, OutOfBounds) THEN Ends("panic", Nothing)
           ELSE \/ Ends("failed", r)
                \/ \E a \in Answers :
                    /\ \A i \in DOMAIN (a.peers \o a.peers6) : (a.peers \o a.peers6)[i].host[1] = "ip"
                    /\ seen' = r /\ answer' = a
                    /\ IF EncodePanics(a, ipv4)
                       THEN pc' = "panic" /\ wire' = Nothing
                       ELSE pc' = "announceResp" /\ wire' = EncodeUDP(a, ipv4)
    /\ UNCHANGED <<transport, path, req, got>>

\* Announce returns.
AnnounceReturns ==
    /\ pc = "announceResp"
    /\ got' = IF transport = "http" THEN FromHTTP(wire) ELSE FromUDP(Read(wire), transport = "udp4")
    /\ pc' = "done"
    /\ UNCHANGED <<transport, path, req, wire, seen, answer>>

\* The tracker answers to a scrape request: over HTTP with the files it knows,
\* over UDP with results in the order of the infohashes, perhaps fewer, but not
\* if there are none; or with an error.
HandleScrape ==
    /\ pc = "scraped"
    /\ \/ Ends("failed", wire)
       \/ /\ IF transport = "http"
             THEN wire' \in {Files(known) : known \in SUBSET ToSet(wire)}
             ELSE /\ wire # <<>>
                  /\ \E n \in 0..Len(wire) : wire' = EncodeScrape([i \in 1..n |-> Stats[wire[i]]])
          /\ seen' = wire
          /\ pc' = "scrapeResp"
          /\ UNCHANGED answer
    /\ UNCHANGED <<transport, path, req, got>>

\* Scrape returns: FromHTTPScrapeResponse or FromUDPScrapeResponse.
ScrapeReturns ==
    /\ pc = "scrapeResp"
    /\ got' = IF transport = "http" THEN FromHTTPScrape(wire)
              ELSE FromUDPScrape(req, DecodeScrape(Read(wire)))
    /\ pc' = "done"
    /\ UNCHANGED <<transport, path, req, wire, seen, answer>>

\* A DHT server answers with nodes of its IPv4 and of its IPv6 table.
SendNodes ==
    /\ pc = "new"
    /\ \E l \in NodeLists :
        /\ answer' = l
        /\ wire' = [nodes |-> MarshalNodes(l.nodes), nodes6 |-> MarshalNodes6(l.nodes6)]
    /\ pc' = "nodes"
    /\ UNCHANGED <<transport, path, req, seen, got>>

\* The server that asked decodes the response.
ReceiveNodes ==
    /\ pc = "nodes"
    /\ got' = UnmarshalNodes(wire.nodes, IPv4len + 2) \o UnmarshalNodes(wire.nodes6, IPv6len + 2)
    /\ pc' = "done"
    /\ UNCHANGED <<transport, path, req, wire, seen, answer>>

PNext ==
    \/ NewClient \/ Announce \/ Scrape
    \/ HandleHTTP \/ HandleUDP \/ AnnounceReturns
    \/ HandleScrape \/ ScrapeReturns
    \/ SendNodes \/ ReceiveNodes

-----------------------------------------------------------------------------

(***************************************************************************)
(* Both trackers read the announce request that was made, negative and     *)
(* absent numbers included; over UDP a number of peers that is not pos-    *)
(* itive asks for the default, and the IP is not sent.  The path arrives   *)
(* if and only if a byte can hold its length.                              *)
(***************************************************************************)
RequestsArrive ==
    pc = "announceResp" =>
        LET udp == transport \in UDP IN
        /\ <<seen.infohash, seen.uploaded, seen.downloaded, seen.left, seen.event, seen.port, seen.key>>
            = <<req.infohash, req.uploaded, req.downloaded, req.left, req.event, req.port, req.key>>
        /\ seen.peerid = ClientID
        /\ seen.numwant = IF udp /\ req.numwant <= 0 THEN -1 ELSE req.numwant
        /\ seen.ip = IF udp \/ req.ip = <<>> THEN <<>> ELSE <<Text(req.ip)>>
        /\ udp => (Len(path) < 2^ByteBits <=> seen.exts = <<NewURLData(path)>>)

\* The addresses of an answer, in any form.
Sent(a) ==
    LET ps == a.peers \o a.peers6
    IN  [i \in DOMAIN ps |->
            [host |-> IF ps[i].host[1] = "ip" THEN Text(ps[i].host[2]) ELSE ps[i].host,
             port |-> ps[i].port]]

(***************************************************************************)
(* What the client returns is what the tracker answered, whichever form    *)
(* its addresses took on the way; over UDP a list that is too long for the *)
(* buffer loses its end, but no address is made of parts.  A result of     *)
(* Scrape is that of its torrent.  The nodes in a response of the DHT      *)
(* arrive, each with its ID.                                               *)
(***************************************************************************)
ResponsesArrive ==
    pc = "done" =>
        IF transport = "unknown"
        THEN LET nodes == answer.nodes \o answer.nodes6 IN
             /\ Len(got) = Len(nodes)
             /\ \A i \in DOMAIN got : got[i].id = nodes[i].id /\ Equal(got[i].addr, nodes[i].addr)
        ELSE IF answer = Nothing
        THEN \A h \in DOMAIN got : Contains(req, h) /\ got[h] = Stats[h]
        ELSE LET size == (IF transport = "udp4" THEN IPv4len ELSE IPv6len) + 1 IN
             /\ <<got.interval, got.leechers, got.seeders>>
                 = <<answer.interval, answer.leechers, answer.seeders>>
             /\ IsPrefix(got.addresses, Sent(answer))
             /\ \/ Len(got.addresses) = Len(Sent(answer))
                \/ transport \in UDP /\ Len(got.addresses) = (BufSize - 3) \div size

=============================================================================
