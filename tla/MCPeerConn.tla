----------------------------- MODULE MCPeerConn -----------------------------
(***************************************************************************)
(* Instance of PeerConn for TLC: the accepting end sends the messages of   *)
(* an uploader, the dialing end some of those of a downloader.             *)
(***************************************************************************)
EXTENDS PeerConn, TLC

CONSTANTS d, a, h1, h2

MCExtBits == {[e \in {d, a} |-> x] : x \in {{}, {"dht", "fast", "extended"}}}

MCSends ==
    (d :> {"cancel", "haveAll", "extHandshake", "extEmpty", "extMsg"}) @@
    (a :> {"keepalive", "have", "bitfield", "piece", "suggest", "haveAll", "haveNone", "reject",
           "allowedFast", "port", "extMsg"})

=============================================================================
