------------------------ MODULE MCTorrentDownloader -------------------------
(***************************************************************************)
(* Two workers and a torrent of two blocks, the last of which is short.    *)
(* Five requests fill both workers and the channel and make a caller wait; *)
(* three messages are enough for a peer to send all blocks wrongly.        *)
(***************************************************************************)
EXTENDS TorrentDownloader

CONSTANTS w1, w2, t1

MCSize == [t \in Torrent |-> 3]

=============================================================================
