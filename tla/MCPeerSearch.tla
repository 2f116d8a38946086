---------------------------- MODULE MCPeerSearch ----------------------------
(***************************************************************************)
(* Instances of PeerSearch for TLC.                                        *)
(***************************************************************************)
EXTENDS PeerSearch

=============================================================================
