---------------------------- MODULE MCUDPTracker ----------------------------
(***************************************************************************)
(* Instance of UDPTracker for TLC.                                         *)
(***************************************************************************)
EXTENDS UDPTracker, TLC

CONSTANT a

=============================================================================
