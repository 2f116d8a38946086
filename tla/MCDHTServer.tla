----------------------------- MODULE MCDHTServer -----------------------------
(***************************************************************************)
(* Instance of DHTServer for TLC.                                          *)
(***************************************************************************)
EXTENDS DHTServer, TLC

CONSTANTS a, b, m, n

\* n moves between two ports of an IPv4 address and an IPv6 address; m, which is
\* read-only, is at the IPv6 address.
MCHomes == (n :> {<<a, 1>>, <<a, 2>>, <<b, 1>>}) @@ (m :> {<<b, 2>>})

MCBegin == (n :> <<a, 1>>) @@ (m :> <<b, 2>>)

=============================================================================
