---------------------------- MODULE MCServerLocks ----------------------------
(***************************************************************************)
(* Instance of ServerLocks for TLC.                                        *)
(***************************************************************************)
EXTENDS ServerLocks, TLC

CONSTANTS a, b, c, x

MCTo == [q \in Call |-> x]

\* The check of the first table PINGs.
MCTableOf == [q \in Checking |-> 1]

\* The node of a may give either answer and both; that of the PING has moved.
MCAnswers == {<<a, "response">>, <<a, "error">>, <<b, "response">>}

=============================================================================
