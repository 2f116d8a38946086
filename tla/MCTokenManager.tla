--------------------------- MODULE MCTokenManager ---------------------------
(***************************************************************************)
(* Instance of TokenManager for TLC.                                       *)
(***************************************************************************)
EXTENDS TokenManager, TLC

CONSTANTS x, y

\* The nodes are interchangeable.
Symmetry == Permutations(Addr)

=============================================================================
