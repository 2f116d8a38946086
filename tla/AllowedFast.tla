---------------------------- MODULE AllowedFast ----------------------------
(***************************************************************************)
(* GenerateAllowedFastSet of package peerprotocol: the pieces that a peer  *)
(* may request while it is choked (BEP 6).  Five indexes are drawn from    *)
(* each SHA-1 of a chain; what they are is arbitrary here.                 *)
(***************************************************************************)
EXTENDS Integers, Sequences

CONSTANTS
    Sz,        \* pieces of the torrent
    Ks,        \* numbers of indexes that are asked for
    MaxDraws   \* Bound: indexes drawn

ASSUME SzAssumption == Sz \in Nat \ {0} /\ Ks \subseteq Nat

VARIABLES
    fset,   \* the slice, of which the caller has made the length
    cur,    \* the slots that are filled
    drawn   \* (history) the indexes drawn

fvars == <<fset, cur, drawn>>

FInit ==
    /\ \E k \in Ks : fset = [i \in 1..k |-> 0]
    /\ cur = 0
    /\ drawn = <<>>

\* Mutant: an index is taken without a look at those before it.
DrawAny ==
    /\ cur < Len(fset) /\ Len(drawn) < MaxDraws
    /\ \E index \in 0..(Sz - 1) :
        /\ drawn' = Append(drawn, index)
        /\ fset' = [fset EXCEPT ![cur + 1] = index]
        /\ cur' = cur + 1

\* The body of the inner loop: the whole slice is searched for the index, with
\* the zeros of the slots that are still to be filled.
Draw ==
    /\ cur < Len(fset) /\ Len(drawn) < MaxDraws
    /\ \E index \in 0..(Sz - 1) :
        /\ drawn' = Append(drawn, index)
        /\ IF \E i \in DOMAIN fset : fset[i] = index
           THEN UNCHANGED <<fset, cur>>
           ELSE fset' = [fset EXCEPT ![cur + 1] = index] /\ cur' = cur + 1

-----------------------------------------------------------------------------

FSpec == FInit /\ [][Draw]_fvars

\* index was first drawn by the p-th of the draws d.
FirstDrawn(d, p, index) == d[p] = index /\ \A q \in 1..(p - 1) : d[q] # index

\* The set is the first of the pieces drawn, each once and in the order in which
\* both ends of the connection draw them, so that a shorter set is the beginning
\* of a longer one.  Piece 0 is never among them, and a set as large as the
\* torrent is never complete: the loop goes on.
FastSetIsFirstDraws ==
    /\ \A k \in 1..cur : fset[k] # 0 /\ \E p \in DOMAIN drawn : FirstDrawn(drawn, p, fset[k])
    /\ \A j, k \in 1..cur : \A p, q \in DOMAIN drawn :
          j < k /\ FirstDrawn(drawn, p, fset[j]) /\ FirstDrawn(drawn, q, fset[k]) => p < q
    /\ \A p \in DOMAIN drawn : drawn[p] # 0 => \E k \in 1..cur : fset[k] = drawn[p]
    /\ Len(fset) >= Sz => cur < Len(fset)

=============================================================================
