--------------------------- MODULE MCTorrentFiles ---------------------------
(***************************************************************************)
(* Pieces of four bytes and blocks of three: a single file; files that end *)
(* inside a piece, with a piece and with a block; empty files at the       *)
(* beginning, in the middle and at the end; a piece that three files share.*)
(***************************************************************************)
EXTENDS TorrentFiles

MCLayouts == {<<5>>, <<4, 1>>, <<0, 3, 1>>, <<1, 0, 3>>, <<3, 0>>, <<1, 2, 1, 1>>}

=============================================================================
