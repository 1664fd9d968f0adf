--------------------------- MODULE MCRefreshQueue ---------------------------
(***************************************************************************)
(* An instance of RefreshQueue for TLC: the document of one object changes *)
(* twice, that of the other, which shares its runs, once.                  *)
(***************************************************************************)
EXTENDS RefreshQueue, TLC

CONSTANTS p1, p2

Changes == (p1 :> 2) @@ (p2 :> 1)
=============================================================================
