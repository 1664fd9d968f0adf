----------------------------- MODULE MCGmnStore -----------------------------
(***************************************************************************)
(* Instances of GmnStore for TLC.                                          *)
(***************************************************************************)
EXTENDS GmnStore, TLC

CONSTANTS rev1, rev2, rev3, series  \* three revisions and the SID of their series

Doc(p, o, ob, sid) == [pid |-> p, obsoletes |-> o, obsoletedBy |-> ob,
                       seriesId |-> sid, archived |-> FALSE]

NoDocs == {}

(* rev1 <- rev2 <- rev3, every document with the SID of the series. *)
Series == {Doc(rev1, None, rev2, series), Doc(rev2, rev1, rev3, series), Doc(rev3, rev2, None, series)}

Remote == {rev1, rev2, rev3, series}

(* rev1 <- rev2, where only rev1 has the SID. *)
EarlySid == {Doc(rev1, None, rev2, series), Doc(rev2, rev1, None, None)}

Remote2 == {rev1, rev2, series}

(* Objects that no document of the source mentions are interchangeable. *)
Symmetry == Permutations(Pids) \cup Permutations(Sids)
=============================================================================
