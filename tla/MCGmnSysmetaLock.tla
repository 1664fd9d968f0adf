-------------------------- MODULE MCGmnSysmetaLock --------------------------
(***************************************************************************)
(* An instance of GmnSysmetaLock for TLC: nothing is imported.             *)
(***************************************************************************)
EXTENDS GmnSysmetaLock, TLC

NoDocs == {}

Symmetry == Permutations(Pids) \cup Permutations(Sids)
=============================================================================
