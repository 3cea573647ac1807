----------------------------- MODULE MCLmdbStore -----------------------------
(***************************************************************************)
(* The LMDB store for TLC, a minute shortened to two seconds.              *)
(***************************************************************************)
EXTENDS LmdbStore, TLC

Symmetry == Permutations(Processes)
=============================================================================
