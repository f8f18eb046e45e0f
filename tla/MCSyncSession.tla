---------------------------- MODULE MCSyncSession -----------------------------
(* Values for the constants of SyncSession. *)
EXTENDS SyncSession, TLC

Symmetry == Permutations(Process)
=============================================================================
