----------------------------- MODULE MCDriveStore -----------------------------
(* Values for the constants of DriveStore. *)
EXTENDS DriveStore, TLC

Symmetry == Permutations(Device) \cup Permutations(Data)
=============================================================================
