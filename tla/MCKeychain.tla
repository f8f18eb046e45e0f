------------------------------ MODULE MCKeychain ------------------------------
(* Values for the constants of Keychain. *)
EXTENDS Keychain, TLC

Symmetry == Permutations(Process) \cup Permutations(Password)
=============================================================================
