------------------------------ MODULE MCVault -------------------------------
(* Vault for TLC: the constants are in the .cfg files. *)
EXTENDS Vault, TLC

Alike == Permutations(Windows) \cup Permutations(Ids) \cup Permutations(Origins)
=============================================================================
