------------------------------ MODULE MCLocker ------------------------------
(* Locker for TLC: the constants are in the .cfg files. *)
EXTENDS Locker, FiniteSets, TLC

Interchangeable == Permutations(Windows) \cup Permutations(Mnemonics)
=============================================================================
