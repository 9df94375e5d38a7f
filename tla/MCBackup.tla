------------------------------ MODULE MCBackup ------------------------------
\* Symmetry for model checking: nothing distinguishes the entries of a store.
EXTENDS Backup, TLC

EntrySymmetry == Permutations(Entries)
=============================================================================
