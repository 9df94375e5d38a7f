----------------------------- MODULE MCRequests -----------------------------
\* Symmetry for model checking: nothing distinguishes the tabs of a site.
EXTENDS Requests, TLC

TabSymmetry == Permutations(Tabs)
=============================================================================
