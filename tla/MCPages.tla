------------------------------ MODULE MCPages ------------------------------
(* Pages on two sites and two identities, of which any may take the other's place.  The  *)
(* second request may be of any kind that a site sends while the popup shows the first:  *)
(* two kinds are enough.  Requests and disturbances are at most three.                   *)
EXTENDS Pages, TLC

Symmetric == Permutations(Sites) \cup Permutations(Identities)

Bounded ==
  /\ \A m \in wire : m.id > 1 => m.kind \in {"connect", "reveal"}
  /\ requests + restarts + elsewhere + Cardinality({s \in Sites : providers[s].made > 1}) <= 3
=============================================================================
