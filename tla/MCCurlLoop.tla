----------------------------- MODULE MCCurlLoop -----------------------------
(***************************************************************************)
(* Instances of CurlLoop for TLC: two requests racing for one client.      *)
(***************************************************************************)
EXTENDS CurlLoop, TLC, FiniteSets

CONSTANTS r1, r2

Symmetry == Permutations(Req) \cup Permutations(Ids)

ASSUME Cardinality(Ids) >= Cardinality(Req)

=============================================================================
