------------------------- MODULE MCPolicyOperations -------------------------
(* A small instance of PolicyOperations for TLC. *)
EXTENDS PolicyOperations, TLC

CONSTANTS n1, v1, v2, w1, w2, k1

MCNames == {n1}
MCVersions == {v1, v2}
MCRegistered == {<<n1, v1>>, <<n1, v2>>}
MCWorkers == {w1, w2}
MCIncidentKeys == {k1}
MCRoutes == {<<"dev", "staging">>, <<"staging", "prod">>, <<"dev", "prod">>}
MCTargets == {"staging", "prod"}
Symmetry == Permutations(MCWorkers) \cup Permutations(MCVersions)
=============================================================================
