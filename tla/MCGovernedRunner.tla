------------------------- MODULE MCGovernedRunner -------------------------
(* A small instance of GovernedRunner for TLC: two concurrent calls, a       *)
(* runner that checks every point and one that only checks the output.       *)
EXTENDS GovernedRunner, TLC

CONSTANTS c1, c2, o1, o2, a, b

MCCalls == {c1, c2}
MCObservers == {o1, o2}
MCPoints == {"PRE_INPUT", "PRE_TOOL", "PRE_OUTPUT"}
MCPolicies == {a, b}
MCPolicySets == {MCPoints, {"PRE_OUTPUT"}}
Symmetry == Permutations(MCCalls) \cup Permutations(MCObservers) \cup Permutations(MCPolicies)
=============================================================================
