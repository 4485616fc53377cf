-------------------------- MODULE MCVersionResolver --------------------------
(* A small instance of VersionResolver for TLC. *)
EXTENDS VersionResolver, TLC

CONSTANTS n1, v1, v2, t1, t2, a1

MCNames == {n1}
MCVersions == {v1, v2}
MCRegistered == {<<n1, v1>>, <<n1, v2>>}
MCKeysInUse == {<<n1, "staging">>, <<n1, "prod">>}
MCThreads == {t1, t2}
MCActivators == {a1}
Symmetry == Permutations(MCThreads) \cup Permutations(MCVersions)
=============================================================================
