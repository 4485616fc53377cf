---------------------------- MODULE ReplayCache ----------------------------
(***************************************************************************)
(* The replay caches of the delegation boundary: InMemoryReplayCache       *)
(* (python/governance/delegation.py) and MemoryReplayCache                 *)
(* (go-sidecar/mesh/sidecar.go).  Both remember the expiry of every nonce  *)
(* that was used, forget the expired ones before each use, and do so under *)
(* one lock: a use is one atomic step.  They differ in whose reading of    *)
(* the clock they purge by, which is the caller's to say here.             *)
(***************************************************************************)
EXTENDS Naturals

CONSTANT Nonces     \* <<issuer, nonce>> pairs

VARIABLE seen       \* the expiry remembered of each nonce; 0 when there is none

CacheTypeOK == seen \in [Nonces -> Nat]

CacheInit == seen = [n \in Nonces |-> 0]

\* Mutant: an entry is dropped one tick before its token expires.
PurgedEarly(now) == [n \in Nonces |-> IF seen[n] > now + 1 THEN seen[n] ELSE 0]

\* The entries that are kept at time `now`.
Purged(now) == [n \in Nonces |-> IF seen[n] > now THEN seen[n] ELSE 0]

\* Mutant: a lifetime is remembered, its ends swapped.
FirstUseLifetime(n, expires, now) ==
    /\ Purged(now)[n] = 0
    /\ seen' = [Purged(now) EXCEPT ![n] = now - expires]

\* consume returns True: the nonce is not known, and is from now on.
FirstUse(n, expires, now) ==
    /\ Purged(now)[n] = 0
    /\ seen' = [Purged(now) EXCEPT ![n] = expires]

\* consume returns False.
Replayed(n, now) ==
    /\ Purged(now)[n] # 0
    /\ seen' = Purged(now)
=============================================================================
