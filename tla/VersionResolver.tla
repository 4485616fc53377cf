--------------------------- MODULE VersionResolver ---------------------------
(***************************************************************************)
(* PolicyVersionResolver (python/governance/operations.py): a cache of     *)
(* active versions in front of the registry.  resolve takes the registry's *)
(* lock twice, once for the generation and once for the active version,    *)
(* and touches the cache with no lock of its own; activations and          *)
(* invalidate run between any two of its steps.  One dictionary operation  *)
(* is atomic (the interpreter lock), so resolve is four steps here.        *)
(***************************************************************************)
EXTENDS ActivationRegistry

CONSTANTS
    Threads,        \* callers of resolve
    Activators,     \* threads in promote or rollback
    KeysInUse,      \* bound: the keys that are activated and resolved
    NoEntry,        \* what the cache holds of a key it remembers nothing of
    MaxGeneration   \* bound: activations are disabled once there were so many

Entry == [gen : Nat, version : VersionOrNone]

ASSUME ResolverAssumption ==
    /\ NoEntry \notin Entry
    /\ KeysInUse # {}
    /\ KeysInUse \subseteq Key
    /\ MaxGeneration \in Nat

VARIABLES
    cache,     \* _cache: what is remembered of each key, if anything
    owing,     \* the activators between compare_and_activate and invalidate
    pc,        \* where each call of resolve stands
    asked,     \* the key it was called with
    gen,       \* its local `generation`
    version,   \* its local `version`, or the cached one it returns
    live       \* history: the versions active for its key since it was called

readerVars == <<pc, asked, gen, version, live>>
vars == <<active, generation, cache, owing, readerVars>>

Cached(k) == cache[k] # NoEntry

PCs == {"idle", "lookup", "read", "store", "done"}

ResolverTypeOK ==
    /\ RegistryTypeOK
    /\ cache \in [Key -> Entry \cup {NoEntry}]
    /\ owing \subseteq Activators
    /\ pc \in [Threads -> PCs]
    /\ asked \in [Threads -> Key]
    /\ gen \in [Threads -> Nat]
    /\ version \in [Threads -> VersionOrNone]
    /\ live \in [Threads -> SUBSET VersionOrNone]

Init ==
    /\ RegistryInit
    /\ cache = [k \in Key |-> NoEntry]
    /\ owing = {}
    /\ pc = [t \in Threads |-> "idle"]
    /\ asked = [t \in Threads |-> CHOOSE k \in KeysInUse : TRUE]
    /\ gen = [t \in Threads |-> 0]
    /\ version = [t \in Threads |-> NoVersion]
    /\ live = [t \in Threads |-> {}]

-----------------------------------------------------------------------------
(***************************************************************************)
(* The registry's other users.                                             *)
(***************************************************************************)

\* The history variable follows every activation of a key being resolved.
Witness(k, v) ==
    live' = [t \in Threads |-> IF pc[t] # "idle" /\ asked[t] = k
                               THEN live[t] \cup {v} ELSE live[t]]

\* An activation by a caller that does not know the resolver (the tests and
\* the demo seed the dev channel so).
Seed(k, v) ==
    /\ generation < MaxGeneration
    /\ CompareAndActivate(k, v, active[k])
    /\ Witness(k, v)
    /\ UNCHANGED <<cache, owing, pc, asked, gen, version>>

\* promote and rollback: the activation, and invalidate as a later step.
Activate(a, k, v) ==
    /\ a \notin owing
    /\ generation < MaxGeneration
    /\ CompareAndActivate(k, v, active[k])
    /\ owing' = owing \cup {a}
    /\ Witness(k, v)
    /\ UNCHANGED <<cache, pc, asked, gen, version>>

Invalidate(a) ==
    /\ a \in owing
    /\ owing' = owing \ {a}
    /\ cache' = [k \in Key |-> NoEntry]
    /\ UNCHANGED <<active, generation, readerVars>>

-----------------------------------------------------------------------------
(***************************************************************************)
(* resolve.                                                                *)
(***************************************************************************)

\* generation = self._registry.generation
ReadGeneration(t, k) ==
    /\ pc[t] = "idle"
    /\ pc' = [pc EXCEPT ![t] = "lookup"]
    /\ asked' = [asked EXCEPT ![t] = k]
    /\ gen' = [gen EXCEPT ![t] = generation]
    /\ live' = [live EXCEPT ![t] = {active[k]}]
    /\ UNCHANGED <<active, generation, cache, owing, version>>

\* Mutant: an entry is used whatever its generation.
LookupAnyGeneration(t) ==
    /\ pc[t] = "lookup"
    /\ IF Cached(asked[t])
       THEN /\ pc' = [pc EXCEPT ![t] = "done"]
            /\ version' = [version EXCEPT ![t] = cache[asked[t]].version]
       ELSE /\ pc' = [pc EXCEPT ![t] = "read"]
            /\ UNCHANGED version
    /\ UNCHANGED <<active, generation, cache, owing, asked, gen, live>>

\* Mutant: the cached pair is returned, not its version.
LookupReturnsPair(t) ==
    /\ pc[t] = "lookup"
    /\ IF Cached(asked[t]) /\ cache[asked[t]].gen = gen[t]
       THEN /\ pc' = [pc EXCEPT ![t] = "done"]
            /\ version' = [version EXCEPT ![t] = cache[asked[t]]]
       ELSE /\ pc' = [pc EXCEPT ![t] = "read"]
            /\ UNCHANGED version
    /\ UNCHANGED <<active, generation, cache, owing, asked, gen, live>>

\* cached = self._cache.get(key): returned when its generation is the one read.
Lookup(t) ==
    /\ pc[t] = "lookup"
    /\ IF Cached(asked[t]) /\ cache[asked[t]].gen = gen[t]
       THEN /\ pc' = [pc EXCEPT ![t] = "done"]
            /\ version' = [version EXCEPT ![t] = cache[asked[t]].version]
       ELSE /\ pc' = [pc EXCEPT ![t] = "read"]
            /\ UNCHANGED version
    /\ UNCHANGED <<active, generation, cache, owing, asked, gen, live>>

\* version = self._registry.active_version(name, channel)
ReadActive(t) ==
    /\ pc[t] = "read"
    /\ pc' = [pc EXCEPT ![t] = "store"]
    /\ version' = [version EXCEPT ![t] = active[asked[t]]]
    /\ UNCHANGED <<active, generation, cache, owing, asked, gen, live>>

\* Mutant: the entry is stamped with the generation at the time of the store.
StoreWithLateGeneration(t) ==
    /\ pc[t] = "store"
    /\ pc' = [pc EXCEPT ![t] = "done"]
    /\ cache' = [cache EXCEPT ![asked[t]] =
                   [gen |-> generation, version |-> version[t]]]
    /\ UNCHANGED <<active, generation, owing, asked, gen, version, live>>

\* self._cache[key] = (generation, version)
Store(t) ==
    /\ pc[t] = "store"
    /\ pc' = [pc EXCEPT ![t] = "done"]
    /\ cache' = [cache EXCEPT ![asked[t]] =
                   [gen |-> gen[t], version |-> version[t]]]
    /\ UNCHANGED <<active, generation, owing, asked, gen, version, live>>

\* The caller has its answer; the thread may call again.
Return(t) ==
    /\ pc[t] = "done"
    /\ pc' = [pc EXCEPT ![t] = "idle"]
    /\ gen' = [gen EXCEPT ![t] = 0]
    /\ version' = [version EXCEPT ![t] = NoVersion]
    /\ live' = [live EXCEPT ![t] = {}]
    /\ UNCHANGED <<active, generation, cache, owing, asked>>

Resolve(t) ==
    \/ \E k \in KeysInUse : ReadGeneration(t, k)
    \/ Lookup(t)
    \/ ReadActive(t)
    \/ Store(t)
    \/ Return(t)

Next ==
    \/ \E t \in Threads : Resolve(t)
    \/ \E k \in KeysInUse, v \in Versions : Seed(k, v)
    \/ \E a \in Activators, k \in KeysInUse, v \in Versions : Activate(a, k, v)
    \/ \E a \in Activators : Invalidate(a)

Spec == Init /\ [][Next]_vars

-----------------------------------------------------------------------------
(***************************************************************************)
(* Properties.                                                             *)
(***************************************************************************)

\* A resolve that returns gives a version that was active for its key at some
\* moment of the call, however its two reads of the registry, its use of the
\* cache, other calls' stores, activations and invalidations interleave.
AnswerWasActive ==
    \A t \in Threads : pc[t] = "done" => version[t] \in live[t]

\* An entry stamped with the registry's present generation holds the version
\* active now: invalidate is never needed for the cache to be right.
CacheCoherent ==
    \A k \in Key : Cached(k) /\ cache[k].gen = generation
                     => cache[k].version = active[k]

\* The invariant behind both, inductive.  A version v stamped with generation g
\* is right for key k when no later generation is named, the present one only
\* with the version active now, and every running call that read g too had v
\* active for k since it began.
StampOK(g, v, k) ==
    /\ g <= generation
    /\ g = generation => v = active[k]
    /\ \A t \in Threads :
         pc[t] # "idle" /\ asked[t] = k /\ gen[t] = g => v \in live[t]

CacheStamped == \A k \in Key : Cached(k) => StampOK(cache[k].gen, cache[k].version, k)

StoreStamped == \A t \in Threads :
    pc[t] = "store" => StampOK(gen[t], version[t], asked[t])

CallsWitness == \A t \in Threads :
    pc[t] # "idle" => gen[t] <= generation /\ active[asked[t]] \in live[t]

ResolverIInv ==
    /\ ResolverTypeOK
    /\ CacheStamped
    /\ StoreStamped
    /\ CallsWitness
    /\ AnswerWasActive

\* resolve is a read of the registry at one moment of the call.
phase == [t \in Threads |-> IF pc[t] = "idle" THEN "idle"
                            ELSE IF pc[t] = "done" THEN "answered"
                            ELSE "running"]
answer == [t \in Threads |-> IF pc[t] = "done" THEN version[t] ELSE NoVersion]

Atomic == INSTANCE LinearizableResolver

ResolveIsAtomic == Atomic!Spec
=============================================================================
