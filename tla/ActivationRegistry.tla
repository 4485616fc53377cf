------------------------- MODULE ActivationRegistry -------------------------
(***************************************************************************)
(* OperationalPolicyRegistry (python/governance/operations.py): the active *)
(* version of every rule set in every channel, one generation counter for  *)
(* the whole registry, and the compare-and-swap that changes both.  Each   *)
(* method holds the registry's lock from its first read to its last write, *)
(* so each is one atomic step of whatever process calls it.                *)
(*                                                                         *)
(* The module has no behaviour of its own: the modules of the processes    *)
(* that share a registry extend it.                                        *)
(***************************************************************************)
EXTENDS Naturals

CONSTANTS
    Names,       \* rule set names
    Versions,    \* versions a caller may name, registered or not
    NoVersion,   \* Python's None
    Registered   \* the <<name, version>> pairs PolicyRegistry holds: filled
                 \* while the process starts, only read afterwards

ASSUME RegistryAssumption ==
    /\ NoVersion \notin Versions
    /\ Registered \subseteq Names \X Versions

VARIABLES
    active,      \* _active: the version activated for each key, if any
    generation   \* _generation: how many activations there have been

Channel == {"dev", "staging", "prod"}
Key == Names \X Channel
VersionOrNone == Versions \cup {NoVersion}

RegistryTypeOK ==
    /\ active \in [Key -> VersionOrNone]
    /\ generation \in Nat

RegistryInit ==
    /\ active = [k \in Key |-> NoVersion]
    /\ generation = 0

\* require_registered: PolicyRegistry.load raises KeyError for any other pair.
IsRegistered(n, v) == <<n, v>> \in Registered

\* Mutant: the generation is left alone.
ActivateSameGeneration(k, v, expected) ==
    /\ IsRegistered(k[1], v)
    /\ active[k] = expected
    /\ active' = [active EXCEPT ![k] = v]
    /\ UNCHANGED generation

\* Mutant: the expected version is not compared.
ActivateBlindly(k, v, expected) ==
    /\ IsRegistered(k[1], v)
    /\ active' = [active EXCEPT ![k] = v]
    /\ generation' = generation + 1

\* compare_and_activate when it succeeds.  When the pair is not registered or
\* another version is active it raises and changes nothing.
CompareAndActivate(k, v, expected) ==
    /\ IsRegistered(k[1], v)
    /\ active[k] = expected
    /\ active' = [active EXCEPT ![k] = v]
    /\ generation' = generation + 1

\* compare_and_activate when it raises.
ActivationRefused(k, v, expected) ==
    \/ ~IsRegistered(k[1], v)
    \/ active[k] # expected
=============================================================================
