--------------------------- MODULE TokenVerifier ---------------------------
(***************************************************************************)
(* TokenVerifier.verify and authorize_delegated_action                     *)
(* (python/governance/delegation.py): a receiver's threads check signed    *)
(* permission slips against one replay cache.                              *)
(*                                                                         *)
(* verify reads the clock once to judge the lifetime of a token; the cache *)
(* reads it again, under its own lock, to forget expired nonces.  Time may *)
(* pass and other threads may run between the two.                         *)
(***************************************************************************)
EXTENDS ReplayCache

CONSTANTS
    Threads,        \* callers of verify
    Scopes,         \* the members of DelegationScope
    Phases,         \* the members of WorkflowPhase
    Repositories,
    Unknown,        \* a scope or a phase that is no member
    Presented,      \* bound: the envelopes that reach the receiver
    Skew,           \* clock_skew
    MaxLifetime,    \* maximum_lifetime
    MaxTime,        \* bound: the clock stops there
    MaxRestarts     \* bound: times the process dies

\* A DelegationEnvelope, as far as verify tells envelopes apart.  formed: the
\* required claims are there, the scopes are unique, the depth is permitted and
\* the timestamps parse.  genuine: the key is a trusted issuer's and the
\* signature is that key's.  addressed: audience and subject are this receiver.
Envelope == [nonce : Nonces, issued : Nat, expires : Nat,
             formed : BOOLEAN, genuine : BOOLEAN, addressed : BOOLEAN,
             scopes : SUBSET (Scopes \cup {Unknown}), phase : Phases \cup {Unknown},
             repository : Repositories]

ASSUME VerifierAssumption ==
    /\ Presented \subseteq Envelope
    /\ Presented # {}
    /\ Unknown \notin Scopes \cup Phases
    \* create_token draws a fresh nonce for every token it makes.
    /\ \A e, f \in Presented : e.genuine /\ f.genuine /\ e.nonce = f.nonce => e = f
    /\ {Skew, MaxLifetime, MaxTime, MaxRestarts} \subseteq Nat

VARIABLES
    clock,
    pc,         \* where each thread's call of verify stands
    envelope,   \* the envelope it verifies
    acted,      \* history: the actions authorized, each with its envelope
    uses,       \* history: uses of each nonce since the process started
    timely,     \* history: those of them before the token expired
    restarts

callVars == <<pc, envelope>>
useVars == <<uses, timely>>
vars == <<seen, clock, callVars, acted, useVars, restarts>>

PCs == {"idle", "checked", "consumed", "verified"}
Action == [envelope : Presented, scope : Scopes, phase : Phases, repository : Repositories]

VerifierTypeOK ==
    /\ CacheTypeOK
    /\ clock \in Nat
    /\ pc \in [Threads -> PCs]
    /\ envelope \in [Threads -> Presented]
    /\ acted \subseteq Action
    /\ uses \in [Nonces -> Nat]
    /\ timely \in [Nonces -> Nat]
    /\ restarts \in Nat

Init ==
    /\ CacheInit
    /\ clock = 1
    /\ pc = [t \in Threads |-> "idle"]
    /\ envelope = [t \in Threads |-> CHOOSE e \in Presented : TRUE]
    /\ acted = {}
    /\ uses = [n \in Nonces |-> 0]
    /\ timely = [n \in Nonces |-> 0]
    /\ restarts = 0

-----------------------------------------------------------------------------
InTime(e, now) ==
    /\ e.issued <= now + Skew
    /\ e.expires > now
    /\ e.expires > e.issued
    /\ e.expires - e.issued <= MaxLifetime

\* Mutant: the signature is not checked before the nonce is spent.
AcceptableUnsigned(e, now) == e.formed /\ InTime(e, now) /\ e.addressed

\* What verify checks before it turns to the cache; it raises otherwise, and has
\* changed nothing.
Acceptable(e, now) == e.formed /\ InTime(e, now) /\ e.genuine /\ e.addressed

Check(t, e) ==
    /\ pc[t] = "idle"
    /\ Acceptable(e, clock)
    /\ pc' = [pc EXCEPT ![t] = "checked"]
    /\ envelope' = [envelope EXCEPT ![t] = e]
    /\ UNCHANGED <<seen, clock, acted, useVars, restarts>>

\* The cache knows the nonce: verify raises "delegation replay detected".
ConsumeReplayed(t) ==
    /\ pc[t] = "checked"
    /\ Replayed(envelope[t].nonce, clock)
    /\ pc' = [pc EXCEPT ![t] = "idle"]
    /\ UNCHANGED <<clock, envelope, acted, useVars, restarts>>

Count(f, n) == [f EXCEPT ![n] = @ + 1]

\* Mutant: the answer of the cache is not looked at.
ConsumeAnyway(t) ==
    LET e == envelope[t] IN
    /\ pc[t] = "checked"
    /\ seen' = [Purged(clock) EXCEPT ![e.nonce] = e.expires]
    /\ pc' = [pc EXCEPT ![t] = "consumed"]
    /\ uses' = Count(uses, e.nonce)
    /\ timely' = IF clock < e.expires THEN Count(timely, e.nonce) ELSE timely
    /\ UNCHANGED <<clock, envelope, acted, restarts>>

\* The cache spends the nonce.
Consume(t) ==
    LET e == envelope[t] IN
    /\ pc[t] = "checked"
    /\ FirstUse(e.nonce, e.expires, clock)
    /\ pc' = [pc EXCEPT ![t] = "consumed"]
    /\ uses' = Count(uses, e.nonce)
    /\ timely' = IF clock < e.expires THEN Count(timely, e.nonce) ELSE timely
    /\ UNCHANGED <<clock, envelope, acted, restarts>>

\* Scopes and phase are parsed once the nonce is spent: a value that is no
\* member of its enumeration denies the call, and the token is gone.
Parse(t) ==
    /\ pc[t] = "consumed"
    /\ pc' = [pc EXCEPT ![t] =
                IF Unknown \in envelope[t].scopes \/ envelope[t].phase = Unknown
                THEN "idle" ELSE "verified"]
    /\ UNCHANGED <<seen, clock, envelope, acted, useVars, restarts>>

\* Mutant: any verified token will do.
AuthorizeUnbound(t, a) ==
    /\ pc[t] = "verified"
    /\ a.envelope = envelope[t]
    /\ acted' = acted \cup {a}
    /\ UNCHANGED <<seen, clock, callVars, useVars, restarts>>

\* authorize_delegated_action, when it does not raise.  The verified token stays
\* in the caller's hands: nothing is consumed and the clock is not read.
Authorize(t, a) ==
    /\ pc[t] = "verified"
    /\ a.envelope = envelope[t]
    /\ a.scope \in a.envelope.scopes
    /\ a.phase = a.envelope.phase
    /\ a.repository = a.envelope.repository
    /\ acted' = acted \cup {a}
    /\ UNCHANGED <<seen, clock, callVars, useVars, restarts>>

Discard(t) ==
    /\ pc[t] = "verified"
    /\ pc' = [pc EXCEPT ![t] = "idle"]
    /\ UNCHANGED <<seen, clock, envelope, acted, useVars, restarts>>

Tick ==
    /\ clock < MaxTime
    /\ clock' = clock + 1
    /\ UNCHANGED <<seen, callVars, acted, useVars, restarts>>

\* The cache is the process's own memory.
Restart ==
    /\ restarts < MaxRestarts
    /\ restarts' = restarts + 1
    /\ seen' = [n \in Nonces |-> 0]
    /\ pc' = [t \in Threads |-> "idle"]
    /\ uses' = [n \in Nonces |-> 0]
    /\ timely' = [n \in Nonces |-> 0]
    /\ UNCHANGED <<clock, envelope, acted>>

Next ==
    \/ \E t \in Threads :
         \/ \E e \in Presented : Check(t, e)
         \/ ConsumeReplayed(t)
         \/ Consume(t)
         \/ Parse(t)
         \/ \E a \in Action : Authorize(t, a)
         \/ Discard(t)
    \/ Tick
    \/ Restart

Spec == Init /\ [][Next]_vars

-----------------------------------------------------------------------------
(***************************************************************************)
(* Properties.                                                             *)
(***************************************************************************)

\* While its token is valid, a nonce is used at most once in the life of a
\* process, however the checks and uses of its threads interleave.
OneUseWhileValid == \A n \in Nonces : timely[n] <= 1

\* Only the token a nonce was drawn for spends it: a copy that was altered or
\* sent to someone else cannot make the genuine token look like a replay.
SpentByItsToken ==
    \A n \in Nonces : seen[n] # 0 =>
        /\ uses[n] > 0
        /\ \E e \in Presented :
             e.nonce = n /\ e.expires = seen[n] /\ e.genuine /\ e.addressed

\* A running process forgets a nonce only once its token has expired.
NotForgottenEarly ==
    [][\A n \in Nonces : seen[n] # 0 /\ seen'[n] = 0
         => seen[n] <= clock \/ restarts' # restarts]_vars

\* Every action authorized is one its issuer signed for, of this receiver, this
\* scope, this phase and this repository.
ActionsWereGranted ==
    \A a \in acted :
        /\ a.envelope.genuine /\ a.envelope.addressed
        /\ a.scope \in a.envelope.scopes
        /\ a.phase = a.envelope.phase
        /\ a.repository = a.envelope.repository

\* What the cache's interface promises and the two clock readings break: a
\* process accepts only the first use of a nonce.
FirstUseOnly == \A n \in Nonces : uses[n] <= 1

-----------------------------------------------------------------------------
\* The inductive invariant: what is being consumed passed the checks, and the
\* cache remembers every timely use as long as its token is valid.
CheckedAcceptable ==
    \A t \in Threads : pc[t] # "idle" => envelope[t].genuine /\ envelope[t].addressed

TimelyRemembered ==
    \A e \in Presented : e.genuine /\ timely[e.nonce] > 0 /\ clock < e.expires
                           => seen[e.nonce] = e.expires

VerifierIInv ==
    /\ VerifierTypeOK
    /\ CheckedAcceptable
    /\ TimelyRemembered
    /\ OneUseWhileValid
    /\ SpentByItsToken
    /\ ActionsWereGranted
=============================================================================
