----------------------------- MODULE MeshGuard -----------------------------
(***************************************************************************)
(* The mesh sidecar (go-sidecar/mesh/sidecar.go): /v1/delegate requests,   *)
(* each served by a goroutine of its own, pass TokenValidator.Validate and *)
(* then the mesh policies; /readyz says whether the server may be used.    *)
(*                                                                         *)
(* A request reads the clock once, when its token's lifetime is judged,    *)
(* and hands that reading to the replay cache, which purges by it: when    *)
(* the request gets the cache's lock, later ones may have been there.      *)
(***************************************************************************)
EXTENDS ReplayCache, Sequences, FiniteSets

CONSTANTS
    Requests,       \* requests in service at a time
    Issuers,        \* <<issuer, key>> pairs an envelope may name
    Identities,     \* of mesh receivers
    Blank,          \* an identity that is not configured
    Scopes,
    Phases,
    Repositories,
    Point,          \* the enforcement point of this guard
    Configurations, \* bound: the configurations the server is started with
    Presented,      \* bound: the envelopes that reach the server
    Skew,           \* 30 seconds
    MaxLifetime,    \* MaximumLifetime
    MaxTime         \* bound: the clock stops there

\* formed: the required claims are there, the scopes are unique, the depth is
\* permitted and the timestamps parse.  signed: by the key that `issuer` names.
Envelope == [nonce : Nonces, issuer : Issuers, subject : Identities, audience : Identities,
             scopes : SUBSET Scopes, phase : Phases, repository : Repositories,
             issued : Nat, expires : Nat, formed : BOOLEAN, signed : BOOLEAN]

MeshPolicy == [point : {"ingress", "egress"}, issuers : SUBSET Issuers,
               scopes : SUBSET Scopes, deniedPhases : SUBSET Phases,
               repositories : SUBSET Repositories]

\* replay: whether a replay cache is there.
Configuration == [subject : Identities \cup {Blank}, audience : Identities \cup {Blank},
                  keys : SUBSET Issuers, replay : BOOLEAN, policies : Seq(MeshPolicy)]

ASSUME MeshAssumption ==
    /\ IsFiniteSet(Requests)
    /\ Blank \notin Identities
    /\ Point \in {"ingress", "egress"}
    /\ Configurations \subseteq Configuration
    /\ Presented \subseteq Envelope
    /\ Presented # {}
    \* An issuer draws a fresh nonce for every token it signs.
    /\ \A e, f \in Presented : e.signed /\ f.signed /\ e.nonce = f.nonce => e = f
    /\ {Skew, MaxLifetime, MaxTime} \subseteq Nat

VARIABLES
    config,     \* fixed when the server starts
    clock,
    pc,         \* where each request stands
    envelope,   \* what it carries
    now,        \* its reading of the clock
    allowed,    \* history: the envelopes answered with "allow"
    uses,       \* history: uses of each nonce
    timely      \* history: those of them before the token expired

requestVars == <<pc, envelope, now>>
useVars == <<uses, timely>>
vars == <<seen, config, clock, requestVars, allowed, useVars>>

PCs == {"idle", "validated", "consumed"}

MeshTypeOK ==
    /\ CacheTypeOK
    /\ config \in Configuration
    /\ clock \in Nat
    /\ pc \in [Requests -> PCs]
    /\ envelope \in [Requests -> Presented]
    /\ now \in [Requests -> Nat]
    /\ allowed \subseteq Presented
    /\ uses \in [Nonces -> Nat]
    /\ timely \in [Nonces -> Nat]

Init ==
    /\ CacheInit
    /\ config \in Configurations
    /\ clock = 1
    /\ pc = [r \in Requests |-> "idle"]
    /\ envelope = [r \in Requests |-> CHOOSE e \in Presented : TRUE]
    /\ now = [r \in Requests |-> 0]
    /\ allowed = {}
    /\ uses = [n \in Nonces |-> 0]
    /\ timely = [n \in Nonces |-> 0]

-----------------------------------------------------------------------------
\* Mutant: the instant of expiry still counts, at which the cache forgets.
InTimeToTheEnd(e, t) ==
    /\ e.issued <= t + Skew
    /\ e.expires >= t
    /\ e.expires > e.issued
    /\ e.expires - e.issued <= MaxLifetime

InTime(e, t) ==
    /\ e.issued <= t + Skew
    /\ e.expires > t
    /\ e.expires > e.issued
    /\ e.expires - e.issued <= MaxLifetime

\* Mutant: the signature is not checked before the nonce is spent.
ValidUnsigned(e, t) ==
    /\ e.formed
    /\ e.issuer \in config.keys
    /\ InTime(e, t)
    /\ e.audience = config.audience
    /\ e.subject = config.subject
    /\ config.replay

\* Validate, up to the replay cache.
Valid(e, t) ==
    /\ e.formed
    /\ e.issuer \in config.keys
    /\ InTime(e, t)
    /\ e.signed
    /\ e.audience = config.audience
    /\ e.subject = config.subject
    /\ config.replay

\* A request is decoded and validated.  One that is not well formed, or not
\* valid, is answered with "deny" and changes nothing.
Validate(r, e) ==
    /\ pc[r] = "idle"
    /\ Valid(e, clock)
    /\ pc' = [pc EXCEPT ![r] = "validated"]
    /\ envelope' = [envelope EXCEPT ![r] = e]
    /\ now' = [now EXCEPT ![r] = clock]
    /\ UNCHANGED <<seen, config, clock, allowed, useVars>>

\* The cache knows the nonce: "deny".
ConsumeReplayed(r) ==
    /\ pc[r] = "validated"
    /\ Replayed(envelope[r].nonce, now[r])
    /\ pc' = [pc EXCEPT ![r] = "idle"]
    /\ UNCHANGED <<config, clock, envelope, now, allowed, useVars>>

Count(f, n) == [f EXCEPT ![n] = @ + 1]

\* Mutant: the nonce is looked up but never stored.
ConsumeUnstored(r) ==
    LET e == envelope[r] IN
    /\ pc[r] = "validated"
    /\ Purged(now[r])[e.nonce] = 0
    /\ seen' = Purged(now[r])
    /\ pc' = [pc EXCEPT ![r] = "consumed"]
    /\ uses' = Count(uses, e.nonce)
    /\ timely' = IF clock < e.expires THEN Count(timely, e.nonce) ELSE timely
    /\ UNCHANGED <<config, clock, envelope, now, allowed>>

\* The cache spends the nonce, by the request's own reading of the clock.
Consume(r) ==
    LET e == envelope[r] IN
    /\ pc[r] = "validated"
    /\ FirstUse(e.nonce, e.expires, now[r])
    /\ pc' = [pc EXCEPT ![r] = "consumed"]
    /\ uses' = Count(uses, e.nonce)
    /\ timely' = IF clock < e.expires THEN Count(timely, e.nonce) ELSE timely
    /\ UNCHANGED <<config, clock, envelope, now, allowed>>

Permits(p, e) ==
    /\ e.issuer \in p.issuers
    /\ e.phase \notin p.deniedPhases
    /\ e.repository \in p.repositories
    /\ e.scopes \subseteq p.scopes

\* Mutant: no policy for this point, no objection.
VerdictByDefault(e) ==
    \A i \in DOMAIN config.policies :
        config.policies[i].point = Point => Permits(config.policies[i], e)

\* The first policy of this guard's point decides; without one the answer is "deny".
Verdict(e) ==
    \E i \in DOMAIN config.policies :
        /\ config.policies[i].point = Point
        /\ \A k \in 1 .. i - 1 : config.policies[k].point # Point
        /\ Permits(config.policies[i], e)

\* The policies are asked once the nonce is spent: a token they deny is gone.
Judge(r) ==
    /\ pc[r] = "consumed"
    /\ pc' = [pc EXCEPT ![r] = "idle"]
    /\ now' = [now EXCEPT ![r] = 0]
    /\ allowed' = IF Verdict(envelope[r]) THEN allowed \cup {envelope[r]} ELSE allowed
    /\ UNCHANGED <<seen, config, clock, envelope, useVars>>

Tick ==
    /\ clock < MaxTime
    /\ clock' = clock + 1
    /\ UNCHANGED <<seen, config, requestVars, allowed, useVars>>

Next ==
    \/ \E r \in Requests :
         \/ \E e \in Presented : Validate(r, e)
         \/ ConsumeReplayed(r)
         \/ Consume(r)
         \/ Judge(r)
    \/ Tick

Spec == Init /\ [][Next]_vars

\* ready: what /readyz answers.
Ready ==
    /\ config.audience # Blank
    /\ config.subject # Blank
    /\ config.keys # {}
    /\ config.replay
    /\ config.policies # <<>>

-----------------------------------------------------------------------------
(***************************************************************************)
(* Properties.                                                             *)
(***************************************************************************)

\* While its token is valid, a nonce is used at most once, although requests
\* purge the cache by clock readings that may have gone stale.
OneUseWhileValid == \A n \in Nonces : timely[n] <= 1

\* A remembered nonce was spent by the signed token it was drawn for.
SpentByItsToken ==
    \A n \in Nonces : seen[n] # 0 =>
        /\ uses[n] > 0
        /\ \E e \in Presented : e.nonce = n /\ e.expires = seen[n] /\ e.signed

\* A server that says it is not ready allows nothing.
NotReadyAllowsNothing == ~Ready => allowed = {}

\* However stale their readings are, N requests in service use a nonce N times at
\* most: after its token expired only those that were validated before can, and
\* one of them has to ask about another nonce first, for the cache to forget it.
\* One request at a time therefore uses a nonce once.  This rests on validator
\* and cache agreeing on the very instant at which a token expires.
UsesBounded == \A n \in Nonces : uses[n] <= Cardinality(Requests)

-----------------------------------------------------------------------------
\* The inductive invariant.
RequestsValid ==
    \A r \in Requests :
        /\ now[r] <= clock
        /\ pc[r] # "idle" => /\ envelope[r].signed
                             /\ envelope[r].audience = config.audience
                             /\ envelope[r].subject = config.subject
                             /\ envelope[r].issuer \in config.keys
                             /\ config.replay
        /\ pc[r] = "validated" => now[r] < envelope[r].expires

TimelyRemembered ==
    \A e \in Presented : e.signed /\ timely[e.nonce] > 0 /\ clock < e.expires
                           => seen[e.nonce] = e.expires

\* Before its token expires, a nonce has no other uses than the timely one ...
UsesTimely ==
    \A e \in Presented : e.signed /\ clock < e.expires => uses[e.nonce] = timely[e.nonce]

\* ... and when the cache has forgotten it, or it was used again, only the
\* requests that hold it, who get no company any more, may use it further.
Holding(n) == {r \in Requests : pc[r] = "validated" /\ envelope[r].nonce = n}

LateUsesCounted ==
    \A n \in Nonces :
        uses[n] > 1 \/ (uses[n] > 0 /\ seen[n] = 0)
          => uses[n] + Cardinality(Holding(n)) <= Cardinality(Requests)

MeshIInv ==
    /\ MeshTypeOK
    /\ RequestsValid
    /\ TimelyRemembered
    /\ OneUseWhileValid
    /\ SpentByItsToken
    /\ NotReadyAllowsNothing
    /\ UsesTimely
    /\ LateUsesCounted
    /\ UsesBounded
=============================================================================
