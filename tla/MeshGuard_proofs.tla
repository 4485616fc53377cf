-------------------------- MODULE MeshGuard_proofs --------------------------
(***************************************************************************)
(* What MeshGuard promises, for any configurations, envelopes, requests in *)
(* service and readings of the clock.                                      *)
(***************************************************************************)
EXTENDS MeshGuard, FiniteSetTheorems, TLAPS

\* The presented envelopes are envelopes.
LEMMA EnvelopeFacts ==
    /\ (CHOOSE e \in Presented : TRUE) \in Presented
    /\ \A e \in Presented : e.nonce \in Nonces /\ e.issued \in Nat /\ e.expires \in Nat
  BY MeshAssumption DEF Envelope

\* Requests can be counted, and so can those of them that hold a nonce.
LEMMA HoldingFacts ==
    ASSUME NEW n \in Nonces
    PROVE  /\ Holding(n) \subseteq Requests
           /\ IsFiniteSet(Holding(n)) /\ Cardinality(Holding(n)) \in Nat
           /\ IsFiniteSet(Holding(n)') /\ Cardinality(Holding(n)') \in Nat
           /\ Cardinality(Requests) \in Nat
<1>1. Holding(n) \in SUBSET Requests /\ Holding(n)' \in SUBSET Requests
  BY DEF Holding
<1>2. IsFiniteSet(Requests)
  BY MeshAssumption
<1>3. IsFiniteSet(Holding(n)) /\ IsFiniteSet(Holding(n)')
  BY <1>1, <1>2, FS_Subset
<1> QED
  BY <1>1, <1>2, <1>3, FS_CardinalityType

\* The initial state satisfies the invariant.
LEMMA InitIInv == Init => MeshIInv
<1> SUFFICES ASSUME Init PROVE MeshIInv
  OBVIOUS
<1> DEFINE first == CHOOSE e \in Presented : TRUE
<1>1. first \in Presented /\ envelope = [r \in Requests |-> first]
  BY EnvelopeFacts DEF Init
<1> HIDE DEF first
<1>2. config \in Configuration
  BY MeshAssumption DEF Init
<1>3. MeshTypeOK
  BY <1>1, <1>2 DEF Init, CacheInit, MeshTypeOK, CacheTypeOK, PCs
<1>4. Cardinality(Requests) \in Nat
  BY MeshAssumption, FS_CardinalityType
<1> QED
  BY <1>3, <1>4, EnvelopeFacts
  DEF Init, CacheInit, MeshIInv, RequestsValid, TimelyRemembered, OneUseWhileValid,
      SpentByItsToken, NotReadyAllowsNothing, UsesTimely, LateUsesCounted, UsesBounded

\* What purging by a reading of the clock no later than the clock does.
LEMMA PurgedFacts ==
    ASSUME CacheTypeOK, NEW time \in Nat
    PROVE  /\ Purged(time) \in [Nonces -> Nat]
           /\ \A n \in Nonces : Purged(time)[n] \in {0, seen[n]}
           /\ \A n \in Nonces : seen[n] > time => Purged(time)[n] = seen[n]
           /\ \A n \in Nonces : Purged(time)[n] = 0 => seen[n] <= time
  BY DEF Purged, CacheTypeOK

\* A request that asks the cache no longer holds its nonce.  That it purged by a
\* reading at which a token was over says that it was not one of the requests
\* that still hold that token's nonce: with them it does not exceed the requests.
LEMMA AskingStep ==
    ASSUME MeshIInv, NEW r \in Requests, pc[r] = "validated", NEW label, label # "validated",
           pc' = [pc EXCEPT ![r] = label], UNCHANGED envelope,
           NEW n \in Nonces
    PROVE  /\ Cardinality(Holding(n)') <= Cardinality(Requests) - 1
           /\ Cardinality(Holding(n)') <= Cardinality(Holding(n))
           /\ envelope[r].nonce = n => Cardinality(Holding(n)') = Cardinality(Holding(n)) - 1
<1>1. Holding(n)' = Holding(n) \ {r}
  BY DEF MeshIInv, MeshTypeOK, Holding
<1>2. /\ Cardinality(Holding(n)') = IF r \in Holding(n) THEN Cardinality(Holding(n)) - 1
                                   ELSE Cardinality(Holding(n))
      /\ Cardinality(Holding(n)) \in Nat
  BY <1>1, HoldingFacts, FS_RemoveElement
<1>3. /\ IsFiniteSet(Requests \ {r})
      /\ Cardinality(Requests \ {r}) = Cardinality(Requests) - 1
  BY MeshAssumption, FS_RemoveElement
<1>4. Holding(n)' \in SUBSET (Requests \ {r})
  BY <1>1, HoldingFacts
<1>5. Cardinality(Holding(n)') <= Cardinality(Requests) - 1
  BY <1>3, <1>4, FS_Subset
<1>6. envelope[r].nonce = n => r \in Holding(n)
  BY DEF Holding
<1> QED
  BY <1>2, <1>5, <1>6

\* Every step keeps the invariant, one action at a time.
LEMMA NextIInv == MeshIInv /\ [Next]_vars => MeshIInv'
<1> SUFFICES ASSUME MeshIInv, [Next]_vars PROVE MeshIInv'
  OBVIOUS
<1>0. /\ MeshTypeOK /\ CacheTypeOK /\ clock \in Nat
      /\ \A e \in Presented : e.nonce \in Nonces /\ e.issued \in Nat /\ e.expires \in Nat
      /\ \A r \in Requests : now[r] \in Nat /\ now[r] <= clock
  BY EnvelopeFacts DEF MeshIInv, MeshTypeOK, RequestsValid
<1> USE DEF MeshIInv
<1>1. ASSUME NEW r \in Requests, NEW e \in Presented, Validate(r, e) PROVE MeshIInv'
  <2>1. MeshTypeOK'
    BY <1>0, <1>1 DEF Validate, MeshTypeOK, CacheTypeOK, useVars, PCs
  <2>2. RequestsValid'
    BY <1>0, <1>1 DEF Validate, Valid, InTime, RequestsValid, MeshTypeOK
  <2>3. /\ TimelyRemembered' /\ OneUseWhileValid' /\ SpentByItsToken'
        /\ NotReadyAllowsNothing' /\ UsesTimely' /\ UsesBounded'
    BY <1>1 DEF Validate, useVars, TimelyRemembered, OneUseWhileValid, SpentByItsToken,
                NotReadyAllowsNothing, UsesTimely, UsesBounded, Ready
  \* It joins those that hold its nonce while the cache still knows all its uses.
  <2>4. LateUsesCounted'
    <3> SUFFICES ASSUME NEW n \in Nonces, uses[n] > 1 \/ (uses[n] > 0 /\ seen[n] = 0)
                 PROVE  uses[n] + Cardinality(Holding(n)') <= Cardinality(Requests)
      BY <1>1 DEF Validate, useVars, LateUsesCounted
    <3>1. CASE n = e.nonce
      <4>1. e.signed /\ clock < e.expires
        BY <1>0, <1>1 DEF Validate, Valid, InTime
      <4>2. uses[n] \in Nat /\ uses[n] = timely[n] /\ timely[n] <= 1
        BY <1>0, <3>1, <4>1 DEF MeshTypeOK, UsesTimely, OneUseWhileValid
      <4>3. seen[n] = e.expires
        BY <3>1, <4>1, <4>2 DEF TimelyRemembered
      <4> QED
        BY <1>0, <4>1, <4>2, <4>3
    <3>2. CASE n # e.nonce
      <4>1. Holding(n)' = Holding(n)
        BY <1>0, <1>1, <3>2 DEF Validate, Holding, MeshTypeOK
      <4> QED
        BY <4>1 DEF LateUsesCounted
    <3> QED
      BY <3>1, <3>2
  <2> QED
    BY <2>1, <2>2, <2>3, <2>4
<1>2. ASSUME NEW r \in Requests, ConsumeReplayed(r) PROVE MeshIInv'
  <2>1. seen' = Purged(now[r])
    BY <1>2 DEF ConsumeReplayed, Replayed
  <2>2. MeshTypeOK'
    BY <1>0, <1>2, <2>1, PurgedFacts DEF ConsumeReplayed, MeshTypeOK, CacheTypeOK, useVars, PCs
  <2>3. RequestsValid'
    BY <1>0, <1>2 DEF ConsumeReplayed, RequestsValid, MeshTypeOK
  <2>4. /\ \A n \in Nonces : seen'[n] \in {0, seen[n]}
        /\ \A n \in Nonces : seen[n] > clock => seen'[n] = seen[n]
    <3>1. \A n \in Nonces : seen[n] \in Nat
      BY <1>0 DEF CacheTypeOK
    <3>2. \A n \in Nonces : seen[n] > clock => seen[n] > now[r]
      BY <1>0, <3>1
    <3> QED
      BY <1>0, <2>1, <3>2, PurgedFacts
  <2>6. TimelyRemembered' /\ SpentByItsToken'
    BY <1>0, <1>2, <2>4 DEF ConsumeReplayed, useVars, TimelyRemembered, SpentByItsToken
  <2>5. OneUseWhileValid' /\ NotReadyAllowsNothing' /\ UsesTimely' /\ UsesBounded'
    BY <1>2 DEF ConsumeReplayed, useVars, OneUseWhileValid, NotReadyAllowsNothing,
                UsesTimely, UsesBounded, Ready
  <2>7. LateUsesCounted'
    <3> SUFFICES ASSUME NEW n \in Nonces, uses[n] > 1 \/ (uses[n] > 0 /\ seen'[n] = 0)
                 PROVE  uses[n] + Cardinality(Holding(n)') <= Cardinality(Requests)
      BY <1>2 DEF ConsumeReplayed, useVars, LateUsesCounted
    <3>1. /\ Cardinality(Holding(n)') <= Cardinality(Requests) - 1
          /\ Cardinality(Holding(n)') <= Cardinality(Holding(n))
      BY <1>2, AskingStep DEF ConsumeReplayed
    <3>2. uses[n] \in Nat
      BY <1>0 DEF MeshTypeOK
    <3>3. CASE uses[n] > 1
      BY <3>1, <3>2, <3>3, HoldingFacts DEF LateUsesCounted
    <3>4. CASE uses[n] = 1
      BY <3>1, <3>4, HoldingFacts
    <3> QED
      BY <3>2, <3>3, <3>4
  <2> QED
    BY <2>2, <2>3, <2>5, <2>6, <2>7
<1>3. ASSUME NEW r \in Requests, Consume(r) PROVE MeshIInv'
  <2> DEFINE e == envelope[r]
             n == e.nonce
             time == now[r]
  <2>1. e \in Presented /\ n \in Nonces /\ e.expires \in Nat /\ e.signed
    BY <1>0, <1>3 DEF Consume, MeshTypeOK, RequestsValid
  <2>2. /\ Purged(time)[n] = 0
        /\ seen' = [Purged(time) EXCEPT ![n] = e.expires]
        /\ uses' = [uses EXCEPT ![n] = @ + 1]
        /\ timely' = IF clock < e.expires THEN [timely EXCEPT ![n] = @ + 1] ELSE timely
        /\ pc' = [pc EXCEPT ![r] = "consumed"]
        /\ UNCHANGED <<config, clock, envelope, now, allowed>>
    BY <1>3 DEF Consume, FirstUse, Count
  <2>3. uses \in [Nonces -> Nat] /\ timely \in [Nonces -> Nat] /\ pc \in [Requests -> PCs]
    BY <1>0 DEF MeshTypeOK
  <2>4. \A f \in Presented : f.signed /\ f.nonce = n => f.expires = e.expires
    BY <2>1, MeshAssumption
  <2>5. RequestsValid' /\ NotReadyAllowsNothing'
    BY <1>3, <2>2, <2>3
    DEF Consume, RequestsValid, NotReadyAllowsNothing, Ready
  <2>6. time \in Nat /\ time <= clock /\ time < e.expires /\ pc[r] = "validated"
    BY <1>0, <1>3 DEF Consume, RequestsValid
  <2> HIDE DEF e, n, time
  \* A timely use finds no timely use before it: the cache would know the nonce.
  <2>7. clock < e.expires => timely[n] = 0
    <3>1. seen[n] <= clock
      BY <1>0, <2>1, <2>2, <2>6, PurgedFacts DEF CacheTypeOK
    <3> QED
      BY <1>0, <2>1, <2>3, <3>1 DEF TimelyRemembered, n
  <2>8. MeshTypeOK'
    BY <1>0, <2>1, <2>2, <2>3, <2>6, PurgedFacts DEF MeshTypeOK, CacheTypeOK, PCs
  <2>9. OneUseWhileValid'
    BY <2>1, <2>2, <2>3, <2>7 DEF OneUseWhileValid
  <2>10. TimelyRemembered'
    <3> SUFFICES ASSUME NEW f \in Presented, f.signed, timely'[f.nonce] > 0, clock < f.expires
                 PROVE  seen'[f.nonce] = f.expires
      BY <2>2 DEF TimelyRemembered
    <3>1. CASE f.nonce = n
      BY <1>0, <2>1, <2>2, <2>4, <2>6, <3>1, PurgedFacts
    <3>2. CASE f.nonce # n
      <4>1. timely'[f.nonce] = timely[f.nonce] /\ seen'[f.nonce] = Purged(time)[f.nonce]
        BY <1>0, <2>1, <2>2, <2>3, <2>6, <3>2, PurgedFacts
      <4>2. seen[f.nonce] = f.expires
        BY <4>1 DEF TimelyRemembered
      <4> QED
        BY <1>0, <2>6, <4>1, <4>2, PurgedFacts
    <3> QED
      BY <3>1, <3>2
  <2>11. SpentByItsToken'
    <3> SUFFICES ASSUME NEW m \in Nonces, seen'[m] # 0
                 PROVE  /\ uses'[m] > 0
                        /\ \E f \in Presented :
                             f.nonce = m /\ f.expires = seen'[m] /\ f.signed
      BY DEF SpentByItsToken
    <3>1. CASE m = n
      <4>1. seen'[m] = e.expires /\ uses'[m] > 0
        BY <1>0, <2>1, <2>2, <2>3, <2>6, <3>1, PurgedFacts
      <4> QED
        BY <2>1, <3>1, <4>1 DEF n
    <3>2. CASE m # n
      <4>1. seen'[m] = Purged(time)[m] /\ uses'[m] = uses[m]
        BY <1>0, <2>1, <2>2, <2>3, <2>6, <3>2, PurgedFacts
      <4>2. seen'[m] = seen[m]
        BY <1>0, <2>6, <4>1, PurgedFacts
      <4> QED
        BY <4>1, <4>2 DEF SpentByItsToken
    <3> QED
      BY <3>1, <3>2
  <2>12. UsesTimely'
    <3> SUFFICES ASSUME NEW f \in Presented, f.signed, clock < f.expires
                 PROVE  uses'[f.nonce] = timely'[f.nonce]
      BY <2>2 DEF UsesTimely
    <3>1. uses[f.nonce] = timely[f.nonce]
      BY DEF UsesTimely
    <3>2. CASE f.nonce = n
      <4>1. clock < e.expires
        BY <2>4, <3>2
      <4> QED
        BY <2>1, <2>2, <2>3, <3>1, <3>2, <4>1
    <3>3. CASE f.nonce # n
      BY <2>2, <3>1, <3>3
    <3> QED
      BY <3>2, <3>3
  \* A further use finds its nonce forgotten before: it does not forget it itself,
  \* since by its reading the token is valid.
  <2>13. LateUsesCounted'
    <3> SUFFICES ASSUME NEW m \in Nonces, uses'[m] > 1 \/ (uses'[m] > 0 /\ seen'[m] = 0)
                 PROVE  uses'[m] + Cardinality(Holding(m)') <= Cardinality(Requests)
      BY <2>2 DEF LateUsesCounted
    <3>1. /\ Cardinality(Holding(m)') <= Cardinality(Requests) - 1
          /\ Cardinality(Holding(m)') <= Cardinality(Holding(m))
          /\ m = n => Cardinality(Holding(m)') = Cardinality(Holding(m)) - 1
      BY <2>2, <2>6, AskingStep DEF n, e
    <3>2. uses[m] \in Nat
      BY <2>3
    <3>3. CASE m = n
      <4>1. seen'[m] = e.expires /\ e.expires # 0
        BY <1>0, <2>1, <2>2, <2>6, <3>3, PurgedFacts
      <4>2. uses'[m] = uses[m] + 1 /\ uses[m] > 0
        BY <2>2, <2>3, <3>2, <3>3, <4>1
      <4>3. seen[m] = 0
        <5>1. seen[m] <= time
          BY <1>0, <2>2, <2>6, <3>3, PurgedFacts
        <5>2. seen[m] # 0 => seen[m] = e.expires
          BY <2>4, <3>3 DEF SpentByItsToken
        <5> QED
          BY <2>1, <2>6, <5>1, <5>2
      <4>4. uses[m] + Cardinality(Holding(m)) <= Cardinality(Requests)
        BY <4>2, <4>3 DEF LateUsesCounted
      <4> QED
        BY <3>1, <3>2, <3>3, <4>2, <4>4, HoldingFacts
    <3>4. CASE m # n
      <4>1. uses'[m] = uses[m]
        BY <2>2, <2>3, <3>4
      <4>2. CASE uses[m] > 1
        BY <3>1, <3>2, <4>1, <4>2, HoldingFacts DEF LateUsesCounted
      <4>3. CASE uses[m] = 1
        BY <3>1, <4>1, <4>3, HoldingFacts
      <4> QED
        BY <3>2, <4>1, <4>2, <4>3
    <3> QED
      BY <3>3, <3>4
  <2>14. UsesBounded'
    <3> SUFFICES ASSUME NEW m \in Nonces PROVE uses'[m] <= Cardinality(Requests)
      BY DEF UsesBounded
    <3>1. uses'[m] \in Nat
      BY <2>8 DEF MeshTypeOK
    <3>2. CASE uses'[m] > 1
      BY <2>13, <3>1, <3>2, HoldingFacts DEF LateUsesCounted
    <3>3. CASE uses'[m] <= 1
      BY <3>1, <3>3, HoldingFacts, MeshAssumption, FS_EmptySet
    <3> QED
      BY <3>1, <3>2, <3>3
  <2> QED
    BY <2>5, <2>8, <2>9, <2>10, <2>11, <2>12, <2>13, <2>14
<1>4. ASSUME NEW r \in Requests, Judge(r) PROVE MeshIInv'
  <2> DEFINE e == envelope[r]
  <2>1. MeshTypeOK'
    BY <1>0, <1>4 DEF Judge, MeshTypeOK, CacheTypeOK, useVars, PCs
  <2>2. RequestsValid'
    BY <1>0, <1>4 DEF Judge, RequestsValid, MeshTypeOK
  <2>3. /\ TimelyRemembered' /\ OneUseWhileValid' /\ SpentByItsToken'
        /\ UsesTimely' /\ UsesBounded'
    BY <1>4 DEF Judge, useVars, TimelyRemembered, OneUseWhileValid, SpentByItsToken,
                UsesTimely, UsesBounded
  <2>4. \A n \in Nonces : Holding(n)' = Holding(n)
    BY <1>0, <1>4 DEF Judge, Holding, MeshTypeOK
  <2>5. LateUsesCounted'
    BY <1>4, <2>4 DEF Judge, useVars, LateUsesCounted
  \* The request got this far: receiver, keys and replay cache are configured.
  <2>6. Verdict(e) => Ready
    <3>1. e \in Envelope
      BY <1>0, MeshAssumption DEF MeshTypeOK
    <3>2. config.audience \in Identities /\ config.subject \in Identities
      BY <1>4, <3>1 DEF Judge, RequestsValid, Envelope
    <3>3. config.keys # {} /\ config.replay
      BY <1>4 DEF Judge, RequestsValid
    <3>4. Verdict(e) => config.policies # <<>>
      BY DEF Verdict
    <3> QED
      BY <3>2, <3>3, <3>4, MeshAssumption DEF Ready
  <2>7. NotReadyAllowsNothing'
    BY <1>4, <2>6 DEF Judge, NotReadyAllowsNothing, Ready
  <2> QED
    BY <2>1, <2>2, <2>3, <2>5, <2>7
<1>5. ASSUME Tick PROVE MeshIInv'
  <2>1. MeshTypeOK'
    BY <1>0, <1>5 DEF Tick, MeshTypeOK, CacheTypeOK, requestVars, useVars
  <2>2. TimelyRemembered' /\ RequestsValid'
    BY <1>0, <1>5 DEF Tick, requestVars, useVars, TimelyRemembered, RequestsValid
  <2>3. OneUseWhileValid' /\ SpentByItsToken' /\ NotReadyAllowsNothing' /\ UsesBounded'
    BY <1>5 DEF Tick, useVars, OneUseWhileValid, SpentByItsToken, NotReadyAllowsNothing,
                UsesBounded, Ready
  <2>4. UsesTimely'
    BY <1>0, <1>5 DEF Tick, useVars, UsesTimely
  <2>5. \A n \in Nonces : Holding(n)' = Holding(n)
    BY <1>5 DEF Tick, requestVars, Holding
  <2>6. LateUsesCounted'
    BY <1>5, <2>5 DEF Tick, useVars, LateUsesCounted
  <2> QED
    BY <2>1, <2>2, <2>3, <2>4, <2>6
<1>6. CASE UNCHANGED vars
  BY <1>0, <1>6 DEF vars, requestVars, useVars, MeshTypeOK, CacheTypeOK, RequestsValid,
                    TimelyRemembered, OneUseWhileValid, SpentByItsToken, NotReadyAllowsNothing,
                    UsesTimely, LateUsesCounted, Holding, UsesBounded, Ready
<1> QED
  BY <1>1, <1>2, <1>3, <1>4, <1>5, <1>6 DEF Next

\* The invariant holds in every reachable state.
THEOREM InvariantHolds == Spec => []MeshIInv
  BY InitIInv, NextIInv, PTL DEF Spec

\* The cache, the requests and the counts always hold what their types say.
THEOREM TypeCorrect == Spec => []MeshTypeOK
<1>1. MeshIInv => MeshTypeOK
  BY DEF MeshIInv
<1> QED
  BY InvariantHolds, <1>1, PTL

\* A nonce is used at most once while its token is valid, stale readings or not.
THEOREM NoncesAreUsedOnceWhileValid == Spec => []OneUseWhileValid
<1>1. MeshIInv => OneUseWhileValid
  BY DEF MeshIInv
<1> QED
  BY InvariantHolds, <1>1, PTL

\* A remembered nonce was spent by the signed token it was drawn for.
THEOREM NoncesAreSpentByTheirTokens == Spec => []SpentByItsToken
<1>1. MeshIInv => SpentByItsToken
  BY DEF MeshIInv
<1> QED
  BY InvariantHolds, <1>1, PTL

\* A server that is not ready never allows a request.
THEOREM UnreadyServersAllowNothing == Spec => []NotReadyAllowsNothing
<1>1. MeshIInv => NotReadyAllowsNothing
  BY DEF MeshIInv
<1> QED
  BY InvariantHolds, <1>1, PTL

\* Any number of requests in service, however stale their clock readings, use a
\* nonce at most that many times, ever.
THEOREM UsesAreBounded == Spec => []UsesBounded
<1>1. MeshIInv => UsesBounded
  BY DEF MeshIInv
<1> QED
  BY InvariantHolds, <1>1, PTL
=============================================================================
