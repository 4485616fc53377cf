------------------------ MODULE TokenVerifier_proofs ------------------------
(***************************************************************************)
(* What TokenVerifier promises, for any envelopes, threads, clock bounds   *)
(* and number of restarts.                                                 *)
(***************************************************************************)
EXTENDS TokenVerifier, TLAPS

\* The cache, the calls and the counts are in their types initially.
LEMMA InitTypeOK == Init => VerifierTypeOK
<1> SUFFICES ASSUME Init PROVE VerifierTypeOK
  OBVIOUS
<1> DEFINE first == CHOOSE e \in Presented : TRUE
<1>1. first \in Presented
  BY VerifierAssumption
<1>2. envelope = [t \in Threads |-> first]
  BY DEF Init
<1> HIDE DEF first
<1> QED
  BY <1>1, <1>2 DEF Init, CacheInit, VerifierTypeOK, CacheTypeOK, PCs

\* The initial state satisfies the invariant.
LEMMA InitIInv == Init => VerifierIInv
<1> SUFFICES ASSUME Init PROVE VerifierIInv
  OBVIOUS
<1>1. VerifierTypeOK
  BY InitTypeOK
<1>2. \A e \in Presented : e.nonce \in Nonces
  BY VerifierAssumption DEF Envelope
<1> QED
  BY <1>1, <1>2 DEF Init, CacheInit, VerifierIInv, CheckedAcceptable, TimelyRemembered,
                    OneUseWhileValid, SpentByItsToken, ActionsWereGranted

\* What purging does to a well typed cache.
LEMMA PurgedFacts ==
    ASSUME CacheTypeOK, NEW now \in Nat
    PROVE  /\ Purged(now) \in [Nonces -> Nat]
           /\ \A n \in Nonces : Purged(now)[n] \in {0, seen[n]}
           /\ \A n \in Nonces : seen[n] > now => Purged(now)[n] = seen[n]
           /\ \A n \in Nonces : Purged(now)[n] = 0 => seen[n] <= now
  BY DEF Purged, CacheTypeOK

\* Every step keeps the invariant, one action at a time.
LEMMA NextIInv == VerifierIInv /\ [Next]_vars => VerifierIInv'
<1> SUFFICES ASSUME VerifierIInv, [Next]_vars PROVE VerifierIInv'
  OBVIOUS
<1>0. /\ VerifierTypeOK /\ CacheTypeOK /\ clock \in Nat
      /\ \A e \in Presented : e.nonce \in Nonces /\ e.issued \in Nat /\ e.expires \in Nat
  BY VerifierAssumption DEF VerifierIInv, VerifierTypeOK, Envelope
<1> USE DEF VerifierIInv
<1>1. ASSUME NEW t \in Threads, NEW e \in Presented, Check(t, e) PROVE VerifierIInv'
  <2>1. VerifierTypeOK'
    BY <1>0, <1>1 DEF Check, VerifierTypeOK, CacheTypeOK, useVars, PCs
  <2>2. CheckedAcceptable'
    BY <1>0, <1>1 DEF Check, Acceptable, CheckedAcceptable, VerifierTypeOK
  <2>3. TimelyRemembered' /\ OneUseWhileValid' /\ SpentByItsToken' /\ ActionsWereGranted'
    BY <1>1 DEF Check, useVars, TimelyRemembered, OneUseWhileValid, SpentByItsToken,
                ActionsWereGranted
  <2> QED
    BY <2>1, <2>2, <2>3
<1>2. ASSUME NEW t \in Threads, ConsumeReplayed(t) PROVE VerifierIInv'
  <2>1. seen' = Purged(clock)
    BY <1>2 DEF ConsumeReplayed, Replayed
  <2>2. VerifierTypeOK'
    BY <1>0, <1>2, <2>1, PurgedFacts
    DEF ConsumeReplayed, VerifierTypeOK, CacheTypeOK, useVars, PCs
  <2>3. CheckedAcceptable' /\ OneUseWhileValid' /\ ActionsWereGranted'
    BY <1>0, <1>2 DEF ConsumeReplayed, useVars, CheckedAcceptable, VerifierTypeOK,
                      OneUseWhileValid, ActionsWereGranted
  <2>4. TimelyRemembered' /\ SpentByItsToken'
    BY <1>0, <1>2, <2>1, PurgedFacts
    DEF ConsumeReplayed, useVars, TimelyRemembered, SpentByItsToken
  <2> QED
    BY <2>2, <2>3, <2>4
<1>3. ASSUME NEW t \in Threads, Consume(t) PROVE VerifierIInv'
  <2> DEFINE e == envelope[t]
             n == e.nonce
  <2>1. /\ e \in Presented /\ n \in Nonces /\ e.expires \in Nat
        /\ e.genuine /\ e.addressed
    BY <1>0, <1>3 DEF Consume, VerifierTypeOK, CheckedAcceptable
  <2>2. /\ Purged(clock)[n] = 0
        /\ seen' = [Purged(clock) EXCEPT ![n] = e.expires]
        /\ uses' = [uses EXCEPT ![n] = @ + 1]
        /\ timely' = IF clock < e.expires THEN [timely EXCEPT ![n] = @ + 1] ELSE timely
        /\ pc' = [pc EXCEPT ![t] = "consumed"]
        /\ UNCHANGED <<clock, envelope, acted, restarts>>
    BY <1>3 DEF Consume, FirstUse, Count
  <2>3. uses \in [Nonces -> Nat] /\ timely \in [Nonces -> Nat] /\ pc \in [Threads -> PCs]
    BY <1>0 DEF VerifierTypeOK
  <2>4. \A f \in Presented : f.genuine /\ f.nonce = n => f.expires = e.expires
    BY <2>1, VerifierAssumption
  <2>5. CheckedAcceptable' /\ ActionsWereGranted'
    BY <1>3, <2>2, <2>3 DEF Consume, CheckedAcceptable, ActionsWereGranted
  <2> HIDE DEF e, n
  \* A timely use finds no timely use before it: the cache would know the nonce.
  <2>6. clock < e.expires => timely[n] = 0
    <3>1. seen[n] <= clock
      BY <1>0, <2>1, <2>2, PurgedFacts
    <3> QED
      BY <1>0, <2>1, <2>3, <3>1 DEF TimelyRemembered, n
  <2>7. VerifierTypeOK'
    BY <1>0, <2>1, <2>2, <2>3, PurgedFacts DEF VerifierTypeOK, CacheTypeOK, PCs
  <2>8. OneUseWhileValid'
    BY <2>1, <2>2, <2>3, <2>6 DEF OneUseWhileValid
  <2>9. TimelyRemembered'
    <3> SUFFICES ASSUME NEW f \in Presented, f.genuine, timely'[f.nonce] > 0,
                        clock < f.expires
                 PROVE  seen'[f.nonce] = f.expires
      BY <2>2 DEF TimelyRemembered
    <3>1. CASE f.nonce = n
      BY <1>0, <2>1, <2>2, <2>4, <3>1, PurgedFacts
    <3>2. CASE f.nonce # n
      <4>1. timely'[f.nonce] = timely[f.nonce] /\ seen'[f.nonce] = Purged(clock)[f.nonce]
        BY <1>0, <2>1, <2>2, <2>3, <3>2, PurgedFacts
      <4>2. seen[f.nonce] = f.expires
        BY <4>1 DEF TimelyRemembered
      <4> QED
        BY <1>0, <4>1, <4>2, PurgedFacts
    <3> QED
      BY <3>1, <3>2
  <2>10. SpentByItsToken'
    <3> SUFFICES ASSUME NEW m \in Nonces, seen'[m] # 0
                 PROVE  /\ uses'[m] > 0
                        /\ \E f \in Presented :
                             f.nonce = m /\ f.expires = seen'[m] /\ f.genuine /\ f.addressed
      BY DEF SpentByItsToken
    <3>1. CASE m = n
      <4>1. seen'[m] = e.expires /\ uses'[m] > 0
        BY <1>0, <2>1, <2>2, <2>3, <3>1, PurgedFacts
      <4> QED
        BY <2>1, <3>1, <4>1 DEF n
    <3>2. CASE m # n
      <4>1. seen'[m] = Purged(clock)[m] /\ uses'[m] = uses[m]
        BY <1>0, <2>1, <2>2, <2>3, <3>2, PurgedFacts
      <4>2. seen'[m] = seen[m]
        BY <1>0, <4>1, PurgedFacts
      <4> QED
        BY <4>1, <4>2 DEF SpentByItsToken
    <3> QED
      BY <3>1, <3>2
  <2> QED
    BY <2>5, <2>7, <2>8, <2>9, <2>10
<1>4. ASSUME NEW t \in Threads, Parse(t) \/ Discard(t) PROVE VerifierIInv'
  <2>1. /\ UNCHANGED <<seen, clock, envelope, acted, useVars, restarts>>
        /\ pc' \in [Threads -> PCs]
        /\ \A u \in Threads : pc'[u] # "idle" => pc[u] # "idle"
    BY <1>0, <1>4 DEF Parse, Discard, VerifierTypeOK, PCs
  <2> QED
    BY <1>0, <2>1 DEF useVars, VerifierTypeOK, CacheTypeOK, CheckedAcceptable, TimelyRemembered,
                      OneUseWhileValid, SpentByItsToken, ActionsWereGranted
<1>5. ASSUME NEW t \in Threads, NEW a \in Action, Authorize(t, a) PROVE VerifierIInv'
  <2>1. VerifierTypeOK'
    BY <1>0, <1>5 DEF Authorize, VerifierTypeOK, CacheTypeOK, callVars, useVars
  <2>2. ActionsWereGranted'
    BY <1>5 DEF Authorize, ActionsWereGranted, CheckedAcceptable
  <2>3. CheckedAcceptable' /\ TimelyRemembered' /\ OneUseWhileValid' /\ SpentByItsToken'
    BY <1>5 DEF Authorize, callVars, useVars, CheckedAcceptable, TimelyRemembered,
                OneUseWhileValid, SpentByItsToken
  <2> QED
    BY <2>1, <2>2, <2>3
<1>6. ASSUME Tick PROVE VerifierIInv'
  <2>1. VerifierTypeOK'
    BY <1>0, <1>6 DEF Tick, VerifierTypeOK, CacheTypeOK, callVars, useVars
  <2>2. TimelyRemembered'
    BY <1>0, <1>6 DEF Tick, useVars, TimelyRemembered
  <2>3. CheckedAcceptable' /\ OneUseWhileValid' /\ SpentByItsToken' /\ ActionsWereGranted'
    BY <1>6 DEF Tick, callVars, useVars, CheckedAcceptable, OneUseWhileValid, SpentByItsToken,
                ActionsWereGranted
  <2> QED
    BY <2>1, <2>2, <2>3
<1>7. ASSUME Restart PROVE VerifierIInv'
  <2>1. VerifierTypeOK'
    BY <1>0, <1>7 DEF Restart, VerifierTypeOK, CacheTypeOK, PCs
  <2>2. CheckedAcceptable' /\ ActionsWereGranted'
    BY <1>7 DEF Restart, CheckedAcceptable, ActionsWereGranted
  <2>3. TimelyRemembered' /\ OneUseWhileValid' /\ SpentByItsToken'
    BY <1>0, <1>7 DEF Restart, TimelyRemembered, OneUseWhileValid, SpentByItsToken
  <2> QED
    BY <2>1, <2>2, <2>3
<1>8. CASE UNCHANGED vars
  BY <1>0, <1>8 DEF vars, callVars, useVars, VerifierTypeOK, CacheTypeOK, CheckedAcceptable,
                    TimelyRemembered, OneUseWhileValid, SpentByItsToken, ActionsWereGranted
<1> QED
  BY <1>1, <1>2, <1>3, <1>4, <1>5, <1>6, <1>7, <1>8 DEF Next

\* The invariant holds in every reachable state.
THEOREM InvariantHolds == Spec => []VerifierIInv
  BY InitIInv, NextIInv, PTL DEF Spec

\* The cache, the calls and the counts always hold what their types say.
THEOREM TypeCorrect == Spec => []VerifierTypeOK
<1>1. VerifierIInv => VerifierTypeOK
  BY DEF VerifierIInv
<1> QED
  BY InvariantHolds, <1>1, PTL

\* A nonce is used at most once while its token is valid.
THEOREM NoncesAreUsedOnceWhileValid == Spec => []OneUseWhileValid
<1>1. VerifierIInv => OneUseWhileValid
  BY DEF VerifierIInv
<1> QED
  BY InvariantHolds, <1>1, PTL

\* A remembered nonce was spent by the genuine token it was drawn for.
THEOREM NoncesAreSpentByTheirTokens == Spec => []SpentByItsToken
<1>1. VerifierIInv => SpentByItsToken
  BY DEF VerifierIInv
<1> QED
  BY InvariantHolds, <1>1, PTL

\* Every authorized action was signed for.
THEOREM AuthorizedActionsWereGranted == Spec => []ActionsWereGranted
<1>1. VerifierIInv => ActionsWereGranted
  BY DEF VerifierIInv
<1> QED
  BY InvariantHolds, <1>1, PTL

\* A step of a running process drops only expired entries.
LEMMA StepForgetsExpired ==
    ASSUME VerifierIInv, [Next]_vars, NEW n \in Nonces, seen[n] # 0, seen'[n] = 0
    PROVE  seen[n] <= clock \/ restarts' # restarts
<1>0. CacheTypeOK /\ clock \in Nat /\ restarts \in Nat
  BY DEF VerifierIInv, VerifierTypeOK
<1>1. ASSUME NEW t \in Threads, Consume(t) \/ ConsumeReplayed(t) PROVE seen[n] <= clock
  <2>1. seen'[n] = Purged(clock)[n] \/ Purged(clock)[n] = 0
    BY <1>0, <1>1, PurgedFacts DEF Consume, ConsumeReplayed, FirstUse, Replayed
  <2> QED
    BY <1>0, <2>1, PurgedFacts
<1>2. CASE Restart
  BY <1>0, <1>2 DEF Restart
<1> QED
  BY <1>1, <1>2 DEF Next, vars, Check, Parse, Authorize, Discard, Tick, callVars

\* A running process forgets a nonce only once its token has expired.
THEOREM NoncesAreNotForgottenEarly == Spec => NotForgottenEarly
<1>1. VerifierIInv /\ [Next]_vars =>
        [\A n \in Nonces : seen[n] # 0 /\ seen'[n] = 0
           => seen[n] <= clock \/ restarts' # restarts]_vars
  BY StepForgetsExpired
<1> QED
  BY InvariantHolds, <1>1, PTL DEF Spec, NotForgottenEarly
=============================================================================
