----------------------- MODULE VersionResolver_proofs -----------------------
(***************************************************************************)
(* What VersionResolver promises, for any rule sets, versions, threads and *)
(* number of activations.                                                  *)
(***************************************************************************)
EXTENDS VersionResolver, TLAPS

\* The keys in use are keys, and the one Init chooses is.
LEMMA KeysInUseAreKeys == KeysInUse \subseteq Key /\ (CHOOSE k \in KeysInUse : TRUE) \in Key
<1>1. PICK k \in KeysInUse : TRUE
  BY ResolverAssumption
<1> QED
  BY <1>1, ResolverAssumption

\* The registry, the cache and the calls are in their types initially.
LEMMA InitTypeOK == Init => ResolverTypeOK
<1> SUFFICES ASSUME Init PROVE ResolverTypeOK
  OBVIOUS
<1> DEFINE first == CHOOSE k \in KeysInUse : TRUE
<1>1. first \in Key
  BY KeysInUseAreKeys
<1>2. asked = [t \in Threads |-> first]
  BY DEF Init
<1> HIDE DEF first
<1>3. asked \in [Threads -> Key]
  BY <1>1, <1>2
<1> QED
  BY <1>3 DEF Init, ResolverTypeOK, RegistryInit, RegistryTypeOK, VersionOrNone, PCs

\* Every step keeps the types.
LEMMA NextTypeOK == ResolverTypeOK /\ [Next]_vars => ResolverTypeOK'
<1> SUFFICES ASSUME ResolverTypeOK, [Next]_vars PROVE ResolverTypeOK'
  OBVIOUS
<1> USE DEF ResolverTypeOK, RegistryTypeOK, PCs
<1>1. ASSUME NEW t \in Threads, NEW k \in KeysInUse, ReadGeneration(t, k)
      PROVE  ResolverTypeOK'
  BY <1>1, KeysInUseAreKeys DEF ReadGeneration, VersionOrNone
<1>2. ASSUME NEW t \in Threads, Lookup(t) PROVE ResolverTypeOK'
  <2>1. CASE Cached(asked[t]) /\ cache[asked[t]].gen = gen[t]
    <3>1. cache[asked[t]] \in Entry
      BY <2>1 DEF Cached
    <3> QED
      BY <1>2, <2>1, <3>1 DEF Lookup, Entry
  <2>2. CASE ~(Cached(asked[t]) /\ cache[asked[t]].gen = gen[t])
    BY <1>2, <2>2 DEF Lookup
  <2> QED
    BY <2>1, <2>2
<1>3. ASSUME NEW t \in Threads, ReadActive(t) PROVE ResolverTypeOK'
  BY <1>3 DEF ReadActive
<1>4. ASSUME NEW t \in Threads, Store(t) PROVE ResolverTypeOK'
  BY <1>4 DEF Store, Entry
<1>5. ASSUME NEW t \in Threads, Return(t) PROVE ResolverTypeOK'
  BY <1>5 DEF Return, VersionOrNone
<1>6. ASSUME NEW k \in KeysInUse, NEW v \in Versions, Seed(k, v)
      PROVE  ResolverTypeOK'
  BY <1>6, KeysInUseAreKeys DEF Seed, CompareAndActivate, Witness, VersionOrNone
<1>7. ASSUME NEW a \in Activators, NEW k \in KeysInUse, NEW v \in Versions, Activate(a, k, v)
      PROVE  ResolverTypeOK'
  BY <1>7, KeysInUseAreKeys DEF Activate, CompareAndActivate, Witness, VersionOrNone
<1>8. ASSUME NEW a \in Activators, Invalidate(a) PROVE ResolverTypeOK'
  BY <1>8 DEF Invalidate, readerVars
<1>9. CASE UNCHANGED vars
  BY <1>9 DEF vars, readerVars
<1> QED
  BY <1>1, <1>2, <1>3, <1>4, <1>5, <1>6, <1>7, <1>8, <1>9 DEF Next, Resolve

\* The registry, the cache and the calls always hold what their types say.
THEOREM TypeCorrect == Spec => []ResolverTypeOK
  BY InitTypeOK, NextTypeOK, PTL DEF Spec
-----------------------------------------------------------------------------
(***************************************************************************)
(* The answers.  An activation outdates every stamp and only adds to what  *)
(* the running calls have witnessed; a call that begins is witness to the  *)
(* version active as it begins, the one every present stamp stands for.    *)
(***************************************************************************)

\* The invariant holds initially: nothing is cached, no call runs.
LEMMA InitIInv == Init => ResolverIInv
<1> SUFFICES ASSUME Init PROVE ResolverIInv
  OBVIOUS
<1>1. ResolverTypeOK
  BY InitTypeOK
<1> QED
  BY <1>1 DEF Init, ResolverIInv, CacheStamped, StoreStamped, CallsWitness,
              AnswerWasActive, Cached

\* Every step keeps the invariant, one action at a time.
LEMMA NextIInv == ResolverIInv /\ [Next]_vars => ResolverIInv'
<1> SUFFICES ASSUME ResolverIInv, [Next]_vars PROVE ResolverIInv'
  OBVIOUS
<1>0. ResolverTypeOK /\ ResolverTypeOK'
  BY NextTypeOK DEF ResolverIInv
<1> USE DEF ResolverIInv
<1>1. ASSUME NEW t \in Threads, NEW j \in KeysInUse, ReadGeneration(t, j)
      PROVE  ResolverIInv'
  <2>0. j \in Key
    BY KeysInUseAreKeys
  <2>1. CacheStamped'
    BY <1>0, <1>1, <2>0 DEF ReadGeneration, CacheStamped, Cached, StampOK, ResolverTypeOK
  <2>2. StoreStamped'
    BY <1>0, <1>1, <2>0 DEF ReadGeneration, StoreStamped, StampOK, ResolverTypeOK
  <2>3. CallsWitness' /\ AnswerWasActive'
    BY <1>0, <1>1, <2>0
    DEF CallsWitness, AnswerWasActive, ReadGeneration, ResolverTypeOK, RegistryTypeOK
  <2> QED
    BY <1>0, <2>1, <2>2, <2>3
<1>2. ASSUME NEW t \in Threads, Lookup(t) PROVE ResolverIInv'
  <2>1. CacheStamped'
    BY <1>0, <1>2 DEF Lookup, CacheStamped, Cached, StampOK, ResolverTypeOK
  <2>2. StoreStamped'
    BY <1>0, <1>2 DEF Lookup, StoreStamped, StampOK, ResolverTypeOK
  <2>3. CallsWitness'
    BY <1>0, <1>2 DEF Lookup, CallsWitness, ResolverTypeOK
  <2>4. AnswerWasActive'
    BY <1>0, <1>2
    DEF Lookup, AnswerWasActive, CacheStamped, StampOK, Cached, ResolverTypeOK
  <2> QED
    BY <1>0, <2>1, <2>2, <2>3, <2>4
<1>3. ASSUME NEW t \in Threads, ReadActive(t) PROVE ResolverIInv'
  <2>1. CacheStamped'
    BY <1>0, <1>3 DEF ReadActive, CacheStamped, Cached, StampOK, ResolverTypeOK
  <2>2. StoreStamped'
    <3> SUFFICES ASSUME NEW u \in Threads, pc'[u] = "store"
                 PROVE  StampOK(gen[u], version[u], asked[u])'
      BY DEF StoreStamped
    <3>1. CASE u = t
      BY <1>0, <1>3, <3>1 DEF ReadActive, StampOK, CallsWitness, ResolverTypeOK
    <3>2. CASE u # t
      BY <1>0, <1>3, <3>2 DEF ReadActive, StoreStamped, StampOK, ResolverTypeOK
    <3> QED
      BY <3>1, <3>2
  <2>3. CallsWitness' /\ AnswerWasActive'
    BY <1>0, <1>3 DEF ReadActive, CallsWitness, AnswerWasActive, ResolverTypeOK
  <2> QED
    BY <1>0, <2>1, <2>2, <2>3
<1>4. ASSUME NEW t \in Threads, Store(t) PROVE ResolverIInv'
  <2>1. CacheStamped'
    <3> SUFFICES ASSUME NEW k \in Key, Cached(k)'
                 PROVE  StampOK(cache[k].gen, cache[k].version, k)'
      BY DEF CacheStamped
    <3>1. CASE k = asked[t]
      BY <1>0, <1>4, <3>1 DEF Store, StoreStamped, StampOK, ResolverTypeOK
    <3>2. CASE k # asked[t]
      BY <1>0, <1>4, <3>2 DEF Store, CacheStamped, Cached, StampOK, ResolverTypeOK
    <3> QED
      BY <3>1, <3>2
  <2>2. StoreStamped'
    BY <1>0, <1>4 DEF Store, StoreStamped, StampOK, ResolverTypeOK
  <2>3. CallsWitness'
    BY <1>0, <1>4 DEF Store, CallsWitness, ResolverTypeOK
  <2>4. AnswerWasActive'
    BY <1>0, <1>4 DEF Store, AnswerWasActive, StoreStamped, StampOK, ResolverTypeOK
  <2> QED
    BY <1>0, <2>1, <2>2, <2>3, <2>4
<1>5. ASSUME NEW t \in Threads, Return(t) PROVE ResolverIInv'
  <2>1. CacheStamped'
    BY <1>0, <1>5 DEF Return, CacheStamped, Cached, StampOK, ResolverTypeOK
  <2>2. StoreStamped'
    BY <1>0, <1>5 DEF Return, StoreStamped, StampOK, ResolverTypeOK
  <2>3. CallsWitness' /\ AnswerWasActive'
    BY <1>0, <1>5 DEF Return, CallsWitness, AnswerWasActive, ResolverTypeOK
  <2> QED
    BY <1>0, <2>1, <2>2, <2>3
<1>6. ASSUME NEW j \in Key, NEW w \in Versions,
             CompareAndActivate(j, w, active[j]), Witness(j, w),
             UNCHANGED <<cache, pc, asked, gen, version>>
      PROVE  ResolverIInv'
  <2>1. CacheStamped'
    BY <1>0, <1>6
    DEF CompareAndActivate, Witness, CacheStamped, Cached, StampOK, ResolverTypeOK,
        RegistryTypeOK, Entry
  <2>2. StoreStamped'
    BY <1>0, <1>6
    DEF CompareAndActivate, Witness, StoreStamped, StampOK, ResolverTypeOK, RegistryTypeOK
  <2>3. CallsWitness' /\ AnswerWasActive'
    BY <1>0, <1>6
    DEF CompareAndActivate, Witness, CallsWitness, AnswerWasActive, ResolverTypeOK,
        RegistryTypeOK
  <2> QED
    BY <1>0, <2>1, <2>2, <2>3
<1>7. ASSUME NEW j \in KeysInUse, NEW w \in Versions, Seed(j, w) PROVE ResolverIInv'
  BY <1>6, <1>7, KeysInUseAreKeys DEF Seed
<1>8. ASSUME NEW a \in Activators, NEW j \in KeysInUse, NEW w \in Versions, Activate(a, j, w)
      PROVE  ResolverIInv'
  BY <1>6, <1>8, KeysInUseAreKeys DEF Activate
<1>9. ASSUME NEW a \in Activators, Invalidate(a) PROVE ResolverIInv'
  <2>1. CacheStamped'
    BY <1>9 DEF Invalidate, CacheStamped, Cached
  <2>2. StoreStamped' /\ CallsWitness' /\ AnswerWasActive'
    BY <1>9
    DEF Invalidate, readerVars, StoreStamped, StampOK, CallsWitness, AnswerWasActive
  <2> QED
    BY <1>0, <2>1, <2>2
<1>10. CASE UNCHANGED vars
  <2>1. CacheStamped' /\ StoreStamped' /\ CallsWitness' /\ AnswerWasActive'
    BY <1>10
    DEF vars, readerVars, CacheStamped, Cached, StoreStamped, StampOK, CallsWitness,
        AnswerWasActive
  <2> QED
    BY <1>0, <2>1
<1> QED
  BY <1>1, <1>2, <1>3, <1>4, <1>5, <1>7, <1>8, <1>9, <1>10 DEF Next, Resolve

\* The stamps are right in every reachable state.
THEOREM InvariantHolds == Spec => []ResolverIInv
  BY InitIInv, NextIInv, PTL DEF Spec

\* Every answer of resolve was the active version at some moment of the call.
THEOREM AnswersWereActive == Spec => []AnswerWasActive
  BY InvariantHolds, PTL DEF ResolverIInv

\* A cache entry of the present generation is never stale.
THEOREM CacheIsCoherent == Spec => []CacheCoherent
<1>1. ResolverIInv => CacheCoherent
  BY DEF ResolverIInv, CacheStamped, StampOK, CacheCoherent
<1> QED
  BY <1>1, InvariantHolds, PTL

-----------------------------------------------------------------------------
(***************************************************************************)
(* Refinement: resolve is one atomic read of the registry, at a moment of  *)
(* the call.  ReadGeneration is the call, Lookup (on a hit) or Store the   *)
(* answer, an activation is itself, and every other step is a stutter.     *)
(***************************************************************************)

\* No call runs initially, in either.
LEMMA InitRefines == Init => Atomic!Init
<1> SUFFICES ASSUME Init PROVE Atomic!Init
  OBVIOUS
<1>1. asked \in [Threads -> Key]
  BY InitTypeOK DEF ResolverTypeOK
<1>2. phase = [t \in Threads |-> "idle"] /\ answer = [t \in Threads |-> NoVersion]
  BY DEF Init, phase, answer
<1> QED
  BY <1>1, <1>2 DEF Init, RegistryInit, Atomic!Init

\* Every step of the resolver is a step of the atomic one or changes nothing there.
LEMMA StepRefines == ResolverIInv /\ ResolverIInv' /\ [Next]_vars => [Atomic!Next]_(Atomic!vars)
<1> SUFFICES ASSUME ResolverIInv, ResolverIInv', [Next]_vars
             PROVE  [Atomic!Next]_(Atomic!vars)
  OBVIOUS
<1>0. ResolverTypeOK /\ ResolverTypeOK'
  BY DEF ResolverIInv
<1> USE DEF phase, answer
<1>1. ASSUME NEW t \in Threads, NEW j \in KeysInUse, ReadGeneration(t, j)
      PROVE  Atomic!Call(t, j)
  <2>1. phase' = [phase EXCEPT ![t] = "running"] /\ answer' = answer /\ phase[t] = "idle"
    BY <1>0, <1>1 DEF ReadGeneration, ResolverTypeOK
  <2> QED
    BY <1>1, <2>1 DEF ReadGeneration, Atomic!Call
<1>2. ASSUME NEW t \in Threads, Lookup(t)
      PROVE  Atomic!Answer(t) \/ UNCHANGED Atomic!vars
  <2>1. CASE pc'[t] = "done"
    <3>1. /\ phase[t] = "running"
          /\ phase' = [phase EXCEPT ![t] = "answered"]
          /\ answer' = [answer EXCEPT ![t] = version'[t]]
      BY <1>0, <1>2, <2>1 DEF Lookup, ResolverTypeOK
    <3>2. version'[t] \in live[t] /\ UNCHANGED <<active, asked, live>>
      BY <1>2, <2>1 DEF Lookup, ResolverIInv, AnswerWasActive
    <3> QED
      BY <3>1, <3>2 DEF Atomic!Answer
  <2>2. CASE pc'[t] # "done"
    BY <1>0, <1>2, <2>2 DEF Lookup, ResolverTypeOK, Atomic!vars
  <2> QED
    BY <2>1, <2>2
<1>3. ASSUME NEW t \in Threads, ReadActive(t) PROVE UNCHANGED Atomic!vars
  BY <1>0, <1>3 DEF ReadActive, ResolverTypeOK, Atomic!vars
<1>4. ASSUME NEW t \in Threads, Store(t) PROVE Atomic!Answer(t)
  <2>1. /\ phase[t] = "running"
        /\ phase' = [phase EXCEPT ![t] = "answered"]
        /\ answer' = [answer EXCEPT ![t] = version'[t]]
    BY <1>0, <1>4 DEF Store, ResolverTypeOK
  <2>2. version'[t] \in live[t] /\ UNCHANGED <<active, asked, live>>
    BY <1>0, <1>4 DEF Store, ResolverIInv, AnswerWasActive, ResolverTypeOK
  <2> QED
    BY <2>1, <2>2 DEF Atomic!Answer
<1>5. ASSUME NEW t \in Threads, Return(t) PROVE Atomic!Return(t)
  <2>1. /\ phase[t] = "answered"
        /\ phase' = [phase EXCEPT ![t] = "idle"]
        /\ answer' = [answer EXCEPT ![t] = NoVersion]
    BY <1>0, <1>5 DEF Return, ResolverTypeOK
  <2> QED
    BY <1>5, <2>1 DEF Return, Atomic!Return
<1>6. ASSUME NEW j \in Key, NEW w \in Versions,
             CompareAndActivate(j, w, active[j]), Witness(j, w),
             UNCHANGED <<pc, asked, version>>
      PROVE  Atomic!Activate(j, w)
  <2>1. \A t \in Threads : phase[t] # "idle" <=> pc[t] # "idle"
    BY DEF ResolverTypeOK
  <2>2. live' = [t \in Threads |-> IF phase[t] # "idle" /\ asked[t] = j
                                   THEN live[t] \cup {w} ELSE live[t]]
    BY <1>6, <2>1 DEF Witness
  <2> QED
    BY <1>6, <2>2 DEF CompareAndActivate, Atomic!Activate
<1>7. ASSUME NEW j \in KeysInUse, NEW w \in Versions, Seed(j, w)
      PROVE  Atomic!Activate(j, w)
  BY <1>6, <1>7, KeysInUseAreKeys DEF Seed
<1>8. ASSUME NEW a \in Activators, NEW j \in KeysInUse, NEW w \in Versions, Activate(a, j, w)
      PROVE  Atomic!Activate(j, w)
  BY <1>6, <1>8, KeysInUseAreKeys DEF Activate
<1>9. ASSUME NEW a \in Activators, Invalidate(a) PROVE UNCHANGED Atomic!vars
  BY <1>9 DEF Invalidate, readerVars, Atomic!vars
<1>10. CASE UNCHANGED vars
  BY <1>10 DEF vars, readerVars, Atomic!vars
<1> HIDE DEF phase, answer
<1> QED
  BY <1>1, <1>2, <1>3, <1>4, <1>5, <1>7, <1>8, <1>9, <1>10, KeysInUseAreKeys
  DEF Next, Resolve, Atomic!Next

\* The resolver implements the one that reads the registry in one step.
THEOREM ResolverRefinesAtomic == Spec => ResolveIsAtomic
  BY InitRefines, StepRefines, InvariantHolds, PTL DEF Spec, Atomic!Spec, ResolveIsAtomic
=============================================================================
