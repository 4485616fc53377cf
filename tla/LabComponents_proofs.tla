------------------------ MODULE LabComponents_proofs ------------------------
(***************************************************************************)
(* What the parts that share no state promise: the handoff store, for any  *)
(* sessions, timeouts and restarts; shared memory, for any workflows, keys *)
(* and phases; the audit chain, for any records and alterations; and all   *)
(* of them side by side.                                                   *)
(***************************************************************************)
EXTENDS MCLabComponents, LabPolicies_proofs

-----------------------------------------------------------------------------
(* HandoffStore                                                             *)

\* A session is a record, and none is not.
LEMMA SessionFacts ==
    ASSUME NEW id \in Ids, HandoffTypeOK, Known(id)
    PROVE  /\ sessions[id] \in Session
           /\ sessions[id].status \in Statuses
           /\ sessions[id].expires \in Nat
  BY DEF HandoffTypeOK, Known, Session

\* There are no sessions initially.
LEMMA InitHandoffTypeOK == HandoffInit => HandoffTypeOK
  BY DEF HandoffInit, HandoffTypeOK

\* Every step keeps the types.
LEMMA NextHandoffTypeOK == HandoffTypeOK /\ [HandoffNext]_handoffVars => HandoffTypeOK'
<1> SUFFICES ASSUME HandoffTypeOK, [HandoffNext]_handoffVars PROVE HandoffTypeOK'
  OBVIOUS
<1> USE DEF HandoffTypeOK
<1>1. ASSUME NEW id \in Ids, NEW timeout \in 1 .. MaxTimeout, Create(id, timeout)
      PROVE  HandoffTypeOK'
  <2>1. [status |-> "pending", expires |-> clock + timeout] \in Session
    BY HandoffAssumption DEF Session, Statuses
  <2> QED
    BY <1>1, <2>1 DEF Create, Answered, Statuses
<1>2. ASSUME NEW id \in Ids, NEW target \in Statuses, Transition(id, target)
      PROVE  HandoffTypeOK'
  <2>1. [sessions[id] EXCEPT !.status = target] \in Session
    BY <1>2, SessionFacts DEF Transition, Session
  <2> QED
    BY <1>2, <2>1 DEF Transition, Answered
<1>3. ASSUME NEW id \in Ids, RecoverOrExpire(id) PROVE HandoffTypeOK'
  <2>1. CASE Known(id) /\ Overdue(id)
    <3>1. [sessions[id] EXCEPT !.status = "expired"] \in Session
      BY <2>1, SessionFacts DEF Session, Statuses
    <3> QED
      BY <1>3, <2>1, <3>1 DEF RecoverOrExpire, Answered, Statuses
  <2>2. CASE ~(Known(id) /\ Overdue(id))
    BY <1>3, <2>2, SessionFacts DEF RecoverOrExpire, Answered, Statuses
  <2> QED
    BY <2>1, <2>2
<1>4. ASSUME Tick PROVE HandoffTypeOK'
  BY <1>4 DEF Tick
<1>5. ASSUME Die PROVE HandoffTypeOK'
  BY <1>5 DEF Die
<1>6. CASE UNCHANGED handoffVars
  BY <1>6 DEF handoffVars
<1> QED
  BY <1>1, <1>2, <1>3, <1>4, <1>5, <1>6 DEF HandoffNext

\* Sessions are records of a status and a deadline at all times.
THEOREM HandoffTypeCorrect == HandoffSpec => []HandoffTypeOK
  BY InitHandoffTypeOK, NextHandoffTypeOK, PTL DEF HandoffSpec

-----------------------------------------------------------------------------
(***************************************************************************)
(* Refinement: the store is the lifecycle.  A call that changes a session  *)
(* whose time is not up is the step of the same name; one that records an  *)
(* expiry answers what has been so since the clock passed the deadline,    *)
(* which is the step in which the session lapsed.                          *)
(***************************************************************************)

\* The session of one id changed, and nobody else's.
LEMMA OneLifeChanged ==
    ASSUME HandoffTypeOK, NEW id \in Ids, NEW s \in Session,
           sessions' = [sessions EXCEPT ![id] = s], clock' = clock
    PROVE  [i \in Ids |-> Life(i)]'
               = [[i \in Ids |-> Life(i)] EXCEPT
                     ![id] = IF s.status \in {"pending", "active"} /\ clock >= s.expires
                             THEN "expired" ELSE s.status]
<1>1. s # NoSession
  BY HandoffAssumption
<1>2. sessions'[id] = s /\ \A i \in Ids \ {id} : sessions'[i] = sessions[i]
  BY DEF HandoffTypeOK
<1>3. Life(id)' = IF s.status \in {"pending", "active"} /\ clock >= s.expires
                  THEN "expired" ELSE s.status
  BY <1>1, <1>2 DEF Life, Known
<1>4. \A i \in Ids \ {id} : Life(i)' = Life(i)
  BY <1>2 DEF Life, Known
<1> QED
  BY <1>3, <1>4

\* Without a change of the sessions or the clock the lives stay the same.
LEMMA LivesUnchanged ==
    ASSUME UNCHANGED <<sessions, clock>>
    PROVE  [i \in Ids |-> Life(i)]' = [i \in Ids |-> Life(i)]
  BY DEF Life, Known

\* No session is open initially, in either.
LEMMA InitIsLifecycleInit == HandoffInit => Lifecycle!Init
  BY DEF HandoffInit, Lifecycle!Init, Life, Known

\* Every step of the store is a step of the lifecycle.
LEMMA StepIsLifecycleStep ==
    HandoffTypeOK /\ [HandoffNext]_handoffVars => [Lifecycle!Next]_(Lifecycle!vars)
<1> SUFFICES ASSUME HandoffTypeOK, [HandoffNext]_handoffVars
             PROVE  [Lifecycle!Next]_(Lifecycle!vars)
  OBVIOUS
<1> DEFINE lives == [i \in Ids |-> Life(i)]
<1>1. ASSUME NEW id \in Ids, NEW timeout \in 1 .. MaxTimeout, Create(id, timeout)
      PROVE  Lifecycle!Open(id)
  <2> DEFINE s == [status |-> "pending", expires |-> clock + timeout]
  <2>1. s \in Session /\ ~(clock >= s.expires)
    BY HandoffAssumption DEF Session, Statuses, HandoffTypeOK
  <2>2. lives' = [lives EXCEPT ![id] = "pending"]
    BY <1>1, <2>1, OneLifeChanged DEF Create
  <2>3. lives[id] = "none"
    BY <1>1 DEF Create, Life
  <2> QED
    BY <1>1, <2>2, <2>3 DEF Create, Answered, Lifecycle!Open, Lifecycle!Became
<1>2. ASSUME NEW id \in Ids, NEW target \in Statuses, Transition(id, target)
      PROVE  \/ Lifecycle!Begin(id) \/ Lifecycle!Complete(id) \/ Lifecycle!Recover(id)
             \/ \E state \in {"denied", "expired"} : Lifecycle!Close(id, state)
  <2> DEFINE status == sessions[id].status
  <2> DEFINE s == [sessions[id] EXCEPT !.status = target]
  <2>1. /\ Known(id) /\ status \in Statuses /\ sessions[id].expires \in Nat
        /\ s \in Session /\ s.status = target /\ s.expires = sessions[id].expires
    BY <1>2, SessionFacts DEF Transition, Session
  <2>2. \/ status = "pending" /\ target \in {"active", "denied", "expired"}
        \/ status = "active" /\ target \in {"completed", "denied", "expired"}
    BY <1>2, <2>1 DEF Transition, Allowed, Statuses
  <2>3. lives' = [lives EXCEPT ![id] = IF target \in {"pending", "active"} /\ Late(id)
                                       THEN "expired" ELSE target]
    <3>1. sessions' = [sessions EXCEPT ![id] = s] /\ clock' = clock
      BY <1>2 DEF Transition
    <3> HIDE DEF s
    <3> QED
      BY <2>1, <3>1, OneLifeChanged DEF Late
  <2>4. lives[id] = IF Late(id) THEN "expired" ELSE status
    BY <2>1, <2>2 DEF Life, Late
  <2>5. told' = [told EXCEPT ![id] = target]
    BY <1>2 DEF Transition, Answered
  <2>6. CASE Late(id)
    <3>1. target = "expired"
      BY <1>2, <2>6 DEF Transition
    <3>2. lives' = lives /\ lives[id] = "expired"
      BY <2>3, <2>4, <2>6, <3>1
    <3> QED
      BY <2>5, <3>1, <3>2 DEF Lifecycle!Recover
  <2>7. CASE ~Late(id)
    BY <2>2, <2>3, <2>4, <2>5, <2>7
    DEF Lifecycle!Begin, Lifecycle!Complete, Lifecycle!Close, Lifecycle!Became
  <2> QED
    BY <2>6, <2>7
<1>3. ASSUME NEW id \in Ids, RecoverOrExpire(id) PROVE Lifecycle!Recover(id)
  <2>1. CASE ~Known(id)
    <3>1. lives' = lives /\ lives[id] = "none"
      BY <1>3, <2>1, LivesUnchanged DEF RecoverOrExpire, Life
    <3> QED
      BY <1>3, <2>1, <3>1 DEF RecoverOrExpire, Answered, Lifecycle!Recover
  <2>2. CASE Known(id) /\ Overdue(id)
    <3> DEFINE s == [sessions[id] EXCEPT !.status = "expired"]
    <3>1. s \in Session /\ s.status = "expired"
      BY <2>2, SessionFacts DEF Session, Statuses
    <3>2. lives[id] = "expired"
      BY <2>2 DEF Life, Overdue, Late
    <3>3. lives' = [lives EXCEPT ![id] = "expired"]
      <4>1. sessions' = [sessions EXCEPT ![id] = s] /\ clock' = clock
        BY <1>3, <2>2 DEF RecoverOrExpire
      <4> HIDE DEF s
      <4> QED
        BY <3>1, <4>1, OneLifeChanged
    <3>4. lives' = lives
      BY <3>2, <3>3
    <3> QED
      BY <1>3, <2>2, <3>2, <3>4 DEF RecoverOrExpire, Answered, Lifecycle!Recover
  <2>3. CASE Known(id) /\ ~Overdue(id)
    <3>1. lives' = lives
      BY <1>3, <2>3, LivesUnchanged DEF RecoverOrExpire
    <3>2. lives[id] = sessions[id].status /\ lives[id] # "none"
      BY <2>3, SessionFacts DEF Life, Overdue, Late, Statuses
    <3> QED
      BY <1>3, <2>3, <3>1, <3>2 DEF RecoverOrExpire, Answered, Lifecycle!Recover
  <2> QED
    BY <2>1, <2>2, <2>3
<1>4. ASSUME Tick PROVE \E ids \in SUBSET Ids : Lifecycle!Pass(ids)
  <2> DEFINE over == {i \in Ids : lives[i] \in {"pending", "active"} /\ lives'[i] = "expired"}
  <2>1. \A i \in Ids : lives'[i] = IF i \in over THEN "expired" ELSE lives[i]
    <3> SUFFICES ASSUME NEW i \in Ids
                 PROVE  lives'[i] = IF i \in over THEN "expired" ELSE lives[i]
      OBVIOUS
    <3>1. CASE ~Known(i)
      BY <1>4, <3>1 DEF Tick, Life, Known
    <3>2. CASE Known(i)
      <4>1. sessions[i].expires \in Nat /\ clock \in Nat /\ clock' = clock + 1
        BY <1>4, <3>2, SessionFacts DEF Tick, HandoffTypeOK
      <4>2. Known(i)' /\ sessions'[i] = sessions[i]
        BY <1>4, <3>2 DEF Tick, Known
      <4> QED
        BY <3>2, <4>1, <4>2 DEF Life
    <3> QED
      BY <3>1, <3>2
  <2>2. told' = [i \in Ids |-> Unanswered]
    BY <1>4 DEF Tick
  <2>3. lives' = [i \in Ids |-> IF i \in over THEN "expired" ELSE lives[i]]
    BY <2>1
  <2>4. Lifecycle!Pass(over)
    BY <2>2, <2>3 DEF Lifecycle!Pass
  <2> QED
    BY <2>4
<1>5. ASSUME Die PROVE Lifecycle!Forget
  <2>1. lives' = [i \in Ids |-> "none"]
    BY <1>5 DEF Die, Life, Known
  <2> QED
    BY <1>5, <2>1 DEF Die, Lifecycle!Forget
<1>6. CASE UNCHANGED handoffVars
  BY <1>6, LivesUnchanged DEF handoffVars, Lifecycle!vars
<1> QED
  BY <1>1, <1>2, <1>3, <1>4, <1>5, <1>6 DEF HandoffNext, Lifecycle!Next

\* The store, which records an expiry only when somebody asks, implements
\* sessions that expire at their deadline and stay as they ended.
THEOREM StoreRefinesLifecycle == HandoffSpec => SessionsAreLifecycles
  BY InitIsLifecycleInit, StepIsLifecycleStep, HandoffTypeCorrect, PTL
  DEF HandoffSpec, Lifecycle!Spec, SessionsAreLifecycles
-----------------------------------------------------------------------------
(* SharedMemorySegment                                                      *)

\* What the key holds was written by the segment's own workflow, in a phase that
\* may write; so whatever is read of it was, too.
MemoryIInv ==
    /\ MemoryTypeOK
    /\ \A k \in MemoryKeys : entries[k] # NoEntry =>
           owners[k] = Workflow /\ entries[k].written \in WritePhases
    /\ PhaseGated

\* The segment is empty initially.
LEMMA InitMemoryIInv == MemoryInit => MemoryIInv
  BY SegmentAssumption DEF MemoryInit, MemoryIInv, MemoryTypeOK, PhaseGated

\* Neither a write nor a read passes a gate.
LEMMA NextMemoryIInv == MemoryIInv /\ [MemoryNext]_memoryVars => MemoryIInv'
<1> SUFFICES ASSUME MemoryIInv, [MemoryNext]_memoryVars PROVE MemoryIInv'
  OBVIOUS
<1> USE SegmentAssumption DEF MemoryIInv
<1>1. ASSUME NEW key \in MemoryKeys, NEW entry \in Entry, NEW phase \in WorkflowPhases,
             NEW workflow \in Workflows, Write(key, entry, phase, workflow)
      PROVE  MemoryIInv'
  BY <1>1 DEF Write, MemoryTypeOK, PhaseGated
<1>2. ASSUME NEW key \in MemoryKeys, NEW phase \in WorkflowPhases,
             NEW workflow \in Workflows, Read(key, phase, workflow)
      PROVE  MemoryIInv'
  <2>1. /\ entries[key] \in Entry /\ owners[key] = Workflow
        /\ entries[key].written \in WritePhases
        /\ phase \in ReadPhases \cap entries[key].readable
        /\ workflow = Workflow
    BY <1>2 DEF Read, Readable, MemoryTypeOK
  <2>2. MemoryTypeOK'
    BY <1>2, <2>1 DEF Read, MemoryTypeOK
  <2>3. PhaseGated'
    BY <1>2, <2>1 DEF Read, PhaseGated
  <2> QED
    BY <1>2, <2>2, <2>3 DEF Read
<1>3. CASE UNCHANGED memoryVars
  BY <1>3 DEF memoryVars, MemoryTypeOK, PhaseGated
<1> QED
  BY <1>1, <1>2, <1>3 DEF MemoryNext

\* The invariant of shared memory holds at all times.
THEOREM MemoryInvariantHolds == MemorySpec => []MemoryIInv
  BY InitMemoryIInv, NextMemoryIInv, PTL DEF MemorySpec

\* For any workflows, keys and phases, a reader gets only what its own workflow
\* wrote in a phase that may write, in a phase for which it may be read.
THEOREM MemoryIsPhaseGated == MemorySpec => []PhaseGated
<1>1. MemoryIInv => PhaseGated
  BY DEF MemoryIInv
<1> QED
  BY <1>1, MemoryInvariantHolds, PTL

-----------------------------------------------------------------------------
(***************************************************************************)
(* AuditChain.  That the store's chain is intact is inductive.  Two intact *)
(* chains that have one hash in common agree on the record it is the hash  *)
(* of, since the digest has no collisions; hence on that record's previous *)
(* hash, and so on down to the first record: the last record in which they *)
(* differ would have a successor that tells them apart.                    *)
(***************************************************************************)

\* A record of the chain has all the fields of one.
IsLink(record) ==
    /\ LinkTypeOK(record)
    /\ record = Link(record.event, record.sequence, record.previous, record.hash)

\* A list of no more records than the store may hold.
IsChain(s) ==
    /\ s \in Seq({s[i] : i \in DOMAIN s}) /\ Len(s) <= MaxRecords
    /\ \A i \in DOMAIN s : IsLink(s[i])

ChainIInv ==
    /\ IsChain(records) /\ IsChain(copy)
    /\ alterations \in 0 .. MaxAlterations
    /\ Intact(records)

\* A sequence is one over its own elements.
LEMMA SequenceOfItsElements ==
    ASSUME NEW S, NEW s \in Seq(S)
    PROVE  s \in Seq({s[i] : i \in DOMAIN s})
<1> DEFINE R == {s[i] : i \in DOMAIN s}
<1>1. Len(s) \in Nat /\ s \in [1 .. Len(s) -> R]
  BY LenProperties
<1> QED
  BY <1>1, SeqDef

\* A sequence of links that is short enough is a chain.
LEMMA LinksAreChains ==
    ASSUME NEW S, NEW s \in Seq(S), Len(s) <= MaxRecords, \A r \in S : IsLink(r)
    PROVE  IsChain(s)
<1>1. \A i \in DOMAIN s : s[i] \in S
  BY LenProperties
<1> QED
  BY <1>1, SequenceOfItsElements DEF IsChain

\* What a chain is as a sequence.
LEMMA ChainFacts ==
    ASSUME NEW s, IsChain(s)
    PROVE  /\ Len(s) \in Nat /\ DOMAIN s = 1 .. Len(s) /\ Len(s) <= MaxRecords
           /\ \A i \in 1 .. Len(s) : IsLink(s[i])
           /\ s = <<>> <=> Len(s) = 0
  BY LenProperties, EmptySeq DEF IsChain

\* Replacing one record of a chain by another, and joining two pieces of it,
\* make chains.
LEMMA ReplacedIsChain ==
    ASSUME NEW s, IsChain(s), NEW i \in DOMAIN s, NEW r, IsLink(r)
    PROVE  IsChain([s EXCEPT ![i] = r])
<1> DEFINE R == {s[j] : j \in DOMAIN s} \cup {r}
<1>1. s \in Seq(R) /\ \A q \in R : IsLink(q)
  BY SeqMonotonic DEF IsChain
<1>2. i \in 1 .. Len(s) /\ Len(s) <= MaxRecords
  BY ChainFacts
<1>3. [s EXCEPT ![i] = r] \in Seq(R) /\ Len([s EXCEPT ![i] = r]) = Len(s)
  <2> HIDE DEF R
  <2>1. r \in R
    BY DEF R
  <2> QED
    BY <1>1, <1>2, <2>1, ExceptSeq
<1> QED
  BY <1>1, <1>2, <1>3, LinksAreChains

LEMMA ShortenedIsChain ==
    ASSUME NEW s, IsChain(s), NEW i \in DOMAIN s
    PROVE  IsChain(Without(s, i))
<1> DEFINE R == {s[j] : j \in DOMAIN s}
<1> DEFINE before == SubSeq(s, 1, i - 1)
<1> DEFINE after == SubSeq(s, i + 1, Len(s))
<1>1. /\ Len(s) \in Nat /\ DOMAIN s = 1 .. Len(s) /\ Len(s) <= MaxRecords
      /\ \A q \in R : IsLink(q)
  BY ChainFacts
<1>2. before \in Seq(R) /\ Len(before) = i - 1
  BY <1>1, SubSeqProperties
<1>3. after \in Seq(R) /\ Len(after) = Len(s) - i
  BY <1>1, SubSeqProperties
<1> HIDE DEF R, before, after
<1>4. before \o after \in Seq(R) /\ Len(before \o after) = Len(s) - 1
  <2>1. /\ before \o after \in Seq(R)
        /\ Len(before \o after) = Len(before) + Len(after)
    BY <1>2, <1>3, ConcatProperties
  <2>2. i \in 1 .. Len(s) /\ (i - 1) + (Len(s) - i) = Len(s) - 1
    BY <1>1
  <2> QED
    BY <1>2, <1>3, <2>1, <2>2
<1>5. Len(before \o after) <= MaxRecords
  BY <1>1, <1>4, ChainAssumption
<1> QED
  BY <1>1, <1>4, <1>5, LinksAreChains DEF Without, before, after

-----------------------------------------------------------------------------
\* There is nothing in the store and the copy initially.
LEMMA InitChainIInv == ChainInit => ChainIInv
<1> SUFFICES ASSUME ChainInit PROVE ChainIInv
  OBVIOUS
<1>1. IsChain(<<>>)
  <2> DEFINE s == <<>>
  <2>1. s \in Seq({s[i] : i \in DOMAIN s})
    BY EmptySeq
  <2>2. Len(s) <= MaxRecords /\ DOMAIN s = {}
    BY ChainAssumption
  <2> QED
    BY <2>1, <2>2 DEF IsChain
<1>2. Intact(<<>>)
  BY DEF Intact
<1> QED
  BY <1>1, <1>2, ChainAssumption DEF ChainInit, ChainIInv

\* append extends an intact chain by a link that keeps it intact.
LEMMA AppendKeepsChain ==
    ASSUME ChainIInv, NEW event \in ChainEvents, AppendRecord(event)
    PROVE  ChainIInv'
<1> DEFINE n == Len(records)
<1> DEFINE previous == IF records = <<>> THEN GENESIS ELSE records[n].hash
<1> DEFINE draft == Link(event, n + 1, previous, GENESIS)
<1> DEFINE r == [draft EXCEPT !.hash = Digest(draft)]
<1>1. n \in Nat /\ DOMAIN records = 1 .. n /\ n < MaxRecords
  BY ChainFacts DEF AppendRecord, ChainIInv
<1>2. r = Link(event, n + 1, previous, <<event, n + 1, previous>>)
  BY DEF Link, Digest
<1>3. Len(previous) \in {0, 3}
  <2>1. CASE records = <<>>
    BY <2>1 DEF GENESIS
  <2>2. CASE records # <<>>
    <3>1. IsLink(records[n])
      BY <1>1, <2>2, ChainFacts DEF ChainIInv
    <3> QED
      BY <2>2, <3>1 DEF IsLink, LinkTypeOK
  <2> QED
    BY <2>1, <2>2
<1>4. records' = Append(records, r) /\ UNCHANGED <<copy, alterations>>
  BY DEF AppendRecord
<1> HIDE DEF previous, draft, r
<1>5. IsLink(r)
  BY <1>1, <1>2, <1>3, ChainAssumption DEF IsLink, LinkTypeOK, Link
<1>6. /\ IsChain(records') /\ Len(records') = n + 1
      /\ \A i \in 1 .. n : records'[i] = records[i]
      /\ records'[n + 1] = r
  <2> DEFINE R == {records[j] : j \in DOMAIN records} \cup {r}
  <2>1. records \in Seq(R) /\ r \in R /\ \A q \in R : IsLink(q)
    BY <1>5, SeqMonotonic DEF IsChain, ChainIInv
  <2> HIDE DEF R
  <2>2. /\ records' \in Seq(R) /\ Len(records') = n + 1
        /\ \A i \in 1 .. n : records'[i] = records[i]
        /\ records'[n + 1] = r
    BY <1>4, <2>1, AppendProperties
  <2> QED
    BY <1>1, <2>1, <2>2, LinksAreChains, ChainAssumption
<1>7. Intact(records')
  <2>1. DOMAIN records' = 1 .. n + 1
    BY <1>6, ChainFacts
  <2>2. SUFFICES ASSUME NEW i \in 1 .. n + 1
                 PROVE  /\ records'[i].sequence = i
                        /\ records'[i].previous
                               = IF i = 1 THEN GENESIS ELSE records'[i - 1].hash
                        /\ records'[i].hash = Digest(records'[i])
    BY <2>1 DEF Intact
  <2>3. CASE i \in 1 .. n
    <3>1. i = 1 \/ i - 1 \in 1 .. n
      BY <1>1, <2>3
    <3> QED
      BY <1>1, <1>6, <2>3, <3>1 DEF Intact, ChainIInv
  <2>4. CASE i = n + 1
    <3>1. records = <<>> <=> i = 1
      BY <1>1, <2>4, ChainFacts DEF ChainIInv
    <3>2. i # 1 => i - 1 \in 1 .. n /\ records'[i - 1] = records[n]
      BY <1>1, <1>6, <2>4
    <3> QED
      BY <1>1, <1>2, <1>6, <2>4, <3>1, <3>2 DEF Link, Digest, previous
  <2> QED
    BY <1>1, <2>3, <2>4
<1> QED
  BY <1>4, <1>6, <1>7 DEF ChainIInv, n

\* Whatever is done to a record of the copy leaves a record.
LEMMA RelinkedIsLink ==
    ASSUME NEW r, IsLink(r), NEW previous, Len(previous) \in {0, 3}
    PROVE  IsLink([r EXCEPT !.previous = previous])
<1> DEFINE q == Link(r.event, r.sequence, previous, r.hash)
<1>1. [r EXCEPT !.previous = previous] = q
  BY DEF IsLink, Link
<1>2. IsLink(q)
  BY DEF IsLink, LinkTypeOK, Link
<1> QED
  BY <1>1, <1>2

LEMMA AlteredIsLink ==
    ASSUME NEW r, IsLink(r)
    PROVE  /\ \A event \in ChainEvents : IsLink([r EXCEPT !.event = event])
           /\ \A sequence \in 1 .. MaxRecords : IsLink([r EXCEPT !.sequence = sequence])
           /\ IsLink([r EXCEPT !.hash = Digest(r)])
<1> DEFINE e == r.event
<1> DEFINE n == r.sequence
<1> DEFINE p == r.previous
<1> DEFINE h == r.hash
<1>1. /\ r = Link(e, n, p, h)
      /\ e \in ChainEvents /\ n \in 1 .. MaxRecords /\ Len(p) \in {0, 3} /\ Len(h) = 3
  BY DEF IsLink, LinkTypeOK
<1> HIDE DEF e, n, p, h
<1>2. ASSUME NEW event \in ChainEvents PROVE IsLink([r EXCEPT !.event = event])
  <2>1. [r EXCEPT !.event = event] = Link(event, n, p, h)
    BY <1>1 DEF Link
  <2> QED
    BY <1>1, <2>1 DEF IsLink, LinkTypeOK, Link
<1>3. ASSUME NEW sequence \in 1 .. MaxRecords
      PROVE  IsLink([r EXCEPT !.sequence = sequence])
  <2>1. [r EXCEPT !.sequence = sequence] = Link(e, sequence, p, h)
    BY <1>1 DEF Link
  <2> QED
    BY <1>1, <2>1 DEF IsLink, LinkTypeOK, Link
<1>4. IsLink([r EXCEPT !.hash = Digest(r)])
  <2>1. [r EXCEPT !.hash = Digest(r)] = Link(e, n, p, <<e, n, p>>)
    BY <1>1 DEF Link, Digest
  <2>2. Len(<<e, n, p>>) = 3
    OBVIOUS
  <2> QED
    BY <1>1, <2>1, <2>2 DEF IsLink, LinkTypeOK, Link
<1> QED
  BY <1>2, <1>3, <1>4

\* A copy stays a chain whatever is done to it, and the store stays as it is.
LEMMA AlterKeepsChain ==
    ASSUME ChainIInv, Alter
    PROVE  ChainIInv'
<1>1. records' = records /\ alterations' \in 0 .. MaxAlterations
  BY ChainAssumption DEF Alter, ChainIInv
<1>2. Len(copy) \in Nat /\ DOMAIN copy = 1 .. Len(copy) /\ Len(copy) <= MaxRecords
  BY ChainFacts DEF ChainIInv
<1>3. \A j \in DOMAIN copy : IsLink(copy[j]) /\ Len(copy[j].hash) = 3
  BY <1>2, ChainFacts DEF ChainIInv, IsLink, LinkTypeOK
<1>4. PICK i \in DOMAIN copy :
        \/ \E event \in ChainEvents : copy' = [copy EXCEPT ![i].event = event]
        \/ \E previous \in {copy[j].hash : j \in DOMAIN copy} \cup {GENESIS} :
               copy' = [copy EXCEPT ![i].previous = previous]
        \/ \E sequence \in DOMAIN copy : copy' = [copy EXCEPT ![i].sequence = sequence]
        \/ copy' = [copy EXCEPT ![i].hash = Digest(copy[i])]
        \/ copy' = Without(copy, i)
        \/ \E j \in DOMAIN copy : copy' = [copy EXCEPT ![i] = copy[j], ![j] = copy[i]]
  BY DEF Alter
<1>5. \A r : IsLink(r) => IsChain([copy EXCEPT ![i] = r])
  BY ReplacedIsChain DEF ChainIInv
<1>6. CASE \E event \in ChainEvents : copy' = [copy EXCEPT ![i].event = event]
  <2>1. PICK event \in ChainEvents :
            copy' = [copy EXCEPT ![i] = [copy[i] EXCEPT !.event = event]]
    BY <1>6
  <2> QED
    BY <1>1, <1>3, <1>5, <2>1, AlteredIsLink DEF ChainIInv
<1>7. CASE \E previous \in {copy[j].hash : j \in DOMAIN copy} \cup {GENESIS} :
               copy' = [copy EXCEPT ![i].previous = previous]
  <2>1. PICK previous \in {copy[j].hash : j \in DOMAIN copy} \cup {GENESIS} :
            copy' = [copy EXCEPT ![i] = [copy[i] EXCEPT !.previous = previous]]
    BY <1>7
  <2>2. Len(previous) \in {0, 3}
    BY <1>3, <2>1 DEF GENESIS
  <2>3. IsLink(copy[i])
    BY <1>3
  <2> DEFINE r == [copy[i] EXCEPT !.previous = previous]
  <2>4. IsLink(r)
    BY <2>2, <2>3, RelinkedIsLink
  <2>5. copy' = [copy EXCEPT ![i] = r]
    BY <2>1
  <2> HIDE DEF r
  <2> QED
    BY <1>1, <1>5, <2>4, <2>5 DEF ChainIInv
<1>8. CASE \E sequence \in DOMAIN copy : copy' = [copy EXCEPT ![i].sequence = sequence]
  <2>1. PICK sequence \in DOMAIN copy :
            copy' = [copy EXCEPT ![i] = [copy[i] EXCEPT !.sequence = sequence]]
    BY <1>8
  <2>2. sequence \in 1 .. MaxRecords
    BY <1>2, ChainAssumption
  <2> QED
    BY <1>1, <1>3, <1>5, <2>1, <2>2, AlteredIsLink DEF ChainIInv
<1>9. CASE copy' = [copy EXCEPT ![i].hash = Digest(copy[i])]
  <2>1. copy' = [copy EXCEPT ![i] = [copy[i] EXCEPT !.hash = Digest(copy[i])]]
    BY <1>9
  <2> QED
    BY <1>1, <1>3, <1>5, <2>1, AlteredIsLink DEF ChainIInv
<1>10. CASE copy' = Without(copy, i)
  BY <1>1, <1>10, ShortenedIsChain DEF ChainIInv
<1>11. CASE \E j \in DOMAIN copy : copy' = [copy EXCEPT ![i] = copy[j], ![j] = copy[i]]
  <2>1. PICK j \in DOMAIN copy : copy' = [copy EXCEPT ![i] = copy[j], ![j] = copy[i]]
    BY <1>11
  <2> DEFINE half == [copy EXCEPT ![i] = copy[j]]
  <2>2. IsChain(half) /\ DOMAIN half = DOMAIN copy
    BY <1>3, <1>5
  <2>3. copy' = [half EXCEPT ![j] = copy[i]]
    BY <2>1
  <2> HIDE DEF half
  <2>4. IsChain(copy')
    BY <1>3, <2>2, <2>3, ReplacedIsChain
  <2> QED
    BY <1>1, <2>4 DEF ChainIInv
<1> QED
  BY <1>4, <1>6, <1>7, <1>8, <1>9, <1>10, <1>11

\* Every step keeps the store's chain intact.
LEMMA NextChainIInv == ChainIInv /\ [ChainNext]_chainVars => ChainIInv'
<1> SUFFICES ASSUME ChainIInv, [ChainNext]_chainVars PROVE ChainIInv'
  OBVIOUS
<1>1. ASSUME NEW event \in ChainEvents, AppendRecord(event) PROVE ChainIInv'
  BY <1>1, AppendKeepsChain
<1>2. CASE Export
  BY <1>2, ChainAssumption DEF Export, ChainIInv
<1>3. CASE Alter
  BY <1>3, AlterKeepsChain
<1>4. CASE UNCHANGED chainVars
  BY <1>4 DEF chainVars, ChainIInv
<1> QED
  BY <1>1, <1>2, <1>3, <1>4 DEF ChainNext

\* The store's chain is intact at all times.
THEOREM ChainInvariantHolds == ChainSpec => []ChainIInv
  BY InitChainIInv, NextChainIInv, PTL DEF ChainSpec

\* The store's records and those of a copy keep their types.
THEOREM ChainTypeCorrect == ChainSpec => []ChainTypeOK
<1>1. ChainIInv => ChainTypeOK
  BY DEF ChainIInv, IsChain, IsLink, ChainTypeOK
<1> QED
  BY <1>1, ChainInvariantHolds, PTL

-----------------------------------------------------------------------------
\* A set of numbers that has an upper bound, and is not empty, has a greatest.
LEMMA GreatestNumber ==
    ASSUME NEW S, NEW bound \in Nat, S \subseteq 0 .. bound, S # {}
    PROVE  \E n \in S : \A m \in S : m <= n
<1> DEFINE D == {bound - m : m \in S}
<1>1. D \subseteq Nat /\ D # {}
  <2>1. \A m \in S : bound - m \in Nat
    OBVIOUS
  <2> QED
    BY <2>1
<1>2. PICK d \in D : \A m \in D : d <= m
  BY <1>1, LeastNumber
<1>3. PICK n \in S : d = bound - n
  BY <1>2
<1>4. \A m \in S : bound - n <= bound - m
  BY <1>2, <1>3
<1> QED
  BY <1>3, <1>4

\* Records with the same hash, in intact chains, are the same record.
LEMMA SameHashSameRecord ==
    ASSUME NEW s, IsChain(s), Intact(s), NEW t, IsChain(t), Intact(t),
           NEW i \in DOMAIN s, NEW j \in DOMAIN t, s[i].hash = t[j].hash
    PROVE  i = j /\ s[i] = t[j]
<1>1. IsLink(s[i]) /\ IsLink(t[j])
  BY ChainFacts DEF IsChain
<1>2. /\ <<s[i].event, s[i].sequence, s[i].previous>> = <<t[j].event, t[j].sequence, t[j].previous>>
      /\ s[i].sequence = i /\ t[j].sequence = j
  BY DEF Intact, Digest
<1>3. /\ s[i].event = t[j].event /\ s[i].sequence = t[j].sequence
      /\ s[i].previous = t[j].previous
  BY <1>2
<1>4. /\ s[i] = Link(s[i].event, s[i].sequence, s[i].previous, s[i].hash)
      /\ t[j] = Link(t[j].event, t[j].sequence, t[j].previous, t[j].hash)
  BY <1>1 DEF IsLink
<1> QED
  BY <1>2, <1>3, <1>4

\* Of two intact chains, the one that ends with a hash of the other is its
\* beginning.
LEMMA IntactChainsAgree ==
    ASSUME NEW s, IsChain(s), Intact(s), s # <<>>, NEW t, IsChain(t), Intact(t),
           NEW n \in DOMAIN t, s[Len(s)].hash = t[n].hash
    PROVE  s = SubSeq(t, 1, n)
<1>1. /\ Len(s) \in Nat /\ DOMAIN s = 1 .. Len(s) /\ Len(s) # 0
      /\ Len(t) \in Nat /\ DOMAIN t = 1 .. Len(t)
  BY ChainFacts
<1>2. Len(s) = n /\ s[n] = t[n]
  <2>1. Len(s) \in DOMAIN s
    BY <1>1
  <2> QED
    BY <2>1, SameHashSameRecord
<1> DEFINE differ == {i \in 1 .. n : s[i] # t[i]}
<1>3. differ = {}
  <2>1. SUFFICES ASSUME differ # {} PROVE FALSE
    OBVIOUS
  <2>2. PICK last \in differ : \A i \in differ : i <= last
    <3>1. differ \subseteq 0 .. n /\ n \in Nat
      BY <1>1
    <3> HIDE DEF differ
    <3> QED
      BY <2>1, <3>1, GreatestNumber
  <2>3. last \in 1 .. n /\ last # n /\ s[last] # t[last]
    BY <1>2
  <2> DEFINE next == last + 1
  <2>4. /\ last \in DOMAIN s /\ last \in DOMAIN t
        /\ next \in DOMAIN s /\ next \in DOMAIN t /\ next # 1 /\ next - 1 = last
    BY <1>1, <1>2, <2>3
  <2>5. s[next] = t[next]
    <3>1. next \in 1 .. n /\ ~(next <= last)
      BY <1>1, <2>3
    <3> QED
      BY <2>2, <3>1
  <2>6. s[next].previous = s[last].hash /\ t[next].previous = t[last].hash
    <3> HIDE DEF next
    <3> QED
      BY <2>4 DEF Intact
  <2>7. s[last].hash = t[last].hash
    BY <2>5, <2>6
  <2> QED
    BY <2>3, <2>4, <2>7, SameHashSameRecord
<1>4. \A i \in 1 .. n : s[i] = t[i]
  BY <1>3
<1> DEFINE R == {s[i] : i \in DOMAIN s} \cup {t[i] : i \in DOMAIN t}
<1>5. s \in Seq(R) /\ t \in Seq(R)
  BY SeqMonotonic DEF IsChain
<1>6. \A i \in 1 .. n : t[i] \in R
  BY <1>1
<1> DEFINE u == SubSeq(t, 1, n)
<1>7. u \in Seq(R) /\ Len(u) = n /\ \A i \in 1 .. n : u[i] = t[i]
  <2> HIDE DEF R
  <2>1. /\ u \in Seq(R) /\ Len(u) = IF 1 <= n THEN n - 1 + 1 ELSE 0
        /\ \A i \in 1 .. n - 1 + 1 : u[i] = t[1 + i - 1]
    BY <1>1, <1>6, SubSeqProperties
  <2> QED
    BY <1>1, <2>1
<1> HIDE DEF u, R
<1>8. s = u
  BY <1>2, <1>4, <1>5, <1>7, SeqEqual
<1> QED
  BY <1>8 DEF u

\* For any events, any number of records and any alterations: the store's chain
\* is intact, and an intact copy that ends with one of its hashes is what the
\* store held up to there.
THEOREM ChainsAgree == ChainSpec => []ChainsWithOneEndAgree
<1>1. ChainIInv => ChainsWithOneEndAgree
  BY IntactChainsAgree DEF ChainIInv, ChainsWithOneEndAgree
<1> QED
  BY <1>1, ChainInvariantHolds, PTL

-----------------------------------------------------------------------------
(* Side by side                                                             *)

\* What one component does is a step of it, and no step of the others.
LEMMA StepOfEachComponent ==
    [LabNext]_<<handoffVars, memoryVars, store, pipelineVars, coverageVars, chainVars>> =>
        /\ [HandoffNext]_handoffVars
        /\ [MemoryNext]_memoryVars
        /\ [EngineNext]_store
        /\ [PipelineNext]_pipelineVars
        /\ [CoverageNext]_coverageVars
        /\ [ChainNext]_chainVars
  BY DEF LabNext

\* The composition that the runs explore runs every component by its own
\* specification, so that what is proved of a component is proved of it there.
THEOREM LabRunsItsComponents ==
    LabSpec => /\ HandoffSpec
               /\ MemorySpec
               /\ EngineSpec
               /\ PipelineSpec
               /\ CoverageSpec
               /\ ChainSpec
<1>1. LabInit => HandoffInit /\ MemoryInit /\ EngineInit /\ PipelineInit /\ CoverageInit /\ ChainInit
  BY DEF LabInit
<1> QED
  BY <1>1, StepOfEachComponent, PTL
     DEF LabSpec, HandoffSpec, MemorySpec, EngineSpec, PipelineSpec, CoverageSpec, ChainSpec

\* The types of every component, in the composition.
THEOREM PartsTypeCorrect == LabSpec => []PartsTypeOK
<1>1. HandoffTypeOK /\ MemoryIInv /\ EngineTypeOK /\ PipelineTypeOK /\ CoverageTypeOK /\ ChainTypeOK
          => PartsTypeOK
  BY DEF PartsTypeOK, MemoryIInv
<1> QED
  BY <1>1, LabRunsItsComponents, HandoffTypeCorrect, MemoryInvariantHolds, EngineTypeCorrect,
     PipelineTypeCorrect, CoverageTypeCorrect, ChainTypeCorrect, PTL
=============================================================================
