----------------------- MODULE PolicyOperations_proofs -----------------------
(***************************************************************************)
(* What PolicyOperations promises for any rule sets, versions, workers and *)
(* incident keys, and any number of calls, failures and restarts.          *)
(***************************************************************************)
EXTENDS PolicyOperations, TLAPS

-----------------------------------------------------------------------------
(***************************************************************************)
(* The history file.                                                       *)
(***************************************************************************)

\* What an append can do to the file: it adds at most its own record, and if the
\* file can be read afterwards it could before, and nothing was lost from it.
LEMMA WrittenFacts ==
    ASSUME NEW h \in Seq(Line), NEW r \in Record, NEW part \in Part
    PROVE  /\ Written(h, r, part) \in Seq(Line)
           /\ Records(Written(h, r, part)) \subseteq Records(h) \cup {r}
           /\ Readable(Written(h, r, part)) =>
                /\ Readable(h)
                /\ Records(h) \subseteq Records(Written(h, r, part))
                /\ part = "all" => r \in Records(Written(h, r, part))
<1>0. r # Corrupt
  BY OperationsAssumption
<1>1. CASE part = "nothing"
  BY <1>1 DEF Written, Records, Readable
<1>2. CASE part # "nothing" /\ LastOpen(h)
  <2> DEFINE l == [record |-> Corrupt, closed |-> part = "all"]
  <2>1. Len(h) \in DOMAIN h
    BY <1>2 DEF LastOpen
  <2>2. Written(h, r, part) = [h EXCEPT ![Len(h)] = l]
    BY <1>2 DEF Written
  <2>3. l \in Line
    BY DEF Line
  <2>4. Written(h, r, part) \in Seq(Line)
    BY <2>1, <2>2, <2>3
  <2>5. Records(Written(h, r, part)) \subseteq Records(h)
    BY <2>1, <2>2 DEF Records
  <2>6. ~Readable(Written(h, r, part))
    BY <2>1, <2>2 DEF Readable
  <2> QED
    BY <2>4, <2>5, <2>6
<1>3. CASE part # "nothing" /\ ~LastOpen(h)
  <2> DEFINE l == [record |-> IF part = "some" THEN Corrupt ELSE r, closed |-> part = "all"]
             g == Append(h, l)
  <2>1. Written(h, r, part) = g
    BY <1>3 DEF Written
  <2>2. l \in Line
    BY DEF Line
  <2>3. /\ g \in Seq(Line)
        /\ DOMAIN g = DOMAIN h \cup {Len(h) + 1}
        /\ \A i \in DOMAIN h : g[i] = h[i]
        /\ g[Len(h) + 1] = l
    BY <2>2
  <2>4. l.record \in {Corrupt, r} /\ (part = "all" => l.record = r)
    OBVIOUS
  <2> HIDE DEF l, g
  <2>5. Records(g) \subseteq Records(h) \cup {r}
    BY <2>3, <2>4 DEF Records
  <2>6. Readable(g) => Readable(h) /\ Records(h) \subseteq Records(g)
    BY <2>3 DEF Readable, Records
  <2>7. part = "all" => r \in Records(g)
    BY <1>0, <2>3, <2>4 DEF Records
  <2> QED
    BY <2>1, <2>3, <2>5, <2>6, <2>7
<1> QED
  BY <1>1, <1>2, <1>3

-----------------------------------------------------------------------------
(***************************************************************************)
(* Types, and the order of a call's steps.                                 *)
(***************************************************************************)

TypeInv == OperationsTypeOK /\ CallsInOrder

\* The job of a worker that has none is a job.
LEMMA NoJobIsJob == NoJob \in Job /\ NoJob.generation = 0 /\ NoJob.key = NoKey
<1>1. (CHOOSE n \in Names : TRUE) \in Names
  BY OperationsAssumption
<1> QED
  BY <1>1 DEF NoJob, Job, Channel, VersionOrNone

\* The initial state is well typed, and no call runs in it.
LEMMA InitTypeInv == Init => TypeInv
<1> SUFFICES ASSUME Init PROVE TypeInv
  OBVIOUS
<1>1. NoJob \in Job /\ NoJob.generation = 0 /\ NoJob.key = NoKey
  BY NoJobIsJob
<1> HIDE DEF NoJob
<1>2. OperationsTypeOK
  BY <1>1 DEF Init, Started, OperationsTypeOK, RegistryInit, RegistryTypeOK, VersionOrNone, PCs
<1>3. CallsInOrder
  BY <1>1 DEF Init, Started, CallsInOrder, Uncommitted
<1> QED
  BY <1>2, <1>3 DEF TypeInv

\* A call that begins has a well typed job that has done nothing yet.
LEMMA BeginTypeInv ==
    ASSUME TypeInv, NEW w \in Workers, NEW label \in {"check", "observe"}, NEW j \in Job,
           j.generation = 0, label = "check" => j.version \in Versions,
           handled' \subseteq IncidentKeys, Begin(w, label, j)
    PROVE  TypeInv'
<1>1. OperationsTypeOK'
  BY DEF TypeInv, OperationsTypeOK, RegistryTypeOK, Begin, Goto, PCs, registryVars, historyVars
<1>2. CallsInOrder'
  BY DEF TypeInv, CallsInOrder, OperationsTypeOK, Begin, Goto, Uncommitted
<1> QED
  BY <1>1, <1>2 DEF TypeInv

\* The jobs calls begin with are jobs.
LEMMA JobsAreJobs ==
    ASSUME OperationsTypeOK, NEW n \in Names
    PROVE  /\ \A v \in Versions, route \in Routes :
                [op |-> "promote", name |-> n, source |-> route[1], target |-> route[2],
                 previous |-> active[<<n, route[2]>>], version |-> v, key |-> NoKey,
                 generation |-> 0] \in Job
           /\ \A c \in Targets, bad \in Versions, key \in IncidentKeys \cup {NoKey} :
                [op |-> "rollback", name |-> n, source |-> c, target |-> c,
                 previous |-> bad, version |-> NoVersion, key |-> key,
                 generation |-> 0] \in Job
<1>1. ASSUME NEW v \in Versions, NEW route \in Routes
      PROVE  [op |-> "promote", name |-> n, source |-> route[1], target |-> route[2],
              previous |-> active[<<n, route[2]>>], version |-> v, key |-> NoKey,
              generation |-> 0] \in Job
  <2>1. route[1] \in Channel /\ route[2] \in Channel
    BY OperationsAssumption
  <2>2. active[<<n, route[2]>>] \in VersionOrNone
    BY <2>1 DEF OperationsTypeOK, RegistryTypeOK, Key
  <2> QED
    BY <2>1, <2>2 DEF Job, VersionOrNone
<1>2. ASSUME NEW c \in Targets, NEW bad \in Versions, NEW key \in IncidentKeys \cup {NoKey}
      PROVE  [op |-> "rollback", name |-> n, source |-> c, target |-> c,
              previous |-> bad, version |-> NoVersion, key |-> key, generation |-> 0] \in Job
  BY OperationsAssumption DEF Job, VersionOrNone
<1> QED
  BY <1>1, <1>2

\* A call that has a version has a record.
LEMMA RecordsAreRecords ==
    ASSUME NEW j \in Job, j.version \in Versions
    PROVE  RecordOf(j) \in Record
  BY DEF Job, RecordOf, Record

\* What a call reports to the audit store is an event.
LEMMA EventsAreEvents ==
    ASSUME TypeInv, NEW w \in Workers, NEW d \in {"ALLOW", "DENY"}
    PROVE  EventOf(job[w], d) \in Event
<1>1. job[w] \in Job
  BY DEF TypeInv, OperationsTypeOK
<1>2. job[w].generation # 0 => job[w].version \in Versions
  BY DEF TypeInv, OperationsTypeOK, CallsInOrder, Uncommitted, PCs
<1>3. job[w].generation # 0 => RecordOf(job[w]) \in Record
  BY <1>1, <1>2, RecordsAreRecords
<1> QED
  BY <1>1, <1>3 DEF EventOf, Event, TypeInv, OperationsTypeOK, Job
\* Every step keeps the types and the order, one action at a time.
LEMMA NextTypeInv == TypeInv /\ [Next]_vars => TypeInv'
<1> SUFFICES ASSUME TypeInv, [Next]_vars PROVE TypeInv'
  OBVIOUS
<1>0. OperationsTypeOK /\ CallsInOrder
  BY DEF TypeInv
<1>1. ASSUME NEW w \in Workers, NEW n \in Names, NEW v \in Versions, NEW route \in Routes,
             Promote(w, n, v, route)
      PROVE  TypeInv'
  <2> DEFINE j == [op |-> "promote", name |-> n, source |-> route[1], target |-> route[2],
                   previous |-> active[<<n, route[2]>>], version |-> v, key |-> NoKey,
                   generation |-> 0]
  <2>1. j \in Job
    BY <1>0, JobsAreJobs
  <2>2. j.generation = 0 /\ j.version \in Versions
    OBVIOUS
  <2>3. Begin(w, "check", j) /\ handled' \subseteq IncidentKeys
    BY <1>0, <1>1 DEF Promote, OperationsTypeOK
  <2> HIDE DEF j
  <2> QED
    BY <2>1, <2>2, <2>3, BeginTypeInv
<1>2. ASSUME NEW w \in Workers, NEW n \in Names, NEW c \in Targets, NEW bad \in Versions,
             \/ Rollback(w, n, c, bad)
             \/ \E key \in IncidentKeys : HandleIncident(w, key, n, c, bad)
      PROVE  TypeInv'
  <2>1. PICK key \in IncidentKeys \cup {NoKey} :
          /\ Begin(w, "observe",
                   [op |-> "rollback", name |-> n, source |-> c, target |-> c,
                    previous |-> bad, version |-> NoVersion, key |-> key, generation |-> 0])
          /\ handled' \subseteq IncidentKeys
    BY <1>0, <1>2 DEF Rollback, HandleIncident, OperationsTypeOK
  <2> DEFINE j == [op |-> "rollback", name |-> n, source |-> c, target |-> c,
                   previous |-> bad, version |-> NoVersion, key |-> key, generation |-> 0]
  <2>2. j \in Job
    BY <1>0, JobsAreJobs
  <2>3. j.generation = 0
    OBVIOUS
  <2>4. Begin(w, "observe", j)
    BY <2>1
  <2> HIDE DEF j
  <2> QED
    BY <2>1, <2>2, <2>3, <2>4, BeginTypeInv
<1>3. ASSUME NEW w \in Workers, CheckPromotion(w) \/ Observe(w) PROVE TypeInv'
  <2>1. OperationsTypeOK'
    BY <1>0, <1>3 DEF CheckPromotion, Observe, Goto, OperationsTypeOK, RegistryTypeOK, PCs,
                      registryVars, countVars, historyVars
  <2>2. CallsInOrder'
    BY <1>0, <1>3 DEF CheckPromotion, Observe, Goto, OperationsTypeOK, CallsInOrder, Uncommitted
  <2> QED
    BY <2>1, <2>2 DEF TypeInv
<1>4. ASSUME NEW w \in Workers, Recall(w) PROVE TypeInv'
  <2>1. CASE UNCHANGED job /\ Goto(w, "deny")
    <3>1. OperationsTypeOK'
      BY <1>0, <1>4, <2>1 DEF Recall, Goto, OperationsTypeOK, RegistryTypeOK, PCs,
                              registryVars, countVars, historyVars
    <3>2. CallsInOrder'
      BY <1>0, <1>4, <2>1 DEF Recall, Goto, OperationsTypeOK, CallsInOrder, Uncommitted
    <3> QED
      BY <3>1, <3>2 DEF TypeInv
  <2>2. ASSUME NEW v \in Predecessors(job[w]) \ {NoVersion}, Readable(history),
               job' = [job EXCEPT ![w].version = v], Goto(w, "swap")
        PROVE  TypeInv'
    <3>1. v \in Versions
      <4>1. PICK i \in DOMAIN history : v = history[i].record.previous
        BY <2>2 DEF Predecessors, ActivationLines
      <4>2. history[i] \in Line /\ history[i].record # Corrupt
        BY <1>0, <2>2 DEF OperationsTypeOK, Readable
      <4> QED
        BY <2>2, <4>1, <4>2 DEF Line, Record, VersionOrNone
    <3>2. job[w] \in Job
      BY <1>0 DEF OperationsTypeOK
    <3>3. [job[w] EXCEPT !.version = v] \in Job
      BY <3>1, <3>2 DEF Job, VersionOrNone
    <3>4. job' = [job EXCEPT ![w] = [job[w] EXCEPT !.version = v]]
      BY <2>2
    <3>5. OperationsTypeOK'
      BY <1>0, <1>4, <2>2, <3>3, <3>4 DEF Recall, Goto, OperationsTypeOK, RegistryTypeOK, PCs,
                              registryVars, countVars, historyVars
    <3>6. CallsInOrder'
      BY <1>0, <1>4, <2>2, <3>1, <3>2
      DEF Recall, Goto, OperationsTypeOK, CallsInOrder, Uncommitted, Job
    <3> QED
      BY <3>5, <3>6 DEF TypeInv
  <2> QED
    BY <1>4, <2>1, <2>2 DEF Recall
<1>5. ASSUME NEW w \in Workers, Swap(w) PROVE TypeInv'
  <2>1. job[w] \in Job /\ job[w].version \in Versions /\ JobKey(job[w]) \in Key
    BY <1>0, <1>5 DEF Swap, OperationsTypeOK, CallsInOrder, Job, JobKey, Key
  <2>2. RegistryTypeOK' /\ generation' # 0
    BY <1>0, <1>5, <2>1
    DEF Swap, CompareAndActivate, OperationsTypeOK, RegistryTypeOK, VersionOrNone
  <2>3. [job[w] EXCEPT !.generation = generation'] \in Job
    BY <2>1, <2>2 DEF Job, RegistryTypeOK
  <2>4. job' = [job EXCEPT ![w] = [job[w] EXCEPT !.generation = generation']]
    BY <1>5 DEF Swap
  <2>5. job' \in [Workers -> Job]
    BY <1>0, <2>3, <2>4 DEF OperationsTypeOK
  <2>6. happened' \subseteq Record
    <3>1. RecordOf(job[w]) \in Record
      BY <2>1, RecordsAreRecords
    <3>2. active[JobKey(job[w])] \in VersionOrNone
      BY <1>0, <2>1 DEF OperationsTypeOK, RegistryTypeOK
    <3>3. [RecordOf(job[w]) EXCEPT !.previous = active[JobKey(job[w])]] \in Record
      BY <3>1, <3>2 DEF Record
    <3> QED
      BY <1>0, <1>5, <3>3 DEF Swap, OperationsTypeOK
  <2>7. OperationsTypeOK'
    BY <1>0, <1>5, <2>2, <2>5, <2>6 DEF Swap, Goto, OperationsTypeOK, PCs, countVars
  <2>8. CallsInOrder'
    BY <1>0, <1>5, <2>1, <2>2 DEF Swap, Goto, OperationsTypeOK, CallsInOrder, Uncommitted, Job
  <2> QED
    BY <2>7, <2>8 DEF TypeInv
<1>6. ASSUME NEW w \in Workers, SwapRefused(w) PROVE TypeInv'
  <2>1. OperationsTypeOK'
    BY <1>0, <1>6 DEF SwapRefused, Goto, OperationsTypeOK, RegistryTypeOK, PCs,
                      registryVars, countVars, historyVars
  <2>2. CallsInOrder'
    BY <1>0, <1>6 DEF SwapRefused, Goto, OperationsTypeOK, CallsInOrder, Uncommitted
  <2> QED
    BY <2>1, <2>2 DEF TypeInv
<1>7. ASSUME NEW w \in Workers, AppendRecord(w) \/ AppendFails(w) PROVE TypeInv'
  <2>1. RecordOf(job[w]) \in Record
    BY <1>0, <1>7, RecordsAreRecords DEF AppendRecord, AppendFails, OperationsTypeOK, CallsInOrder
  <2>2. PICK part \in Part : history' = Written(history, RecordOf(job[w]), part)
    BY <1>7 DEF AppendRecord, AppendFails, Part
  <2>3. history' \in Seq(Line)
    BY <1>0, <2>1, <2>2, WrittenFacts DEF OperationsTypeOK
  <2>4. OperationsTypeOK'
    <3>1. CASE AppendRecord(w)
      BY <1>0, <2>3, <3>1 DEF AppendRecord, Goto, OperationsTypeOK, RegistryTypeOK, PCs,
                              registryVars, countVars, historyVars
    <3>2. CASE AppendFails(w)
      BY <1>0, <2>3, <3>2 DEF AppendFails, Goto, OperationsTypeOK, RegistryTypeOK, PCs,
                              registryVars, historyVars
    <3> QED
      BY <1>7, <3>1, <3>2
  <2>5. CallsInOrder'
    BY <1>0, <1>7 DEF AppendRecord, AppendFails, Goto, OperationsTypeOK, CallsInOrder, Uncommitted
  <2> QED
    BY <2>4, <2>5 DEF TypeInv
<1>8. ASSUME NEW w \in Workers, RecordDenial(w) \/ RecordAllow(w) \/ AuditRejects(w)
      PROVE  TypeInv'
  <2>0. NoJob \in Job /\ NoJob.generation = 0 /\ NoJob.key = NoKey
    BY NoJobIsJob
  <2>1. audit' \subseteq Event
    BY <1>0, <1>8, EventsAreEvents
    DEF RecordDenial, RecordAllow, AuditRejects, Recorded, OperationsTypeOK
  <2>2. rejected' \subseteq Event
    BY <1>0, <1>8, EventsAreEvents
    DEF RecordDenial, RecordAllow, AuditRejects, OperationsTypeOK, historyVars
  <2>3. Finish(w)
    BY <1>8 DEF RecordDenial, RecordAllow, AuditRejects
  <2> HIDE DEF NoJob
  <2>4. job' \in [Workers -> Job] /\ pc' \in [Workers -> PCs]
    BY <1>0, <2>0, <2>3 DEF Finish, Goto, OperationsTypeOK, PCs
  <2>5. OperationsTypeOK'
    BY <1>0, <1>8, <2>1, <2>2, <2>4
    DEF RecordDenial, RecordAllow, AuditRejects, OperationsTypeOK, RegistryTypeOK,
        registryVars, countVars, historyVars
  <2>6. CallsInOrder'
    BY <1>0, <2>0, <2>3 DEF Finish, Goto, OperationsTypeOK, CallsInOrder, Uncommitted
  <2> QED
    BY <2>5, <2>6 DEF TypeInv
<1>9. ASSUME Restart PROVE TypeInv'
  <2>0. NoJob \in Job /\ NoJob.generation = 0 /\ NoJob.key = NoKey
    BY NoJobIsJob
  <2>1. history' \in Seq(Line)
    <3>1. ASSUME NEW w \in Workers, NEW part \in Part, pc[w] = "append",
                 history' = Written(history, RecordOf(job[w]), part)
          PROVE  history' \in Seq(Line)
      <4>1. RecordOf(job[w]) \in Record
        BY <1>0, <3>1, RecordsAreRecords DEF OperationsTypeOK, CallsInOrder
      <4> QED
        BY <1>0, <3>1, <4>1, WrittenFacts DEF OperationsTypeOK
    <3> QED
      BY <1>0, <1>9, <3>1 DEF Restart, OperationsTypeOK
  <2> HIDE DEF NoJob
  <2>2. OperationsTypeOK'
    BY <1>0, <1>9, <2>0, <2>1
    DEF Restart, OperationsTypeOK, RegistryTypeOK, VersionOrNone, PCs
  <2>3. CallsInOrder'
    BY <1>9, <2>0 DEF Restart, CallsInOrder, Uncommitted
  <2> QED
    BY <2>2, <2>3 DEF TypeInv
<1>10. CASE UNCHANGED vars
  BY <1>0, <1>10 DEF vars, registryVars, countVars, historyVars, TypeInv, OperationsTypeOK,
                     RegistryTypeOK, CallsInOrder
<1> QED
  BY <1>1, <1>2, <1>3, <1>4, <1>5, <1>6, <1>7, <1>8, <1>9, <1>10 DEF Next, Call, Step

\* The registry, the file, the stores and the calls always hold what their types say.
THEOREM TypeCorrect == Spec => []OperationsTypeOK
<1>1. TypeInv => OperationsTypeOK
  BY DEF TypeInv
<1> QED
  BY InitTypeInv, NextTypeInv, <1>1, PTL DEF Spec
-----------------------------------------------------------------------------
(***************************************************************************)
(* Activations and the file.  Nothing is ever active, replaced or recorded *)
(* that was not activated before; what is about to be activated in         *)
(* production was active in staging: checked there by a promotion, and for *)
(* a rollback because it was active in production before.                  *)
(***************************************************************************)

TruthInv ==
    /\ ActiveHappened
    /\ PreviousHappened
    /\ SwapsStaged
    /\ AppendsTruthful
    /\ HistoryTruthful
    /\ ProductionWasStaged

\* A call leaves the other workers' calls alone.
LEMMA OthersUntouched ==
    ASSUME TypeInv, NEW w \in Workers, Call(w) \/ Step(w), NEW u \in Workers, u # w
    PROVE  pc'[u] = pc[u] /\ job'[u] = job[u]
<1>1. pc \in [Workers -> PCs] /\ job \in [Workers -> Job]
  BY DEF TypeInv, OperationsTypeOK
<1>2. CASE Call(w)
  BY <1>1, <1>2 DEF Call, Promote, Rollback, HandleIncident, Begin, Goto
<1>3. CASE CheckPromotion(w) \/ Observe(w) \/ Recall(w)
  BY <1>1, <1>3 DEF CheckPromotion, Observe, Recall, Goto
<1>4. CASE Swap(w) \/ SwapRefused(w) \/ AppendRecord(w) \/ AppendFails(w)
  BY <1>1, <1>4 DEF Swap, SwapRefused, AppendRecord, AppendFails, Goto
<1>5. CASE RecordDenial(w) \/ RecordAllow(w) \/ AuditRejects(w)
  BY <1>1, <1>5 DEF RecordDenial, RecordAllow, AuditRejects, Finish, Goto
<1> QED
  BY <1>2, <1>3, <1>4, <1>5 DEF Step

\* A step that activates nothing keeps the truth if the calls it leaves about to
\* activate or to append may do so, and the file gains only what happened.
LEMMA QuietStep ==
    ASSUME TruthInv, UNCHANGED happened,
           \A k \in Key : active'[k] \in {active[k], NoVersion},
           Records(history') \subseteq happened,
           \A u \in Workers :
             pc'[u] = "swap" /\ job'[u].target = "prod"
               => WasActive(job'[u].name, "staging", job'[u].version),
           \A u \in Workers : pc'[u] = "append" => RecordOf(job'[u]) \in happened
    PROVE  TruthInv'
<1>1. ActiveHappened' /\ PreviousHappened'
  BY DEF TruthInv, ActiveHappened, PreviousHappened, WasActive
<1>2. SwapsStaged' /\ AppendsTruthful'
  BY DEF SwapsStaged, AppendsTruthful, WasActive, RecordOf
<1>3. HistoryTruthful' /\ ProductionWasStaged'
  BY DEF TruthInv, HistoryTruthful, ProductionWasStaged, WasActive, Records
<1> QED
  BY <1>1, <1>2, <1>3 DEF TruthInv

\* Nothing has been activated initially.
LEMMA InitTruthInv == Init => TruthInv
  BY DEF Init, Started, RegistryInit, TruthInv, ActiveHappened, PreviousHappened, SwapsStaged,
         AppendsTruthful, HistoryTruthful, ProductionWasStaged, Records, WasActive

\* Every step keeps the truth.
LEMMA NextTruthInv == TypeInv /\ TypeInv' /\ TruthInv /\ [Next]_vars => TruthInv'
<1> SUFFICES ASSUME TypeInv, TypeInv', TruthInv, [Next]_vars PROVE TruthInv'
  OBVIOUS
<1>0. /\ pc \in [Workers -> PCs] /\ job \in [Workers -> Job]
      /\ Records(history) \subseteq happened
      /\ \A u \in Workers : pc[u] = "append" => RecordOf(job[u]) \in happened
      /\ \A u \in Workers :
           pc[u] = "swap" /\ job[u].target = "prod"
             => WasActive(job[u].name, "staging", job[u].version)
  BY DEF TypeInv, OperationsTypeOK, TruthInv, HistoryTruthful, AppendsTruthful, SwapsStaged
<1>1. ASSUME NEW w \in Workers, Call(w) \/ Step(w),
             UNCHANGED <<active, happened>>, Records(history') \subseteq happened,
             pc'[w] # "append",
             pc'[w] = "swap" /\ job'[w].target = "prod"
               => WasActive(job'[w].name, "staging", job'[w].version)
      PROVE  TruthInv'
  <2>1. ASSUME NEW u \in Workers
        PROVE  /\ pc'[u] = "swap" /\ job'[u].target = "prod"
                    => WasActive(job'[u].name, "staging", job'[u].version)
               /\ pc'[u] = "append" => RecordOf(job'[u]) \in happened
    <3>1. CASE u = w
      BY <1>1, <3>1
    <3>2. CASE u # w
      <4>1. pc'[u] = pc[u] /\ job'[u] = job[u]
        BY <1>1, <3>2, OthersUntouched
      <4> QED
        BY <1>0, <4>1
    <3> QED
      BY <3>1, <3>2
  <2> QED
    BY <1>1, <2>1, QuietStep
<1>2. ASSUME NEW w \in Workers, Call(w) PROVE TruthInv'
  <2>1. UNCHANGED <<active, happened, history>> /\ pc'[w] \in {"check", "observe"}
    BY <1>0, <1>2 DEF Call, Promote, Rollback, HandleIncident, Begin, Goto, registryVars, historyVars
  <2> QED
    BY <1>0, <1>1, <1>2, <2>1
<1>3. ASSUME NEW w \in Workers, CheckPromotion(w) PROVE TruthInv'
  <2>1. UNCHANGED <<active, happened, history, job>>
    BY <1>3 DEF CheckPromotion, registryVars, historyVars
  <2>2. pc'[w] \in {"swap", "deny"} /\ (pc'[w] = "swap" => PromotionAllowed(job[w]))
    BY <1>0, <1>3 DEF CheckPromotion, Goto
  <2>3. ASSUME PromotionAllowed(job[w]), job[w].target = "prod"
        PROVE  WasActive(job[w].name, "staging", job[w].version)
    <3>1. job[w].source = "staging"
      BY <2>3 DEF PromotionAllowed, AllowedRoutes
    <3>2. active[<<job[w].name, "staging">>] = job[w].version
      BY <2>3, <3>1 DEF PromotionAllowed
    <3>3. job[w].name \in Names /\ job[w].version \in Versions
      BY <1>0, <1>3 DEF Job, TypeInv, CallsInOrder, CheckPromotion
    <3>4. <<job[w].name, "staging">> \in Key /\ job[w].version # NoVersion
      BY <3>3, RegistryAssumption DEF Key, Channel
    <3> QED
      BY <3>2, <3>4 DEF TruthInv, ActiveHappened
  <2> QED
    BY <1>0, <1>1, <1>3, <2>1, <2>2, <2>3 DEF Step
<1>4. ASSUME NEW w \in Workers, Recall(w) PROVE TruthInv'
  <2>1. UNCHANGED <<active, happened, history>>
    BY <1>4 DEF Recall, registryVars, historyVars
  <2>2. CASE Goto(w, "deny")
    BY <1>0, <1>1, <1>4, <2>1, <2>2 DEF Step, Goto
  <2>3. ASSUME NEW v \in Predecessors(job[w]) \ {NoVersion}, Readable(history),
               job' = [job EXCEPT ![w].version = v], Goto(w, "swap")
        PROVE  TruthInv'
    <3>1. PICK i \in ActivationLines(history, job[w].name, job[w].target, job[w].previous) :
            v = history[i].record.previous
      BY <2>3 DEF Predecessors
    <3> DEFINE r == history[i].record
    <3>2. r \in happened /\ r.name = job[w].name /\ r.target = job[w].target
      BY <1>0, <2>3, <3>1 DEF ActivationLines, Readable, Records
    <3>3. WasActive(job[w].name, job[w].target, v)
      BY <2>3, <3>1, <3>2 DEF TruthInv, PreviousHappened
    <3>4. v \in Versions
      <4>1. r \in Record
        BY <3>2 DEF TypeInv, OperationsTypeOK
      <4> QED
        BY <2>3, <3>1, <4>1 DEF Record, VersionOrNone
    <3>5. job[w] \in Job
      BY <1>0
    <3>6. job'[w].name = job[w].name /\ job'[w].target = job[w].target /\ job'[w].version = v
      BY <1>0, <2>3, <3>5 DEF Job
    <3>7. job[w].target = "prod" => WasActive(job[w].name, "staging", v)
      BY <3>3, <3>4, <3>5 DEF TruthInv, ProductionWasStaged, Job
    <3>8. pc'[w] = "swap"
      BY <1>0, <2>3 DEF Goto
    <3> QED
      BY <1>0, <1>1, <1>4, <2>1, <3>6, <3>7, <3>8 DEF Step
  <2> QED
    BY <1>4, <2>2, <2>3 DEF Recall
<1>5. ASSUME NEW w \in Workers, Swap(w) PROVE TruthInv'
  <2> DEFINE j == job[w]
             k == JobKey(j)
             r == [RecordOf(j) EXCEPT !.previous = active[k]]
  <2>1. j \in Job /\ j.version \in Versions /\ k \in Key /\ k = <<j.name, j.target>>
    BY <1>0, <1>5 DEF Swap, TypeInv, CallsInOrder, Job, JobKey, Key
  <2>2. /\ active[k] = j.previous
        /\ active' = [active EXCEPT ![k] = j.version]
        /\ happened' = happened \cup {r}
        /\ UNCHANGED history
    BY <1>5 DEF Swap, CompareAndActivate
  <2>3. active \in [Key -> VersionOrNone]
    BY DEF TypeInv, OperationsTypeOK, RegistryTypeOK
  <2>4. /\ r = RecordOf(j)
        /\ r.name = j.name /\ r.target = j.target /\ r.previous = active[k]
        /\ r.version = j.version
    BY <2>2 DEF RecordOf
  <2>5. pc'[w] = "append" /\ RecordOf(job'[w]) = RecordOf(j)
    BY <1>0, <1>5, <2>1 DEF Swap, Goto, RecordOf, Job
  <2> HIDE DEF j, k, r
  <2>6. ASSUME NEW n, NEW c, NEW v, WasActive(n, c, v) PROVE WasActive(n, c, v)'
    BY <2>2, <2>6 DEF WasActive
  <2>7. ActiveHappened'
    BY <2>1, <2>2, <2>3, <2>4, <2>6 DEF TruthInv, ActiveHappened, WasActive
  <2>8. PreviousHappened'
    <3>1. active[k] # NoVersion => WasActive(r.name, r.target, r.previous)
      BY <2>1, <2>4 DEF TruthInv, ActiveHappened
    <3> QED
      BY <2>2, <2>4, <2>6, <3>1 DEF TruthInv, PreviousHappened
  <2>9. SwapsStaged'
    <3> SUFFICES ASSUME NEW u \in Workers, pc'[u] = "swap", job'[u].target = "prod"
                 PROVE  WasActive(job[u].name, "staging", job[u].version)'
      BY DEF SwapsStaged
    <3>1. u # w
      BY <2>5
    <3>2. pc'[u] = pc[u] /\ job'[u] = job[u]
      BY <1>5, <3>1, OthersUntouched DEF Step
    <3>3. WasActive(job[u].name, "staging", job[u].version)
      BY <1>0, <3>2
    <3> QED
      BY <2>2, <3>2, <3>3 DEF WasActive
  <2>10. AppendsTruthful'
    <3> SUFFICES ASSUME NEW u \in Workers, pc'[u] = "append"
                 PROVE  RecordOf(job'[u]) \in happened'
      BY DEF AppendsTruthful, RecordOf
    <3>1. CASE u = w
      BY <2>2, <2>4, <2>5, <3>1
    <3>2. CASE u # w
      <4>1. pc'[u] = pc[u] /\ job'[u] = job[u]
        BY <1>5, <3>2, OthersUntouched DEF Step
      <4> QED
        BY <1>0, <2>2, <4>1
    <3> QED
      BY <3>1, <3>2
  <2>11. HistoryTruthful'
    BY <1>0, <2>2 DEF HistoryTruthful, Records
  <2>12. ProductionWasStaged'
    <3>1. j.target = "prod" => WasActive(j.name, "staging", j.version)
      BY <1>0, <1>5 DEF Swap, j
    <3> SUFFICES ASSUME NEW n \in Names, NEW v \in Versions, WasActive(n, "prod", v)'
                 PROVE  WasActive(n, "staging", v)'
      BY DEF ProductionWasStaged
    <3>2. CASE WasActive(n, "prod", v)
      BY <2>6, <3>2 DEF TruthInv, ProductionWasStaged
    <3>3. CASE r.name = n /\ r.target = "prod" /\ r.version = v
      BY <2>4, <2>6, <3>1, <3>3
    <3> QED
      BY <2>2, <3>2, <3>3 DEF WasActive
  <2> QED
    BY <2>7, <2>8, <2>9, <2>10, <2>11, <2>12 DEF TruthInv
<1>6. ASSUME NEW w \in Workers, Observe(w) \/ SwapRefused(w) PROVE TruthInv'
  <2>1. UNCHANGED <<active, happened, history>> /\ pc'[w] \in {"recall", "deny"}
    BY <1>0, <1>6 DEF Observe, SwapRefused, Goto, registryVars, historyVars
  <2> QED
    BY <1>0, <1>1, <1>6, <2>1 DEF Step
<1>7. ASSUME NEW w \in Workers, AppendRecord(w) \/ AppendFails(w) PROVE TruthInv'
  <2>1. UNCHANGED <<active, happened>> /\ pc'[w] \in {"allow", "failed"} /\ pc[w] = "append"
    BY <1>0, <1>7 DEF AppendRecord, AppendFails, Goto, registryVars, historyVars
  <2>2. PICK part \in Part : history' = Written(history, RecordOf(job[w]), part)
    BY <1>7 DEF AppendRecord, AppendFails, Part
  <2>3. RecordOf(job[w]) \in Record /\ history \in Seq(Line)
    BY <1>0, <2>1, RecordsAreRecords DEF TypeInv, OperationsTypeOK, CallsInOrder
  <2>4. Records(history') \subseteq happened
    BY <1>0, <2>1, <2>2, <2>3, WrittenFacts
  <2> QED
    BY <1>1, <1>7, <2>1, <2>4 DEF Step
<1>8. ASSUME NEW w \in Workers, RecordDenial(w) \/ RecordAllow(w) \/ AuditRejects(w)
      PROVE  TruthInv'
  <2>1. UNCHANGED <<active, happened, history>> /\ pc'[w] = "idle"
    BY <1>0, <1>8 DEF RecordDenial, RecordAllow, AuditRejects, Finish, Goto,
                      registryVars, historyVars
  <2> QED
    BY <1>0, <1>1, <1>8, <2>1 DEF Step
<1>9. ASSUME Restart PROVE TruthInv'
  <2>1. /\ UNCHANGED happened
        /\ \A k \in Key : active'[k] = NoVersion
        /\ \A u \in Workers : pc'[u] = "idle"
    BY <1>9 DEF Restart
  <2>2. Records(history') \subseteq happened
    <3>1. ASSUME NEW w \in Workers, NEW part \in Part, pc[w] = "append",
                 history' = Written(history, RecordOf(job[w]), part)
          PROVE  Records(history') \subseteq happened
      <4>1. RecordOf(job[w]) \in Record /\ history \in Seq(Line)
        BY <1>0, <3>1, RecordsAreRecords DEF TypeInv, OperationsTypeOK, CallsInOrder
      <4> QED
        BY <1>0, <3>1, <4>1, WrittenFacts
    <3> QED
      BY <1>0, <1>9, <3>1 DEF Restart
  <2> QED
    BY <2>1, <2>2, QuietStep
<1>10. CASE UNCHANGED vars
  BY <1>0, <1>10, QuietStep DEF vars, registryVars, historyVars
<1> QED
  BY <1>2, <1>3, <1>4, <1>5, <1>6, <1>7, <1>8, <1>9, <1>10 DEF Next, Step

\* The file never holds a record of an activation that did not happen.
THEOREM HistoryIsTruthful == Spec => []HistoryTruthful
<1>1. TruthInv => HistoryTruthful
  BY DEF TruthInv
<1> QED
  BY InitTypeInv, NextTypeInv, InitTruthInv, NextTruthInv, <1>1, PTL DEF Spec

\* Production only ever receives a version that was active in staging.
THEOREM ProductionIsStaged == Spec => []ProductionWasStaged
<1>1. TruthInv => ProductionWasStaged
  BY DEF TruthInv
<1> QED
  BY InitTypeInv, NextTypeInv, InitTruthInv, NextTruthInv, <1>1, PTL DEF Spec
-----------------------------------------------------------------------------
(***************************************************************************)
(* Incident keys.  A key is remembered in the step that begins its call,   *)
(* so no second call of it begins, and a call activates once.              *)
(***************************************************************************)

KeyInv == KeysUsedOnce /\ OneRollbackPerIncident

\* No key has been used initially.
LEMMA InitKeyInv == Init => KeyInv
<1> SUFFICES ASSUME Init PROVE KeyInv
  OBVIOUS
<1>1. \A w \in Workers : job[w].key = NoKey
  BY NoJobIsJob DEF Init, Started
<1>2. \A k \in IncidentKeys : rollbacks[k] = 0
  BY DEF Init, Started
<1> QED
  BY <1>1, <1>2, OperationsAssumption DEF KeyInv, KeysUsedOnce, OneRollbackPerIncident

\* Every step keeps the keys used once.
LEMMA NextKeyInv == TypeInv /\ KeyInv /\ [Next]_vars => KeyInv'
<1> SUFFICES ASSUME TypeInv, KeyInv, [Next]_vars PROVE KeyInv'
  OBVIOUS
<1>0. /\ pc \in [Workers -> PCs] /\ job \in [Workers -> Job]
      /\ rollbacks \in [IncidentKeys -> Nat]
  BY DEF TypeInv, OperationsTypeOK
<1> USE DEF KeyInv, KeysUsedOnce, OneRollbackPerIncident
\* A step of a call that keeps or drops its key, and goes back to no earlier stage.
<1>1. ASSUME NEW w \in Workers, Step(w), UNCHANGED <<handled, rollbacks>>,
             job'[w].key \in {job[w].key, NoKey},
             pc'[w] \in Uncommitted => pc[w] \in Uncommitted
      PROVE  KeyInv'
  <2>1. ASSUME NEW u \in Workers
        PROVE  /\ job'[u].key \in {job[u].key, NoKey}
               /\ pc'[u] \in Uncommitted => pc[u] \in Uncommitted
    <3>1. CASE u = w
      BY <1>1, <3>1
    <3>2. CASE u # w
      BY <1>1, <3>2, OthersUntouched
    <3> QED
      BY <3>1, <3>2
  <2> QED
    BY <1>1, <2>1, OperationsAssumption
<1>2. ASSUME NEW w \in Workers, NEW n \in Names, NEW v \in Versions, NEW route \in Routes,
             Promote(w, n, v, route)
      PROVE  KeyInv'
  <2>1. job'[w].key = NoKey /\ UNCHANGED <<handled, rollbacks>>
    BY <1>0, <1>2 DEF Promote, Begin, historyVars
  <2>2. \A u \in Workers : u # w => pc'[u] = pc[u] /\ job'[u] = job[u]
    BY <1>0, <1>2 DEF Promote, Begin, Goto
  <2> QED
    BY <2>1, <2>2, OperationsAssumption
<1>3. ASSUME NEW w \in Workers, NEW n \in Names, NEW c \in Targets, NEW bad \in Versions,
             Rollback(w, n, c, bad)
      PROVE  KeyInv'
  <2>1. job'[w].key = NoKey /\ UNCHANGED <<handled, rollbacks>>
    BY <1>0, <1>3 DEF Rollback, Begin, historyVars
  <2>2. \A u \in Workers : u # w => pc'[u] = pc[u] /\ job'[u] = job[u]
    BY <1>0, <1>3 DEF Rollback, Begin, Goto
  <2> QED
    BY <2>1, <2>2, OperationsAssumption
<1>4. ASSUME NEW w \in Workers, NEW n \in Names, NEW c \in Targets, NEW bad \in Versions,
             NEW key \in IncidentKeys, HandleIncident(w, key, n, c, bad)
      PROVE  KeyInv'
  <2>1. /\ job'[w].key = key
        /\ key \notin handled
        /\ handled' = handled \cup {key}
        /\ UNCHANGED rollbacks
    BY <1>0, <1>4 DEF HandleIncident, Begin, historyVars
  <2>2. \A u \in Workers : u # w => pc'[u] = pc[u] /\ job'[u] = job[u]
    BY <1>0, <1>4 DEF HandleIncident, Begin, Goto
  <2>3. \A u \in Workers : job[u].key # key
    BY <2>1, OperationsAssumption
  <2>4. rollbacks[key] = 0
    BY <2>1
  <2> QED
    BY <2>1, <2>2, <2>3, <2>4, OperationsAssumption
<1>5. ASSUME NEW w \in Workers,
             CheckPromotion(w) \/ Observe(w) \/ SwapRefused(w) \/ AppendRecord(w) \/ AppendFails(w)
      PROVE  KeyInv'
  <2>1. UNCHANGED <<handled, rollbacks, job>>
    BY <1>5 DEF CheckPromotion, Observe, SwapRefused, AppendRecord, AppendFails, historyVars
  <2>2. pc'[w] \in Uncommitted => pc[w] \in Uncommitted
    BY <1>0, <1>5 DEF CheckPromotion, Observe, SwapRefused, AppendRecord, AppendFails, Goto,
                      Uncommitted
  <2> QED
    BY <1>1, <1>5, <2>1, <2>2 DEF Step
<1>6. ASSUME NEW w \in Workers, Recall(w) PROVE KeyInv'
  <2>1. UNCHANGED <<handled, rollbacks>> /\ pc[w] \in Uncommitted
    BY <1>6 DEF Recall, historyVars, Uncommitted
  <2>2. job'[w].key = job[w].key
    BY <1>0, <1>6 DEF Recall, Job
  <2> QED
    BY <1>1, <1>6, <2>1, <2>2 DEF Step
<1>7. ASSUME NEW w \in Workers, Swap(w) PROVE KeyInv'
  <2>1. /\ UNCHANGED handled
        /\ pc[w] = "swap" /\ pc'[w] = "append"
        /\ job'[w].key = job[w].key
        /\ rollbacks' = [k \in IncidentKeys |-> IF k = job[w].key THEN rollbacks[k] + 1
                                                ELSE rollbacks[k]]
    BY <1>0, <1>7 DEF Swap, Goto, Job
  <2>2. \A u \in Workers : u # w => pc'[u] = pc[u] /\ job'[u] = job[u]
    BY <1>7, OthersUntouched DEF Step
  <2>3. \A k \in IncidentKeys : k = job[w].key => rollbacks[k] = 0
    BY <2>1 DEF Uncommitted
  <2>4. \A k \in IncidentKeys : k # job[w].key => rollbacks'[k] = rollbacks[k]
    BY <2>1
  <2>5. \A k \in IncidentKeys : k = job[w].key => rollbacks'[k] = 1
    BY <1>0, <2>1, <2>3
  <2>6. "append" \notin Uncommitted
    BY DEF Uncommitted
  <2>7. OneRollbackPerIncident'
    BY <2>4, <2>5
  <2>8. \A u, x \in Workers : u # x /\ job'[u].key # NoKey => job'[u].key # job'[x].key
    BY <2>1, <2>2
  <2>9. \A u \in Workers, k \in IncidentKeys :
          job'[u].key = k /\ pc'[u] \in Uncommitted => rollbacks'[k] = 0
    <3> SUFFICES ASSUME NEW u \in Workers, NEW k \in IncidentKeys,
                        job'[u].key = k, pc'[u] \in Uncommitted
                 PROVE  rollbacks'[k] = 0
      OBVIOUS
    <3>1. u # w
      BY <2>1, <2>6
    <3>2. job[u].key = k /\ pc[u] \in Uncommitted /\ k # NoKey
      BY <2>2, <3>1, OperationsAssumption
    <3>3. k # job[w].key
      BY <3>1, <3>2
    <3> QED
      BY <2>4, <3>2, <3>3
  <2>10. \A k \in IncidentKeys : k \notin handled => rollbacks'[k] = 0
    BY <2>1, <2>4, OperationsAssumption
  <2>11. \A u \in Workers : job'[u].key # NoKey => job'[u].key \in handled
    BY <2>1, <2>2
  <2> QED
    BY <2>1, <2>7, <2>8, <2>9, <2>10, <2>11 DEF Uncommitted
<1>8. ASSUME NEW w \in Workers, RecordDenial(w) \/ RecordAllow(w) \/ AuditRejects(w)
      PROVE  KeyInv'
  <2>1. UNCHANGED <<handled, rollbacks>> /\ Finish(w)
    BY <1>8 DEF RecordDenial, RecordAllow, AuditRejects, historyVars
  <2>2. job'[w].key = NoKey /\ pc'[w] = "idle"
    BY <1>0, <2>1, NoJobIsJob DEF Finish, Goto
  <2> QED
    BY <1>1, <1>8, <2>1, <2>2 DEF Step, Uncommitted
<1>9. ASSUME Restart PROVE KeyInv'
  <2>1. /\ \A w \in Workers : job'[w].key = NoKey
        /\ \A k \in IncidentKeys : rollbacks'[k] = 0
    BY <1>9, NoJobIsJob DEF Restart
  <2> QED
    BY <2>1, OperationsAssumption
<1>10. CASE UNCHANGED vars
  BY <1>10 DEF vars, historyVars
<1> QED
  BY <1>2, <1>3, <1>4, <1>5, <1>6, <1>7, <1>8, <1>9, <1>10 DEF Next, Call, Step

\* A process applies at most one rollback for an incident key.
THEOREM IncidentsRollBackOnce == Spec => []OneRollbackPerIncident
<1>1. KeyInv => OneRollbackPerIncident
  BY DEF KeyInv
<1> QED
  BY InitTypeInv, NextTypeInv, InitKeyInv, NextKeyInv, <1>1, PTL DEF Spec
-----------------------------------------------------------------------------
(***************************************************************************)
(* Evidence.  A call carries the generation of its activation until its    *)
(* event takes it over; a call that says ALLOW appended its record before, *)
(* and an append only loses a record by making the file unreadable.        *)
(***************************************************************************)

EvidenceInv == AllowsRecorded /\ AllowedIsRecorded /\ ChangeLeavesEvidence

\* The two kinds of evidence that outlast the call of an activation.
InStore(g) == \E e \in audit : e.generation = g

RefusedButRecorded(g) ==
    \E e \in rejected :
        /\ e.generation = g
        /\ e.decision = "ALLOW" /\ Readable(history) => e.record \in Records(history)

\* Nothing has been activated or reported initially.
LEMMA InitEvidenceInv == Init => EvidenceInv
  BY DEF Init, Started, RegistryInit, EvidenceInv, AllowsRecorded, AllowedIsRecorded,
         ChangeLeavesEvidence

\* A step of a call that activates nothing and neither ends nor touches the file.
LEMMA ProgressStep ==
    ASSUME TypeInv, EvidenceInv, NEW w \in Workers, Call(w) \/ Step(w),
           UNCHANGED <<generation, history, audit, rejected>>, pc'[w] \notin {"idle", "allow"},
           job'[w].generation = job[w].generation
    PROVE  EvidenceInv'
<1>1. \A u \in Workers : u # w => pc'[u] = pc[u] /\ job'[u] = job[u]
  BY OthersUntouched
<1>2. AllowsRecorded' /\ AllowedIsRecorded'
  BY <1>1 DEF EvidenceInv, AllowsRecorded, AllowedIsRecorded, Readable, Records, RecordOf
<1>3. ChangeLeavesEvidence'
  <2> SUFFICES ASSUME NEW g \in 1 .. generation, ~InStore(g), ~RefusedButRecorded(g)
               PROVE  \E u \in Workers : pc'[u] # "idle" /\ job'[u].generation = g
    BY DEF ChangeLeavesEvidence, InStore, RefusedButRecorded, Readable, Records
  <2>1. PICK u \in Workers : pc[u] # "idle" /\ job[u].generation = g
    BY DEF EvidenceInv, ChangeLeavesEvidence, InStore, RefusedButRecorded
  <2> QED
    BY <1>1, <2>1
<1> QED
  BY <1>2, <1>3 DEF EvidenceInv

\* A step that appends, or tries to.
LEMMA AppendStep ==
    ASSUME TypeInv, EvidenceInv, NEW w \in Workers, AppendRecord(w) \/ AppendFails(w)
    PROVE  EvidenceInv'
<1>0. pc \in [Workers -> PCs] /\ job \in [Workers -> Job] /\ history \in Seq(Line)
  BY DEF TypeInv, OperationsTypeOK
<1>1. /\ pc[w] = "append" /\ pc'[w] \in {"allow", "failed"}
      /\ UNCHANGED <<generation, audit, job, rejected>>
  BY <1>0 DEF AppendRecord, AppendFails, Goto, registryVars, historyVars
<1>2. PICK part \in Part :
        /\ history' = Written(history, RecordOf(job[w]), part)
        /\ pc'[w] = "allow" => part = "all"
  BY <1>0 DEF AppendRecord, AppendFails, Part, Goto
<1>3. RecordOf(job[w]) \in Record
  BY <1>0, <1>1, RecordsAreRecords DEF TypeInv, CallsInOrder
<1>4. Readable(history') =>
        /\ Readable(history)
        /\ Records(history) \subseteq Records(history')
        /\ part = "all" => RecordOf(job[w]) \in Records(history')
  BY <1>0, <1>2, <1>3, WrittenFacts
<1>5. \A u \in Workers : u # w => pc'[u] = pc[u]
  BY OthersUntouched DEF Step
<1>6. AllowsRecorded'
  <2> SUFFICES ASSUME NEW u \in Workers, pc'[u] = "allow", Readable(history')
               PROVE  RecordOf(job[u]) \in Records(history')
    BY <1>1 DEF AllowsRecorded, RecordOf, Readable, Records
  <2>1. CASE u = w
    BY <1>2, <1>4, <2>1
  <2>2. CASE u # w
    BY <1>4, <1>5, <2>2 DEF EvidenceInv, AllowsRecorded
  <2> QED
    BY <2>1, <2>2
<1>7. AllowedIsRecorded'
  <2> SUFFICES ASSUME Readable(history'), NEW e \in audit, e.decision = "ALLOW"
               PROVE  e.record \in Records(history')
    BY <1>1 DEF AllowedIsRecorded, Readable, Records
  <2> QED
    BY <1>4 DEF EvidenceInv, AllowedIsRecorded
<1>8. ChangeLeavesEvidence'
  <2> SUFFICES ASSUME NEW g \in 1 .. generation
               PROVE  \/ \E u \in Workers : pc'[u] # "idle" /\ job'[u].generation = g
                      \/ InStore(g)'
                      \/ RefusedButRecorded(g)'
    BY <1>1 DEF ChangeLeavesEvidence, InStore, RefusedButRecorded
  <2>1. \/ \E u \in Workers : pc[u] # "idle" /\ job[u].generation = g
        \/ InStore(g)
        \/ RefusedButRecorded(g)
    BY DEF EvidenceInv, ChangeLeavesEvidence, InStore, RefusedButRecorded
  <2>2. \A u \in Workers : pc[u] # "idle" => pc'[u] # "idle"
    BY <1>1, <1>5
  \* What was in the file is still there, if the file can still be read.
  <2>3. RefusedButRecorded(g) => RefusedButRecorded(g)'
    BY <1>1, <1>4 DEF RefusedButRecorded
  <2>4. InStore(g) => InStore(g)'
    BY <1>1 DEF InStore
  <2> QED
    BY <1>1, <2>1, <2>2, <2>3, <2>4
<1> QED
  BY <1>6, <1>7, <1>8 DEF EvidenceInv

\* A step that ends a call.
LEMMA LastStep ==
    ASSUME TypeInv, EvidenceInv, NEW w \in Workers,
           RecordDenial(w) \/ RecordAllow(w) \/ AuditRejects(w)
    PROVE  EvidenceInv'
<1>0. pc \in [Workers -> PCs] /\ job \in [Workers -> Job]
  BY DEF TypeInv, OperationsTypeOK
<1>1. UNCHANGED <<generation, history>> /\ Finish(w)
  BY DEF RecordDenial, RecordAllow, AuditRejects, registryVars, historyVars
<1>2. pc'[w] = "idle" /\ \A u \in Workers : u # w => pc'[u] = pc[u] /\ job'[u] = job[u]
  BY <1>0, <1>1 DEF Finish, Goto
<1>3. AllowsRecorded'
  BY <1>1, <1>2 DEF EvidenceInv, AllowsRecorded, RecordOf, Readable, Records
<1>4. AllowedIsRecorded'
  <2> SUFFICES ASSUME Readable(history), NEW e \in audit', e.decision = "ALLOW"
               PROVE  e.record \in Records(history)
    BY <1>1 DEF AllowedIsRecorded, Readable, Records
  <2>1. CASE e \in audit
    BY <2>1 DEF EvidenceInv, AllowedIsRecorded
  <2>2. CASE e \notin audit
    <3>1. RecordAllow(w) /\ e = EventOf(job[w], "ALLOW")
      BY <2>2 DEF RecordDenial, RecordAllow, AuditRejects, Recorded, EventOf
    <3>2. job[w].generation # 0 => e.record = RecordOf(job[w])
      BY <3>1 DEF EventOf
    <3>3. job[w].generation # 0
      BY <3>1 DEF RecordAllow, CallsInOrder, TypeInv
    <3> QED
      BY <3>1, <3>2, <3>3 DEF RecordAllow, EvidenceInv, AllowsRecorded
  <2> QED
    BY <2>1, <2>2
<1>5. ChangeLeavesEvidence'
  <2> SUFFICES ASSUME NEW g \in 1 .. generation
               PROVE  \/ \E u \in Workers : pc'[u] # "idle" /\ job'[u].generation = g
                      \/ InStore(g)'
                      \/ RefusedButRecorded(g)'
    BY <1>1 DEF ChangeLeavesEvidence, InStore, RefusedButRecorded
  <2>1. audit \subseteq audit' /\ rejected \subseteq rejected'
    BY DEF RecordDenial, RecordAllow, AuditRejects, Recorded, historyVars
  <2>2. CASE job[w].generation = g
    <3>1. CASE AuditRejects(w)
      <4> DEFINE d == IF pc[w] = "allow" THEN "ALLOW" ELSE "DENY"
                 e == EventOf(job[w], d)
      <4>1. g # 0
        OBVIOUS
      <4>2. e \in rejected'
        BY <2>2, <3>1, <4>1 DEF AuditRejects
      <4>3. e.generation = g /\ e.decision = d /\ e.record = RecordOf(job[w])
        BY <2>2, <4>1 DEF EventOf
      \* A call that was about to say ALLOW has its record in the file.
      <4>4. d = "ALLOW" /\ Readable(history) => RecordOf(job[w]) \in Records(history)
        BY DEF EvidenceInv, AllowsRecorded
      <4> HIDE DEF d, e
      <4> QED
        BY <1>1, <4>2, <4>3, <4>4 DEF RefusedButRecorded, Readable, Records
    <3>2. CASE RecordDenial(w) \/ RecordAllow(w)
      <4>1. PICK d \in {"ALLOW", "DENY"} : audit' = Recorded(job[w], d)
        BY <3>2 DEF RecordDenial, RecordAllow
      <4>2. EventOf(job[w], d) \in audit'
        BY <4>1 DEF Recorded
      <4>3. EventOf(job[w], d).generation = job[w].generation
        BY DEF EventOf
      <4> QED
        BY <2>2, <4>2, <4>3 DEF InStore
    <3> QED
      BY <3>1, <3>2
  <2>3. CASE job[w].generation # g
    <3>1. InStore(g) => InStore(g)'
      BY <2>1 DEF InStore
    <3>2. RefusedButRecorded(g) => RefusedButRecorded(g)'
      BY <1>1, <2>1 DEF RefusedButRecorded, Readable, Records
    <3> QED
      BY <1>2, <2>3, <3>1, <3>2
      DEF EvidenceInv, ChangeLeavesEvidence, InStore, RefusedButRecorded
  <2> QED
    BY <2>2, <2>3
<1> QED
  BY <1>3, <1>4, <1>5 DEF EvidenceInv

\* Every step keeps the evidence.
LEMMA NextEvidenceInv == TypeInv /\ EvidenceInv /\ [Next]_vars => EvidenceInv'
<1> SUFFICES ASSUME TypeInv, EvidenceInv, [Next]_vars PROVE EvidenceInv'
  OBVIOUS
<1>0. /\ pc \in [Workers -> PCs] /\ job \in [Workers -> Job] /\ generation \in Nat
  BY DEF TypeInv, OperationsTypeOK, RegistryTypeOK
<1>1. ASSUME NEW w \in Workers, Call(w) PROVE EvidenceInv'
  <2>1. /\ UNCHANGED <<generation, history, audit, rejected>>
        /\ pc[w] = "idle" /\ pc'[w] \in {"check", "observe"}
        /\ job'[w].generation = 0
    <3>1. CASE \E n \in Names, v \in Versions, route \in Routes : Promote(w, n, v, route)
      BY <1>0, <3>1 DEF Promote, Begin, Goto, registryVars, historyVars
    <3>2. CASE \E n \in Names, c \in Targets, bad \in Versions : Rollback(w, n, c, bad)
      BY <1>0, <3>2 DEF Rollback, Begin, Goto, registryVars, historyVars
    <3>3. CASE \E n \in Names, c \in Targets, bad \in Versions, key \in IncidentKeys :
                 HandleIncident(w, key, n, c, bad)
      BY <1>0, <3>3 DEF HandleIncident, Begin, Goto, registryVars, historyVars
    <3> QED
      BY <1>1, <3>1, <3>2, <3>3 DEF Call
  <2>2. job[w].generation = 0
    BY <2>1 DEF TypeInv, CallsInOrder
  <2> QED
    BY <1>1, <2>1, <2>2, ProgressStep
<1>2. ASSUME NEW w \in Workers, CheckPromotion(w) \/ Observe(w) \/ SwapRefused(w)
      PROVE  EvidenceInv'
  <2>1. /\ UNCHANGED <<generation, history, audit, rejected, job>>
        /\ pc'[w] \notin {"idle", "allow"}
    BY <1>0, <1>2 DEF CheckPromotion, Observe, SwapRefused, Goto, registryVars, historyVars
  <2> QED
    BY <1>2, <2>1, ProgressStep DEF Step
<1>3. ASSUME NEW w \in Workers, Recall(w) PROVE EvidenceInv'
  <2>1. /\ UNCHANGED <<generation, history, audit, rejected>>
        /\ pc'[w] \notin {"idle", "allow"}
        /\ job'[w].generation = job[w].generation
    BY <1>0, <1>3 DEF Recall, Goto, registryVars, historyVars, Job
  <2> QED
    BY <1>3, <2>1, ProgressStep DEF Step
<1>4. ASSUME NEW w \in Workers, Swap(w) PROVE EvidenceInv'
  <2>1. /\ UNCHANGED <<history, audit, rejected>>
        /\ generation' = generation + 1
        /\ pc[w] = "swap" /\ pc'[w] = "append"
        /\ job'[w].generation = generation'
    BY <1>0, <1>4 DEF Swap, CompareAndActivate, Goto, Job
  <2>2. \A u \in Workers : u # w => pc'[u] = pc[u] /\ job'[u] = job[u]
    BY <1>4, OthersUntouched DEF Step
  <2>3. job[w].generation = 0
    BY <2>1 DEF TypeInv, CallsInOrder, Uncommitted
  <2>4. AllowsRecorded' /\ AllowedIsRecorded'
    BY <2>1, <2>2 DEF EvidenceInv, AllowsRecorded, AllowedIsRecorded, Readable, Records, RecordOf
  <2>5. ChangeLeavesEvidence'
    <3> SUFFICES ASSUME NEW g \in 1 .. generation', ~InStore(g), ~RefusedButRecorded(g)
                 PROVE  \E u \in Workers : pc'[u] # "idle" /\ job'[u].generation = g
      BY <2>1 DEF ChangeLeavesEvidence, InStore, RefusedButRecorded, Readable, Records
    <3>1. CASE g = generation'
      BY <2>1, <3>1
    <3>2. CASE g # generation'
      <4>1. g \in 1 .. generation
        BY <1>0, <2>1, <3>2
      <4>2. PICK u \in Workers : pc[u] # "idle" /\ job[u].generation = g
        BY <4>1 DEF EvidenceInv, ChangeLeavesEvidence, InStore, RefusedButRecorded
      <4> QED
        BY <2>2, <2>3, <4>1, <4>2
    <3> QED
      BY <3>1, <3>2
  <2> QED
    BY <2>4, <2>5 DEF EvidenceInv
<1>5. ASSUME Restart PROVE EvidenceInv'
  <2>1. audit' = {} /\ generation' = 0 /\ \A u \in Workers : pc'[u] = "idle"
    BY <1>5 DEF Restart
  <2> QED
    BY <2>1 DEF EvidenceInv, AllowsRecorded, AllowedIsRecorded, ChangeLeavesEvidence
<1>6. CASE UNCHANGED vars
  BY <1>6 DEF vars, registryVars, historyVars, EvidenceInv, AllowsRecorded, AllowedIsRecorded,
              ChangeLeavesEvidence, Readable, Records, RecordOf
<1> QED
  BY <1>1, <1>2, <1>3, <1>4, <1>5, <1>6, AppendStep, LastStep DEF Next, Step

\* While the file can be read, what an ALLOW event says was activated is in it.
THEOREM AllowsAreRecorded == Spec => []AllowedIsRecorded
<1>1. EvidenceInv => AllowedIsRecorded
  BY DEF EvidenceInv
<1> QED
  BY InitTypeInv, NextTypeInv, InitEvidenceInv, NextEvidenceInv, <1>1, PTL DEF Spec

\* Every activation of a process has its event, or a call still to write it, or
\* at least its record in a file that can be read, if only the event was refused.
THEOREM ChangesLeaveEvidence == Spec => []ChangeLeavesEvidence
<1>1. EvidenceInv => ChangeLeavesEvidence
  BY DEF EvidenceInv
<1> QED
  BY InitTypeInv, NextTypeInv, InitEvidenceInv, NextEvidenceInv, <1>1, PTL DEF Spec
=============================================================================
