-------------------------- MODULE PolicyOperations --------------------------
(***************************************************************************)
(* Promotion, rollback and incident handling over one activation registry  *)
(* and one history file (python/governance/operations.py).                 *)
(*                                                                         *)
(* Workers are threads of one process.  Each runs one call at a time of    *)
(* PolicyPromotionPipeline.promote, RollbackController.rollback or         *)
(* PolicyIncidentAdapter.handle.  The calls hold no lock of their own:     *)
(* they are chains of steps that each hold the registry's, the history's   *)
(* or the adapter's lock, and the chains of two workers interleave.        *)
(*                                                                         *)
(* An append to the history file may fail before or after any of its bytes *)
(* is in the file, and the process may die between any two steps: the file *)
(* is all that the next process finds.                                     *)
(***************************************************************************)
EXTENDS ActivationRegistry, Sequences

CONSTANTS
    Workers,
    IncidentKeys,
    NoKey,            \* of a rollback that no incident asked for
    Corrupt,          \* a line of the file that is not one JSON object
    Routes,           \* bound: the <<source, target>> pairs promote is called with
    Targets,          \* bound: the channels rollback is called for
    MaxAttempts,      \* bound: calls begun
    MaxFailures,      \* bound: appends, to file or audit store, that raise
    MaxRestarts       \* bound: times the process dies

\* ActivationRecord.  Source channel, correlation id and timestamp are never
\* read again, so they are left out.
Record == [name : Names, target : Channel, previous : VersionOrNone, version : Versions]

ASSUME OperationsAssumption ==
    /\ Names # {}
    /\ NoKey \notin IncidentKeys
    /\ Corrupt \notin Record
    /\ Routes \subseteq Channel \X Channel
    /\ Targets \subseteq Channel
    /\ {MaxAttempts, MaxFailures, MaxRestarts} \subseteq Nat

VARIABLES
    history,    \* the file, line by line
    handled,    \* _handled of the incident adapter
    audit,      \* the audit store, as far as these calls write it
    pc,         \* where each worker's call stands
    job,        \* what the call is about: its arguments and locals
    attempts,   \* calls begun
    failures,   \* appends, to the file or the audit store, that have raised
    restarts,   \* times the process died
    happened,   \* history variable: every activation ever made, as the record
                \* that describes it truthfully
    rejected,   \* history variable: the events of this process's activations
                \* that the audit store refused
    rollbacks   \* history variable: activations of this process per incident

registryVars == <<active, generation>>
countVars == <<attempts, failures, restarts>>
historyVars == <<happened, rejected, rollbacks>>
vars == <<registryVars, history, handled, audit, pc, job, countVars, historyVars>>

-----------------------------------------------------------------------------
(***************************************************************************)
(* The history file.                                                       *)
(***************************************************************************)

\* A line is closed when its newline is in the file: the next append then
\* starts a line of its own.
Line == [record : Record \cup {Corrupt}, closed : BOOLEAN]

\* How much of a record and its newline is in the file when the write loop ends:
\* none of it, some of the JSON, all of it but the newline, everything.
Part == {"nothing", "some", "unclosed", "all"}

LastOpen(h) == h # <<>> /\ ~h[Len(h)].closed

\* The file after that much of r has been appended to it.  What follows an open
\* line becomes part of it, and two JSON texts on a line do not parse.
Written(h, r, part) ==
    IF part = "nothing" THEN h
    ELSE IF LastOpen(h)
         THEN [h EXCEPT ![Len(h)] = [record |-> Corrupt, closed |-> part = "all"]]
         ELSE Append(h, [record |-> IF part = "some" THEN Corrupt ELSE r,
                         closed |-> part = "all"])

\* records_for parses every line, whatever rule set it is about, and raises at
\* the first that does not parse.
Readable(h) == \A i \in DOMAIN h : h[i].record # Corrupt

\* records_for and the filter of rollback: the lines that activated v.
ActivationLines(h, n, c, v) ==
    {i \in DOMAIN h : /\ h[i].record.name = n
                      /\ h[i].record.target = c
                      /\ h[i].record.version = v}

-----------------------------------------------------------------------------
(***************************************************************************)
(* Calls.                                                                  *)
(***************************************************************************)

\* generation: what compare_and_activate returned, zero before.
\* version: what the call activates.  previous: what it expects to replace, and
\* in a rollback the version reported bad.
Job == [op : {"promote", "rollback"}, name : Names, source : Channel,
        target : Channel, previous : VersionOrNone, version : VersionOrNone,
        key : IncidentKeys \cup {NoKey}, generation : Nat]

PCs == {"idle", "check", "observe", "recall", "swap", "append", "allow", "deny", "failed"}

\* The audit event, with the generation its call activated (zero: none) and, if
\* it did, the record of that.  The order of events is AuditStore's business.
Event == [op : {"promote", "rollback"}, decision : {"ALLOW", "DENY"},
          generation : Nat, record : Record \cup {Corrupt}]

JobKey(j) == <<j.name, j.target>>

\* Mutant: the versions in the wrong fields.
RecordSwapped(j) == [name |-> j.name, target |-> j.target,
                     previous |-> j.version, version |-> j.previous]

RecordOf(j) == [name |-> j.name, target |-> j.target,
                previous |-> j.previous, version |-> j.version]

AllowedRoutes == {<<"dev", "staging">>, <<"staging", "prod">>}

OperationsTypeOK ==
    /\ RegistryTypeOK
    /\ history \in Seq(Line)
    /\ handled \subseteq IncidentKeys
    /\ audit \subseteq Event
    /\ pc \in [Workers -> PCs]
    /\ job \in [Workers -> Job]
    /\ attempts \in Nat /\ failures \in Nat /\ restarts \in Nat
    /\ happened \subseteq Record
    /\ rejected \subseteq Event
    /\ rollbacks \in [IncidentKeys -> Nat]

NoJob == [op |-> "promote", name |-> CHOOSE n \in Names : TRUE, source |-> "dev",
          target |-> "dev", previous |-> NoVersion, version |-> NoVersion,
          key |-> NoKey, generation |-> 0]

\* What a process starts with; the file is whatever the last one left.
Started ==
    /\ RegistryInit
    /\ handled = {}
    /\ audit = {}
    /\ pc = [w \in Workers |-> "idle"]
    /\ job = [w \in Workers |-> NoJob]
    /\ rejected = {}
    /\ rollbacks = [k \in IncidentKeys |-> 0]

Init ==
    /\ Started
    /\ history = <<>>
    /\ attempts = 0
    /\ failures = 0
    /\ restarts = 0
    /\ happened = {}

Goto(w, label) == pc' = [pc EXCEPT ![w] = label]

Begin(w, label, j) ==
    /\ pc[w] = "idle"
    /\ attempts < MaxAttempts
    /\ attempts' = attempts + 1
    /\ job' = [job EXCEPT ![w] = j]
    /\ Goto(w, label)
    /\ UNCHANGED <<registryVars, history, audit, failures, restarts, historyVars>>

\* promote: previous = self._registry.active_version(name, target)
Promote(w, n, v, route) ==
    /\ Begin(w, "check",
             [op |-> "promote", name |-> n, source |-> route[1], target |-> route[2],
              previous |-> active[<<n, route[2]>>], version |-> v, key |-> NoKey, generation |-> 0])
    /\ UNCHANGED handled

\* rollback, called directly.
Rollback(w, n, c, bad) ==
    /\ Begin(w, "observe",
             [op |-> "rollback", name |-> n, source |-> c, target |-> c,
              previous |-> bad, version |-> NoVersion, key |-> NoKey, generation |-> 0])
    /\ UNCHANGED handled

\* Mutant: the key is remembered and never looked up.
HandleEveryTime(w, key, n, c, bad) ==
    /\ Begin(w, "observe",
             [op |-> "rollback", name |-> n, source |-> c, target |-> c,
              previous |-> bad, version |-> NoVersion, key |-> key, generation |-> 0])
    /\ handled' = handled \cup {key}

\* handle: under the adapter's lock the key is looked up and remembered, then
\* rollback is called without it.  A known key returns "duplicate_ignored" and
\* changes nothing.
HandleIncident(w, key, n, c, bad) ==
    /\ key \notin handled
    /\ Begin(w, "observe",
             [op |-> "rollback", name |-> n, source |-> c, target |-> c,
              previous |-> bad, version |-> NoVersion, key |-> key, generation |-> 0])
    /\ handled' = handled \cup {key}

\* Mutant: production takes any registered version.
PromotionUnstaged(j) ==
    /\ <<j.source, j.target>> \in AllowedRoutes
    /\ IsRegistered(j.name, j.version)

\* The conditions promote raises on before it touches the registry.
PromotionAllowed(j) ==
    /\ <<j.source, j.target>> \in AllowedRoutes
    /\ IsRegistered(j.name, j.version)
    /\ j.source = "staging" => active[<<j.name, "staging">>] = j.version

CheckPromotion(w) ==
    /\ pc[w] = "check"
    /\ Goto(w, IF PromotionAllowed(job[w]) THEN "swap" ELSE "deny")
    /\ UNCHANGED <<registryVars, history, handled, audit, job, countVars, historyVars>>

\* rollback: refused when the version reported bad is not the active one.
Observe(w) ==
    /\ pc[w] = "observe"
    /\ Goto(w, IF active[JobKey(job[w])] = job[w].previous THEN "recall" ELSE "deny")
    /\ UNCHANGED <<registryVars, history, handled, audit, job, countVars, historyVars>>

\* The version the last line about the bad one says it replaced.
Predecessors(j) ==
    LET lines == ActivationLines(history, j.name, j.target, j.previous)
    IN {history[i].record.previous : i \in {i \in lines : \A k \in lines : k <= i}}

\* rollback: records_for, and the previous version of the last record.
Recall(w) ==
    /\ pc[w] = "recall"
    /\ IF Readable(history) /\ Predecessors(job[w]) \ {NoVersion} # {}
       THEN /\ \E v \in Predecessors(job[w]) \ {NoVersion} :
                 job' = [job EXCEPT ![w].version = v]
            /\ Goto(w, "swap")
       ELSE /\ Goto(w, "deny")
            /\ UNCHANGED job
    /\ UNCHANGED <<registryVars, history, handled, audit, countVars, historyVars>>

\* compare_and_activate, with the version read at the start as the expected one.
\* resolver.invalidate follows: see VersionResolver.
Swap(w) ==
    LET j == job[w] IN
    /\ pc[w] = "swap"
    /\ CompareAndActivate(JobKey(j), j.version, j.previous)
    /\ Goto(w, "append")
    /\ happened' = happened \cup {[RecordOf(j) EXCEPT !.previous = active[JobKey(j)]]}
    /\ job' = [job EXCEPT ![w].generation = generation']
    /\ rollbacks' = [k \in IncidentKeys |-> IF k = j.key THEN rollbacks[k] + 1
                                            ELSE rollbacks[k]]
    /\ UNCHANGED <<history, handled, audit, countVars, rejected>>

SwapRefused(w) ==
    /\ pc[w] = "swap"
    /\ ActivationRefused(JobKey(job[w]), job[w].version, job[w].previous)
    /\ Goto(w, "deny")
    /\ UNCHANGED <<registryVars, history, handled, audit, job, countVars, historyVars>>

\* Mutant: the record is still in a buffer.
AppendBuffered(w) ==
    /\ pc[w] = "append"
    /\ history' = Written(history, RecordOf(job[w]), "nothing")
    /\ Goto(w, "allow")
    /\ UNCHANGED <<registryVars, handled, audit, job, countVars, historyVars>>

\* FileVersionHistoryStore.append, under the file's lock, when it returns.
AppendRecord(w) ==
    /\ pc[w] = "append"
    /\ history' = Written(history, RecordOf(job[w]), "all")
    /\ Goto(w, "allow")
    /\ UNCHANGED <<registryVars, handled, audit, job, countVars, historyVars>>

\* Mutant: the caller is told the record is there.
AppendSwallowsFailure(w) ==
    /\ pc[w] = "append"
    /\ failures < MaxFailures
    /\ failures' = failures + 1
    /\ \E part \in Part : history' = Written(history, RecordOf(job[w]), part)
    /\ Goto(w, "allow")
    /\ UNCHANGED <<registryVars, handled, audit, job, attempts, restarts, historyVars>>

\* ... and when it raises: opening, writing or fsync failed.
AppendFails(w) ==
    /\ pc[w] = "append"
    /\ failures < MaxFailures
    /\ failures' = failures + 1
    /\ \E part \in Part : history' = Written(history, RecordOf(job[w]), part)
    /\ Goto(w, "failed")
    /\ UNCHANGED <<registryVars, handled, audit, job, attempts, restarts, historyVars>>

\* The call ends; its worker may begin another.
Finish(w) ==
    /\ Goto(w, "idle")
    /\ job' = [job EXCEPT ![w] = NoJob]

EventOf(j, decision) ==
    [op |-> j.op, decision |-> decision, generation |-> j.generation,
     record |-> IF j.generation = 0 THEN Corrupt ELSE RecordOf(j)]

\* The audit store with the event of a call.
Recorded(j, decision) == audit \cup {EventOf(j, decision)}

\* Mutant: a failed append is raised without an event.
RecordEarlyDenial(w) ==
    /\ pc[w] \in {"deny", "failed"}
    /\ audit' = IF pc[w] = "deny" THEN Recorded(job[w], "DENY") ELSE audit
    /\ Finish(w)
    /\ UNCHANGED <<registryVars, history, handled, countVars, historyVars>>

\* The handler of both calls: any exception is recorded as a denial, "rejected
\* safely", and raised again.
RecordDenial(w) ==
    /\ pc[w] \in {"deny", "failed"}
    /\ audit' = Recorded(job[w], "DENY")
    /\ Finish(w)
    /\ UNCHANGED <<registryVars, history, handled, countVars, historyVars>>

RecordAllow(w) ==
    /\ pc[w] = "allow"
    /\ audit' = Recorded(job[w], "ALLOW")
    /\ Finish(w)
    /\ UNCHANGED <<registryVars, history, handled, countVars, historyVars>>

\* The store raises instead (a correlation id that is empty or too long, which
\* nothing checked earlier), and the call with it.
AuditRejects(w) ==
    /\ pc[w] \in {"allow", "deny", "failed"}
    /\ failures < MaxFailures
    /\ failures' = failures + 1
    /\ rejected' = rejected \cup
         (IF job[w].generation = 0 THEN {}
          ELSE {EventOf(job[w], IF pc[w] = "allow" THEN "ALLOW" ELSE "DENY")})
    /\ Finish(w)
    /\ UNCHANGED <<registryVars, history, handled, audit, attempts, restarts,
                   happened, rollbacks>>

\* The process dies and another starts on the same file.  The lock on the file
\* lets at most one worker be writing at that moment.
Restart ==
    /\ restarts < MaxRestarts
    /\ restarts' = restarts + 1
    /\ \/ UNCHANGED history
       \/ \E w \in Workers, part \in Part :
            /\ pc[w] = "append"
            /\ history' = Written(history, RecordOf(job[w]), part)
    /\ active' = [k \in Key |-> NoVersion]
    /\ generation' = 0
    /\ handled' = {}
    /\ audit' = {}
    /\ pc' = [w \in Workers |-> "idle"]
    /\ job' = [w \in Workers |-> NoJob]
    /\ rejected' = {}
    /\ rollbacks' = [k \in IncidentKeys |-> 0]
    /\ UNCHANGED <<attempts, failures, happened>>

Call(w) ==
    \E n \in Names :
        \/ \E v \in Versions, route \in Routes : Promote(w, n, v, route)
        \/ \E c \in Targets, bad \in Versions :
             \/ Rollback(w, n, c, bad)
             \/ \E key \in IncidentKeys : HandleIncident(w, key, n, c, bad)

Step(w) ==
    \/ CheckPromotion(w)
    \/ Observe(w)
    \/ Recall(w)
    \/ Swap(w)
    \/ SwapRefused(w)
    \/ AppendRecord(w)
    \/ AppendFails(w)
    \/ RecordDenial(w)
    \/ RecordAllow(w)
    \/ AuditRejects(w)

Next ==
    \/ \E w \in Workers : Call(w) \/ Step(w)
    \/ Restart

Spec == Init /\ [][Next]_vars

-----------------------------------------------------------------------------
(***************************************************************************)
(* Properties.                                                             *)
(***************************************************************************)

Records(h) == {h[i].record : i \in DOMAIN h} \ {Corrupt}

\* The file tells no lies: every record that can be read is of an activation
\* that happened, and names the version that activation really replaced,
\* whatever other workers activated between the two reads of a call, whichever
\* order their records reach the file in, and whenever writes were cut short.
HistoryTruthful == Records(history) \subseteq happened

\* Production only ever receives versions that were active in staging, by
\* promotion and by rollback, across restarts too.
WasActive(n, c, v) == \E r \in happened : r.name = n /\ r.target = c /\ r.version = v

ProductionWasStaged ==
    \A n \in Names, v \in Versions :
        WasActive(n, "prod", v) => WasActive(n, "staging", v)

\* Duplicate triggers do not roll state backward repeatedly: a process applies
\* at most one rollback per incident key.
OneRollbackPerIncident == \A k \in IncidentKeys : rollbacks[k] <= 1

\* An ALLOW event is about an activation whose record is in the file, as long as
\* no append was cut short.
AllowedIsRecorded ==
    Readable(history) =>
        \A e \in audit : e.decision = "ALLOW" => e.record \in Records(history)

\* Every change leaves evidence: each activation of this process is still being
\* made, or has an audit event of its own, whatever failed after it.  When the
\* store refuses that event, and the caller sees a failure of a change that was
\* made, its record is in the file: only if the append had failed too, or the
\* file cannot be read, is there nothing.
ChangeLeavesEvidence ==
    \A g \in 1 .. generation :
        \/ \E w \in Workers : pc[w] # "idle" /\ job[w].generation = g
        \/ \E e \in audit : e.generation = g
        \/ \E e \in rejected :
             /\ e.generation = g
             /\ e.decision = "ALLOW" /\ Readable(history) => e.record \in Records(history)

\* The two below are what the code's own words promise; it breaks both.

\* A call recorded as rejected safely left the active version alone.
RejectedChangedNothing ==
    \A e \in audit : e.decision = "DENY" => e.generation = 0

\* A rollback recorded as done replaced the bad version by another one.
RollbackReplacesBadVersion ==
    \A e \in audit :
        e.op = "rollback" /\ e.decision = "ALLOW"
          => e.record.version # e.record.previous
-----------------------------------------------------------------------------
(***************************************************************************)
(* The inductive invariant behind the properties that hold.                *)
(***************************************************************************)

Uncommitted == {"check", "observe", "recall", "swap", "deny"}

\* A call has a generation once it has activated a version, and a version to
\* activate from the moment it knows which.
CallsInOrder == \A w \in Workers :
    /\ pc[w] \in Uncommitted \cup {"idle"} => job[w].generation = 0
    /\ pc[w] \in {"append", "allow", "failed"} => job[w].generation # 0
    /\ pc[w] \in {"check", "swap", "append", "allow", "failed"} => job[w].version \in Versions
    /\ pc[w] = "idle" => job[w].key = NoKey

\* What is active was activated, and so was what each activation replaced.
ActiveHappened == \A k \in Key :
    active[k] # NoVersion => WasActive(k[1], k[2], active[k])

PreviousHappened == \A r \in happened :
    r.previous # NoVersion => WasActive(r.name, r.target, r.previous)

\* A call about to activate in production has a version that was in staging.
SwapsStaged == \A w \in Workers :
    pc[w] = "swap" /\ job[w].target = "prod"
      => WasActive(job[w].name, "staging", job[w].version)

\* A record to be appended is of an activation that happened ...
AppendsTruthful == \A w \in Workers : pc[w] = "append" => RecordOf(job[w]) \in happened

\* ... and is in the file once it has been, if the file can be read.
AllowsRecorded == \A w \in Workers :
    pc[w] = "allow" /\ Readable(history) => RecordOf(job[w]) \in Records(history)

\* A key names at most one call, and that call has not rolled back while it may.
KeysUsedOnce ==
    /\ \A w \in Workers : job[w].key # NoKey => job[w].key \in handled
    /\ \A w, u \in Workers : w # u /\ job[w].key # NoKey => job[w].key # job[u].key
    /\ \A w \in Workers, k \in IncidentKeys :
         job[w].key = k /\ pc[w] \in Uncommitted => rollbacks[k] = 0
    /\ \A k \in IncidentKeys : k \notin handled => rollbacks[k] = 0

OperationsIInv ==
    /\ OperationsTypeOK
    /\ CallsInOrder
    /\ ActiveHappened
    /\ PreviousHappened
    /\ SwapsStaged
    /\ AppendsTruthful
    /\ AllowsRecorded
    /\ KeysUsedOnce
    /\ HistoryTruthful
    /\ ProductionWasStaged
    /\ OneRollbackPerIncident
    /\ AllowedIsRecorded
    /\ ChangeLeavesEvidence
=============================================================================
