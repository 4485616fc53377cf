# A TLA+ verification of the agent runtime governance lab

This directory holds TLA+ models of the runtime governance lab, the TLC runs
that check them on small instances, and TLAPS proofs of what matters most for
every instance. Paths below are relative to the repository unless they name a
module.

    tlc -workers 2 -config operations.cfg MCPolicyOperations    # a run
    tlapm PolicyOperations_proofs.tla                           # a proof

`PROJECT.json` is the index: the runs, the source lines behind each definition
("map"), a mutation of the code that breaks each property ("mutants"), what the
code is exposed to ("hazards"), where it departs from its documents ("findings")
and the theorems.

## 1. Inventory

| Component | State | Operations | Hard because |
|---|---|---|---|
| Activation registry, `operations.py` | active version per rule set and channel, a generation | `compare_and_activate`, `active_version`, `generation` | shared by every thread, each method locked, no lock across them |
| Promotion, rollback, incidents, `operations.py` | history file, handled incident keys, audit events | `promote`, `rollback`, `handle` | unlocked chains of locked steps; write and audit failures after the activation; restart |
| Version resolver, `operations.py` | a cache of (generation, version) | `resolve`, `invalidate` | no lock at all |
| Delegation tokens, `delegation.py` | a replay cache | `verify`, `consume`, `authorize_delegated_action` | two clock readings; concurrent use of one nonce; restart |
| Handoffs and shared memory, `delegation.py` | sessions, entries | `create`, `transition`, `recover_or_expire`, `write`, `read` | lazy expiry, terminal states, restart |
| Mesh sidecar, `go-sidecar/mesh/sidecar.go` | a replay cache, a fixed configuration | `/v1/delegate`, `/readyz` | one goroutine per request, stale clock readings, partial configuration |
| Pipeline and runner, `pipeline.py`, `runner.py` | attached evaluators and observers, calls under way | `attach`, `attach_observer`, `evaluate`, `run`, `authorize_tool` | every await is an interleaving point; live lists; hanging evaluators; failing observers |
| Audit, `audit.py` | records in a hash chain | `append`, `verify_integrity`, `classify` | reads while calls are under way; appends that raise |
| Ring runtime and executor, `ring_runtime.py`, `sandbox.py` | semaphore, worker processes | `invoke`, `execute` | timeouts, cancellation at every await, processes that hang |
| Rust hot path, `hot_path_evaluator` | an active flag | `evaluate`, `close` | close during a call |
| Policy engine and rule sets, `policy_engine.py`, `coding_policy_set.py` | registered rule sets | `validate`, `register`, `evaluate` | first match decides; ties; rules that raise; two versions kept side by side |
| Composition, `policy_composition.py`, `policies.py` | the pipeline of one version | `create_versioned_pipeline`, `authorize_tool_request` | several layers must agree, each with a notion of names of its own |
| Control coverage, `coverage.py`, `control_evidence.py`, `control_audit.py` | declared evidence, attached points | `analyze`, `validate_policy_annotations`, `main` | evidence and attachments change apart from each other |
| .NET counterparts, `dotnet/` | as above, mostly without locks | as above | the same, with other locking and cancellation |

How they interact. The runner awaits the pipeline, which awaits evaluators and
calls observers; the observers append to the audit store. The ring runtime
awaits the runner's `authorize_tool` and then the hot path or the executor.
Evaluators resolve the active rule set through the version resolver, which reads
the registry that promotion and rollback change. An agent receives work from
another one through the verifier, and through the sidecar in front of it.

What makes each component correct, and the property that says so, is listed
per module in section 3. What is hard to test, at its line, is the list
"hazards" of `PROJECT.json`.

Not modelled:

* `models.py`: immutable records and field validation, the data of the other modules.
* Drift detector, health probe, latency enforcer: one stateless comparison of
  numbers each; a model would be the comparison again.
* `HandoffStore.get`, which returns a record that may be behind its deadline: the
  store's promise is that of its other three methods, and its callers are tests.
* Demos and command line tools other than `control_audit.py` and
  `policy_diagnostics.py`: straight-line scripts.
* `deny_goal_manipulation` and `deny_secret_output` of `policies.py`: the versioned
  composition attaches rule sets in their place. Nor a tool payload that cannot be
  split, which rules and `authorize_tool_request` only deny.
* The .NET programs under `dotnet/`: counterparts of the Python ones; where they
  differ (a history list without a lock, an executor that does not wait for the worker
  it killed) the hazards list says so.
* `ProductionHotPathHandle` of the Rust library: neither binding uses it; the
  hot path's verdict is a choice in `RingRuntime`.

## 2. Plan

Done, in this order: the operations core, since every other part trusts what it
makes active; the boundaries that decide (delegation, sidecar, pipeline and
runner); the worker executor and its proofs; then the parts that share no state
with those (handoffs, shared memory, rule sets, composition, coverage, the audit
chain), side by side in one run.

What is left, in order of importance:

1. The .NET variants where they differ: a history list without a lock, an executor
   that does not wait for the worker it killed, `OperationCanceledException` in the
   pipeline.
2. Composition: `RingRuntime` over `GovernedRunner` instead of over "authorize_tool
   permits or not".
3. With the composition of 2, theorems that span components: what `RingRuntime`
   takes from an authorization, it takes from evidence.

## 3. Modules

Every behavioural module has an `MC...` module with the finite sets for TLC; the
modules from `HandoffStore` on share `MCLabComponents`, which puts them side by side.
Definitions that begin with a comment "Mutant:" are not part of the
specification: each is the definition after it with one plausible mistake, and
shows that some property notices.

### `ActivationRegistry`
The registry's two variables and its compare-and-swap; extended by the modules
of the processes that share it. `Registered` is a constant because
`PolicyRegistry` is filled before the registry is used and has no removal.

### `PolicyOperations`
Workers (threads) run `promote`, `rollback` and `handle`, one at a time each. A
`pc` label stands before each step that takes a lock or may fail: `check` (route,
registration, staged version), `observe` and `recall` (rollback's two reads),
`swap`, `append`, and the audit events `allow`, `deny`, `failed`. `job` is the
call's arguments and locals. The file is a sequence of lines; an append leaves
none, some or all of its bytes, and what follows a line without newline spoils
it. `Restart` keeps the file and loses everything else. `happened`, `rejected`
and `rollbacks` are history variables.

* `HistoryTruthful`: every readable record is of an activation that happened,
  and names the version that it replaced.
* `ProductionWasStaged`: production only receives what was in staging.
* `OneRollbackPerIncident`, `AllowedIsRecorded`.
* `ChangeLeavesEvidence`: every activation ends with an audit event, or, when the store
  refuses that, with its record in the file (unless the append had failed as well).
* `RejectedChangedNothing` and `RollbackReplacesBadVersion` are what the code's
  words promise and it does not keep (section 5).

### `VersionResolver`, `LinearizableResolver`
`resolve` in its four steps (generation, cache, registry, cache) beside
activations and `invalidate`. `AnswerWasActive`: the answer was active at some
time during the call. `CacheCoherent`: an entry of the present generation holds
the active version. `LinearizableResolver` is the abstract specification, an
atomic read; `ResolveIsAtomic` (`Atomic!Spec`, an INSTANCE with a history variable for
`live`) says that the resolver implements it.

### `ReplayCache`, `TokenVerifier`, `MeshGuard`
`ReplayCache` is the locked cache of both languages. `TokenVerifier` has one
action for `verify` up to the cache, one for the cache with its own clock
reading, one for the parsing after it, and one for `authorize_delegated_action`.
`MeshGuard` has one for `Validate` up to the cache, one for the cache (by the
request's own reading), and one for the policies. Signatures, formats and
addresses are Boolean attributes of the envelopes.

* `OneUseWhileValid`: no nonce is used twice while its token is valid.
* `SpentByItsToken`: only the token a nonce was drawn for spends it.
* `NotForgottenEarly`: an action property of the purge.
* `ActionsWereGranted`; `NotReadyAllowsNothing` relates the sidecar's verdicts to
  what `/readyz` says.
* `UsesBounded`: the sidecar's requests purge by readings that may be stale, so a nonce
  may be used again once its token has expired; but N requests in service use it N
  times at most, and one at a time once. The run reaches the bound.

Both caches are process memory. `TokenVerifier` restarts, and its properties are about
the life of one process; `MeshGuard` models one process.

### `AuditTrail`, `GovernedRunner`
`AuditTrail` is `_notify` with the stores behind its observers (the first
`reached` of them record an event, the next one raises), and the failure analyzer.
`GovernedRunner` has one action per stretch of code between two awaits: a call
begins, its evaluator permits, denies, or fails, its agent returns, it is abandoned
by an exception or a cancellation. Evaluators and observers are attached at any
time, and a check goes over the live list.

* `DenialIsFinal`: a denial or error is the last record of its call.
* `ReleaseHasEvidence`: a call that passed a point has its permission on record
  in every store that was observing when it began.
* `PassedInOrder`: all evaluators of the point permitted it, in their order, and what
  every store holds of it is one permission of each.
* `ChecksEnd`: a check ends.
* `DenialIsClassified` is a promise of the documents that does not hold (section 5).

### `RingRuntime`
`invoke` and `execute`: authorization, routing by ring, the semaphore with its
queue, a worker's start, end, kill and reaping, and a cancellation for each await.

* `WorkersCapped`: at most `MaxConcurrency` workers that were not killed, and
  none of a call that ended.
* `SlotsAccounted`: slots are neither lost nor doubled, none idles while calls wait.
* `WorkersAuthorized`: workers only for permitted tools of rings 1 and 2.
* `CallsAnswered`: every call ends, whatever workers do.

### `HandoffLifecycle`, `HandoffStore`
`HandoffStore` has one action per method, since each holds the store's lock and
reads the clock under it. No timer watches a deadline: a record says "active" until
a call looks. `Die` loses the sessions, which are process memory.
`HandoffLifecycle` is what a party to a handoff may rely on: no clock and no
records; a session is over at the instant its time is up, and stays as it ended.

* `SessionsAreLifecycles` (`Lifecycle!Spec`): the store implements the lifecycle. The
  mapping reads a record whose deadline has passed as expired (`Life`), so a `Tick`
  maps to `Pass`, a call that records an expiry to a mere answer (`Recover`) or, before
  the deadline, to `Close`. `told`, what the last call of the present instant
  returned, is part of the mapping: without it an answer would be a stutter, and the
  refinement would say nothing of what callers are told.

### `SharedMemorySegment`
`write` and `read` with the gates of the segment and of the entry. `PhaseGated`
relates what was read to who wrote it, in which phase, after any overwriting.

### `PolicyEngine`, `SecureCodingPolicySet`
Validation, registration and evaluation of rule sets. A payload is what rules can
tell of it: texts it contains, the name of a tool, patterns that match. A pattern
looked for as a text is never found, and a text where a pattern is due raises, as
`_matches` does. `SecureCodingPolicySet` holds the lab's rule sets in both versions.

* `OrderIrrelevant`: a valid set decides the same however its rules are listed.
* `FailsClosed`: it decides every payload at its point, and permits only what the
  first rule with something to say, or that cannot be evaluated, allows.

### `VersionedPipeline`
`create_versioned_pipeline` of either version, and what its evaluators answer
together to one request; they keep no state, so one request per deployment is
enough. `Diagnostics` is the table of `policy_diagnostics.py`.

* `ToolNeedsEveryLayer`: rules, inventory, claim and ring all permit a tool that is
  permitted, whatever its spelling and the inventory's entries.
* `HardeningOnlyRestricts`: 1.1.0 denies what 1.0.0 denies and the two new things,
  and nothing else; each version passes its diagnostics.

### `ControlCoverage`
The matrix, the declared evidence, the gap analysis, the check of annotations and
the audit's exit code, while evaluators are attached and evidence is changed.

* `HonestReport`: the lab's ratings are the documented ones, none of them gets better
  as its evidence is withdrawn, moved or loses its test, untested evidence counts for
  nothing, and none rests on a point that has no evaluator. (Evidence in general may
  get a better rating by being moved: to a point where it was missing.)
* `ExitCodeIsEarned`: 0 exactly when no risk that controls can address is missing or,
  in the strict mode, incomplete.

### `AuditChain`
`append`, `snapshot` and `verify_integrity`, with a copy that is edited, shortened
and reordered after it was exported, with and without new hashes.

* `ChainsWithOneEndAgree`: a copy that verifies and ends with a hash of the store's is
  the store's chain up to there. (A copy that ends with another hash may verify: who can
  write every hash anew can write another chain: docs/THREAT-MODEL.md says that the
  evidence is "not independently protected".)

## 4. Runs, bounds, fairness

| Run | Module | Bounds | Checks |
|---|---|---|---|
| `resolver` | `MCVersionResolver` | 2 callers, 1 activator, 2 keys, 2 versions, 3 activations | 3 invariants, refinement |
| `operations` | `MCPolicyOperations` | 2 workers, 2 versions, 1 incident key, 4 calls, 1 failing append, 1 restart | 6 invariants |
| `verifier` | `MCTokenVerifier` | 2 threads, 5 nonces, clock to 5, lifetime 2, skew 1, 1 restart | 4 invariants, 1 action property |
| `mesh` | `MCMeshGuard` | 3 requests, 3 nonces, clock to 4, complete and incomplete configurations | 5 invariants |
| `runner` | `MCGovernedRunner` | 2 calls, 2 observers, 2 policy names, 3 evaluators | 3 invariants, 1 action property |
| `runner_live` | `MCGovernedRunner` | 1 observer, 2 evaluators | liveness |
| `runtime` | `MCRingRuntime` | 3 calls, 2 slots, all rings | 4 invariants, liveness |
| `components` | `MCLabComponents` | see below | 9 invariants, refinement |
| `ops_rejected`, `ops_rollback`, `verifier_replay`, `runner_class` | | | violated, section 5 |

Why they are enough. Two workers are the fewest that interleave, and the history
of a rollback needs three activations of one key (activate, replace, activate
again): four calls leave room for one more. One failure and one restart suffice for
an append onto an open line, before and after a restart. Two keys and three
generations let a cache entry be stale, refreshed, and stale again. A lifetime
of two with a clock that runs to five lets a nonce be used, expire, be purged and
be presented again; three requests let two overtake a third. Three evaluators
at one point let one be attached before, at, and behind the one that is awaited.
Three calls on two slots are the fewest with a queue that a cancellation can meet.
What is proved does not depend on the bounds.

`components` starts one component per behaviour, so that their states add up
instead of multiplying. Handoffs: 2 sessions, timeouts up to 2, a clock to 4 and one
death let a session end, be forgotten, be created again, and pass its deadline
twice. Shared memory: 2 workflows, 1 key, 3 phases, of which two may write and two
may read, and all entries. Rule sets: all drafts of up to 3 rules out of a pool of
9 that differ in priority, kind, value and action, evaluated on every set of the
lab's phrases, every tool and spelling, and every set of patterns; an ambiguity
needs two rules, and a third for the catch-all. Deployments: both versions and every
request of those payloads, 2 scopes and 3 inventories, one of which holds a tool
twice. Coverage: the lab's evidence and that of a deployment that closes every risk
it can, and 2 changes, which take a risk from verified to partial to missing. Audit
chain: 3 records, 2 events and 2 alterations, enough to change a record and mend its
hash, or to swap two records and lose one.

Deadlock is not an error where the bounds end the behaviour: calls are used
up, the clock stops. `resolver` has no such end and is checked for it.

Fairness. The safety runs assume none. `runner_live` assumes weak fairness of
`Fail`, an evaluator that raises or is timed out, because
`asyncio.wait_for` cuts every evaluator off (`pipeline.py:182`); nothing makes an
evaluator answer, or limits an agent. Evaluators are attached finitely often
there (`MaxAttached`). `runtime` assumes that authorization
answers (`ChecksEnd`), that starting a process succeeds or fails, that
`wait_for` gives a worker up (`sandbox.py:74`) and that a killed process is reaped.
Nothing makes a worker exit, or a caller cancel.

Assumptions of the models:

* Clocks do not run backwards, and an issuer draws a fresh nonce for each token
  (`create_token`); both are ASSUMEs or the shape of `Tick`.
* One process has the history file at a time, as its lock is a thread lock.
* Rule sets are registered before they are operated on.
* Evaluators yield to the event loop and accept their cancellation.
* `asyncio.Semaphore` hands a released slot to its first waiter.
* `HandoffStore`'s clock does not run backwards; a shared entry is immutable.
* SHA-256 has no collisions: in `AuditChain` a digest is its payload.
* What becomes of an exported copy (`Alter`), and how evidence is maintained
  (`Change`), is not code: both are choices of the environment.
* A worker reads its input before anything else (`sandbox_worker.py` does), and
  64 KiB fit the pipe; so writing it neither blocks nor breaks.

## 5. Where code and documents differ

* `ops_rejected`: after the activation, a failing history append is audited as
  "Promotion rejected safely" although the version is active.
* `ops_rollback`: promoting the active version again records it as its own
  predecessor; a rollback then reactivates the bad version and reports success.
* `verifier_replay`: two calls that pass the lifetime check before a token expires
  and reach the cache after it are both told that theirs is the first use. Both uses
  come after the expiry, which is why `OneUseWhileValid` holds. The sidecar has the
  same window by its stale readings, and `UsesBounded` says how many uses it is worth.
* `runner_class`: when a later observer raises, the stores before it hold only
  an ALLOW for a call that was denied, and the analyzer says that every control
  allowed it.

Line numbers and quotations are under "findings" in `PROJECT.json`.

## 6. Proofs

All theorems hold for every value of the constants that the modules' named
assumptions admit. Each module's `...IInv` is the inductive invariant:
`Init => IInv`, `IInv /\ [Next]_vars => IInv'` with one step per action, and the
properties are among its conjuncts or follow from it. TLC agreed with each invariant
before it was proved.

* `PolicyOperations_proofs` (`OperationsIInv`). The properties are not inductive
  alone: a record appended in the future must already be truthful
  (`AppendsTruthful`), which needs that the compare-and-swap's expected version is
  the one replaced; what a rollback restores must have been active there before
  (`PreviousHappened`), so that production stays staged (`SwapsStaged`,
  `ActiveHappened`); an incident key has one call at most (`KeysUsedOnce`).
* `VersionResolver_proofs` (`ResolverIInv`). Every cache entry, and every pair a
  call is about to store, is stamped: if its generation is still the present one,
  its version is the active one, and a call whose generation is present has seen
  it live. The refinement maps each step of `resolve` to a step of the atomic
  reader or a stutter.
* `TokenVerifier_proofs`, `MeshGuard_proofs`. The cache remembers every timely use
  as long as the token is valid (`TimelyRemembered`); in the sidecar this needs that
  no request's clock reading is ahead of the clock (`RequestsValid`). `UsesBounded`
  counts the requests that hold a nonce they have not asked the cache about
  (`Holding`): once a nonce is forgotten or used again, its uses and holders together
  do not exceed the requests (`LateUsesCounted`), since the one that made the cache
  forget it was not a holder, and no holder joins after the expiry (`UsesTimely`).
  A holder's reading lies before the expiry, so that it cannot forget the nonce itself.
  `Requests` is assumed finite. The action property `NotForgottenEarly` follows from the type invariant and the purge.
* `GovernedRunner_proofs` (`RunnerIInv`). A call that checks is at a point of its own
  kind and policy set, the evaluator it awaits exists, and witnesses stay attached,
  so that the permission just recorded is the evidence of the point just passed.
* `RingRuntime_proofs` (`RuntimeIInv`). A call's place says whether its worker lives and
  that it may have one (`CallsInOrder`), the queue holds each waiting call once
  (`QueueInOrder`), and free slots and holders add up (`SlotsInOrder`). An action
  either keeps the holders (`HoldersStay`), adds one (`HolderJoins`), or returns a slot
  (`SlotReturned`), which leaves it free or hands it to the head of the queue; that
  the head waits, and so is not a holder yet, is why no slot is counted twice. The cap
  follows: living workers are among the holders.
* `GovernedRunner_proofs` also has `OrderIInv`, for the action property
  `PassedInOrder`: a call that awaits the k-th evaluator has the permissions of the
  k - 1 before it with every observer, once each and in order (`ProgressInOrder`),
  and what is on record of a call was recorded on its way (`RecordsOnTheWay`), so
  that a point it arrives at has none yet. "In order" is an increasing enumeration
  of positions, which `NextRecord` extends by one; only `Permit` at the end of the
  list passes a point (`PassingStep`).
* `LabPolicies_proofs` is about the parts that decide by rules and tables.
  - Rule sets (`EngineIInv`: what is registered was valid). Priorities are natural
    numbers, so the rules that have something to say have a least one
    (well-foundedness of `<`), and it is the only one because priorities are distinct;
    a reordering keeps rules and priorities, hence the decision. The catch-all sees to
    it that there always is one.
  - The pipeline (`PipelineIInv`: a permission is one of the identity checks and of the
    deployed rules). Theorem `Decision` says what a set with distinct priorities permits
    without choosing a rule; `InputPermits`, `ToolPermits` and `OutputPermits` turn the
    three lists of rules into one condition each on a payload, for all payloads. Both
    properties, and the diagnostics, follow from those three.
  - Coverage (`CoverageIInv`: declared evidence never comes from nowhere). A risk's
    status is by which of its needs are missing (`StatusFacts`), and
    `NoBetterThanDocumented` goes through the ten risks: one that is documented as
    incomplete has a need whose capability the lab does not declare, and a change
    adds no capability; one that has no such need cannot be better than verified.
* `LabComponents_proofs` is about the others, and about all of them side by side.
  - `HandoffStore`. The type invariant is enough for the refinement: a `Tick` is
    `Pass` of the sessions whose deadline it reaches, and each call is one step of the
    lifecycle or an answer, by whether the deadline has passed.
  - Shared memory (`MemoryIInv`). An entry is its segment's, written in a phase
    that may write; whatever overwrites it passed the same gate.
  - The audit chain (`ChainIInv`: the store's chain verifies; store and copy are short
    chains of records). Two chains that verify and have one hash in common hold the same
    record there, as the digest has no collisions, so the same previous hash; the last
    record in which they differ (`GreatestNumber`) would have a successor that tells
    them apart. That is the induction over records without an induction theorem.
  - `LabRunsItsComponents`: the composition that `components` explores implements the
    specification of each component, so that every theorem about one holds there.

Assumptions of these proofs are the modules' ASSUMEs. `LabNamesAssumption` is the
only one about the lab's data: the names of its tools are texts in lower case, and its
two patterns are patterns. `PipelineAssumption` says the same of `unknown-tool`, which
the diagnostics use.

Every safety and action property that a passing run checks is a theorem, and so are both
refinements. Only model-checked: liveness (`ChecksEnd`, `CallsAnswered`), which is
out of the prover's reach, and the four violations.
