----------------------------- MODULE RingRuntime -----------------------------
(***************************************************************************)
(* RingAwareToolRuntime.invoke (python/governance/ring_runtime.py) and the *)
(* RestrictedWorkerExecutor behind it (python/governance/sandbox.py): a    *)
(* tool call is authorized, classified, and answered in memory, by a       *)
(* worker process, or not at all.                                          *)
(*                                                                         *)
(* Calls run on one asyncio loop; each action is what happens up to the    *)
(* next await.  At any await the caller may cancel the call, and a second  *)
(* time while it is waiting for a killed worker.  Of the worker processes  *)
(* only this is known: they exit or they do not.                           *)
(***************************************************************************)
EXTENDS FiniteSets, Naturals, SequencesExt

CONSTANTS
    Calls,
    MaxConcurrency  \* max_concurrency

ASSUME RuntimeAssumption ==
    /\ IsFiniteSet(Calls)
    /\ MaxConcurrency \in Nat \ {0}

VARIABLES
    pc,         \* where each call stands, at the end: how it ended
    ring,       \* the ring of its tool, or "unknown"
    process,    \* its worker process
    free,       \* the value of the executor's semaphore
    waiters,    \* its waiters, in order
    permitted   \* history: the calls that authorize_tool permitted

slotVars == <<free, waiters>>
vars == <<pc, ring, process, slotVars, permitted>>

Ended == {"ok", "denied", "cancelled"}

\* spawning: the call was given a slot, and has not yet started its worker.
\* killing, aborting: the worker was killed, after a timeout or a result that is
\* too large (killing) or because the call was cancelled (aborting).
PCs == {"idle", "authorizing", "waiting", "spawning", "running", "killing", "aborting"} \cup Ended

Rings == {"ring0", "ring1", "ring2", "ring3", "unknown"}

RuntimeTypeOK ==
    /\ pc \in [Calls -> PCs]
    /\ ring \in [Calls -> Rings]
    /\ process \in [Calls -> {"none", "alive", "killed", "dead"}]
    /\ free \in 0 .. MaxConcurrency
    /\ waiters \in Seq(Calls)
    /\ permitted \subseteq Calls

Init ==
    /\ pc = [c \in Calls |-> "idle"]
    /\ ring = [c \in Calls |-> "unknown"]
    /\ process = [c \in Calls |-> "none"]
    /\ free = MaxConcurrency
    /\ waiters = <<>>
    /\ permitted = {}

-----------------------------------------------------------------------------
(* The semaphore: a slot that is returned goes to the first waiter at once.  *)

\* The pcs after a slot was returned, and its next owner has it.
Handed(pcs) ==
    IF waiters = <<>> THEN pcs ELSE [pcs EXCEPT ![Head(waiters)] = "spawning"]

ReturnSlot ==
    IF waiters = <<>>
    THEN free' = free + 1 /\ UNCHANGED waiters
    ELSE waiters' = Tail(waiters) /\ UNCHANGED free

\* A call that holds a slot ends.
Leave(c, end) ==
    /\ pc' = Handed([pc EXCEPT ![c] = end])
    /\ ReturnSlot
    /\ UNCHANGED <<ring, permitted>>

-----------------------------------------------------------------------------
(* invoke, up to the executor                                               *)

Invoke(c, r) ==
    /\ pc[c] = "idle"
    /\ pc' = [pc EXCEPT ![c] = "authorizing"]
    /\ ring' = [ring EXCEPT ![c] = r]
    /\ UNCHANGED <<process, slotVars, permitted>>

\* authorize_tool denies or raises.
Refused(c) ==
    /\ pc[c] = "authorizing"
    /\ pc' = [pc EXCEPT ![c] = "denied"]
    /\ UNCHANGED <<ring, process, slotVars, permitted>>

Permitted(c) ==
    /\ pc[c] = "authorizing"
    /\ permitted' = permitted \cup {c}

\* A tool of ring 3 or of no ring at all is denied.  So is a tool of ring 0 for
\* which the hot path does not answer ALLOW.
RouteDenied(c) ==
    /\ Permitted(c)
    /\ ring[c] \in {"ring0", "ring3", "unknown"}
    /\ pc' = [pc EXCEPT ![c] = "denied"]
    /\ UNCHANGED <<ring, process, slotVars>>

\* The hot path answers ALLOW: the call ends without a worker.
RouteInMemory(c) ==
    /\ Permitted(c)
    /\ ring[c] = "ring0"
    /\ pc' = [pc EXCEPT ![c] = "ok"]
    /\ UNCHANGED <<ring, process, slotVars>>

\* Mutant: privileged tools go to the worker with the rest.
RouteAllToWorker(c) ==
    /\ Permitted(c)
    /\ ring[c] \in {"ring1", "ring2", "ring3"}
    /\ IF free > 0
       THEN pc' = [pc EXCEPT ![c] = "spawning"] /\ free' = free - 1 /\ UNCHANGED waiters
       ELSE pc' = [pc EXCEPT ![c] = "waiting"] /\ waiters' = Append(waiters, c) /\ UNCHANGED free
    /\ UNCHANGED <<ring, process>>

\* execute: the call takes a slot, or waits for one.
RouteToWorker(c) ==
    /\ Permitted(c)
    /\ ring[c] \in {"ring1", "ring2"}
    /\ IF free > 0
       THEN pc' = [pc EXCEPT ![c] = "spawning"] /\ free' = free - 1 /\ UNCHANGED waiters
       ELSE pc' = [pc EXCEPT ![c] = "waiting"] /\ waiters' = Append(waiters, c) /\ UNCHANGED free
    /\ UNCHANGED <<ring, process>>

\* execute: the payload cannot be encoded or is too large.
PayloadDenied(c) ==
    /\ Permitted(c)
    /\ ring[c] \in {"ring1", "ring2"}
    /\ pc' = [pc EXCEPT ![c] = "denied"]
    /\ UNCHANGED <<ring, process, slotVars>>

-----------------------------------------------------------------------------
(* execute, from its slot on                                                *)

Spawn(c) ==
    /\ pc[c] = "spawning"
    /\ pc' = [pc EXCEPT ![c] = "running"]
    /\ process' = [process EXCEPT ![c] = "alive"]
    /\ UNCHANGED <<ring, slotVars, permitted>>

SpawnFails(c) ==
    /\ pc[c] = "spawning"
    /\ Leave(c, "denied")
    /\ UNCHANGED process

\* The worker exits, at once or after it has read its input and written its
\* output.  The call succeeds if the output says so and names this call.
WorkerExits(c) ==
    /\ pc[c] = "running"
    /\ process' = [process EXCEPT ![c] = "dead"]
    /\ \E end \in {"ok", "denied"} : Leave(c, end)

\* Mutant: the slot is free as soon as the worker is given up, and the worker
\* stays.
GiveUpAlive(c) ==
    /\ pc[c] = "running"
    /\ Leave(c, "denied")
    /\ UNCHANGED process

\* The time is over, or the worker wrote too much.
GiveUp(c) ==
    /\ pc[c] = "running"
    /\ pc' = [pc EXCEPT ![c] = "killing"]
    /\ process' = [process EXCEPT ![c] = "killed"]
    /\ UNCHANGED <<ring, slotVars, permitted>>

\* Mutant: the slot of a killed worker is never returned.
ReapAndKeepSlot(c) ==
    /\ pc[c] \in {"killing", "aborting"}
    /\ process' = [process EXCEPT ![c] = "dead"]
    /\ pc' = [pc EXCEPT ![c] = IF pc[c] = "killing" THEN "denied" ELSE "cancelled"]
    /\ UNCHANGED <<ring, slotVars, permitted>>

\* await process.wait() returns: the killed worker is gone.
Reap(c) ==
    /\ pc[c] \in {"killing", "aborting"}
    /\ process' = [process EXCEPT ![c] = "dead"]
    /\ Leave(c, IF pc[c] = "killing" THEN "denied" ELSE "cancelled")

-----------------------------------------------------------------------------
(* Cancellation                                                             *)

CancelAuthorizing(c) ==
    /\ pc[c] = "authorizing"
    /\ pc' = [pc EXCEPT ![c] = "cancelled"]
    /\ UNCHANGED <<ring, process, slotVars, permitted>>

\* Mutant: a slot is returned that the call did not have yet.
CancelWaitingReturns(c) ==
    /\ pc[c] = "waiting"
    /\ pc' = [pc EXCEPT ![c] = "cancelled"]
    /\ \E i \in DOMAIN waiters : waiters[i] = c /\ waiters' = RemoveAt(waiters, i)
    /\ free' = free + 1
    /\ UNCHANGED <<ring, process, permitted>>

CancelWaiting(c) ==
    /\ pc[c] = "waiting"
    /\ pc' = [pc EXCEPT ![c] = "cancelled"]
    /\ \E i \in DOMAIN waiters : waiters[i] = c /\ waiters' = RemoveAt(waiters, i)
    /\ UNCHANGED <<ring, process, free, permitted>>

\* Mutant: the slot is lost with a call that was handed it and not yet resumed.
CancelSpawningLosesSlot(c) ==
    /\ pc[c] = "spawning"
    /\ pc' = [pc EXCEPT ![c] = "cancelled"]
    /\ UNCHANGED <<ring, process, slotVars, permitted>>

\* A call that was handed its slot and not yet resumed, or whose worker is being
\* started: asyncio ends a worker that was.
CancelSpawning(c) ==
    /\ pc[c] = "spawning"
    /\ Leave(c, "cancelled")
    /\ UNCHANGED process

CancelRunning(c) ==
    /\ pc[c] = "running"
    /\ pc' = [pc EXCEPT ![c] = "aborting"]
    /\ process' = [process EXCEPT ![c] = "killed"]
    /\ UNCHANGED <<ring, slotVars, permitted>>

\* The wait for the killed worker is cancelled in its turn.
CancelKilling(c) ==
    /\ pc[c] \in {"killing", "aborting"}
    /\ Leave(c, "cancelled")
    /\ UNCHANGED process

Cancel(c) ==
    \/ CancelAuthorizing(c) \/ CancelWaiting(c) \/ CancelSpawning(c)
    \/ CancelRunning(c) \/ CancelKilling(c)

-----------------------------------------------------------------------------
Authorized(c) ==
    \/ Refused(c) \/ RouteDenied(c) \/ RouteInMemory(c) \/ RouteToWorker(c) \/ PayloadDenied(c)

Spawned(c) == Spawn(c) \/ SpawnFails(c)

Next ==
    \E c \in Calls :
        \/ \E r \in Rings : Invoke(c, r)
        \/ Authorized(c)
        \/ Spawned(c) \/ WorkerExits(c) \/ GiveUp(c) \/ Reap(c)
        \/ Cancel(c)

Spec == Init /\ [][Next]_vars

\* The policies are timed out (GovernedRunner, ChecksEnd), processes start or
\* fail to, a worker is given up when its time is over, and one that was killed
\* dies.  Nothing makes a worker exit by itself.
FairSpec ==
    /\ Spec
    /\ \A c \in Calls :
        /\ WF_vars(Authorized(c))
        /\ WF_vars(Spawned(c))
        /\ WF_vars(GiveUp(c))
        /\ WF_vars(Reap(c))

-----------------------------------------------------------------------------
(* Properties                                                               *)

With(labels) == {c \in Calls : pc[c] \in labels}

Holders == With({"spawning", "running", "killing", "aborting"})

\* "limits concurrent workers" (docs/CHAPTER-4.md): no more workers are alive
\* than the executor has slots, whoever timed out, failed or was cancelled,
\* and a call that has ended leaves none behind.
WorkersCapped ==
    /\ Cardinality({c \in Calls : process[c] = "alive"}) <= MaxConcurrency
    /\ \A c \in Calls : pc[c] \in Ended => process[c] # "alive"

\* No slot is lost or handed out twice, and none is idle while a call waits.
SlotsAccounted ==
    /\ free + Cardinality(Holders) = MaxConcurrency
    /\ free > 0 => waiters = <<>>
    /\ ToSet(waiters) = With({"waiting"})
    /\ Len(waiters) = Cardinality(ToSet(waiters))

\* A worker only ever runs for a tool of ring 1 or 2 that was authorized before.
WorkersAuthorized ==
    \A c \in Calls :
        process[c] # "none" => c \in permitted /\ ring[c] \in {"ring1", "ring2"}

\* Every call is answered, whatever its worker and the workers of the calls
\* ahead of it do: no hanging worker starves the calls that wait for a slot.
CallsAnswered == \A c \in Calls : (pc[c] # "idle") ~> (pc[c] \in Ended)
=============================================================================
