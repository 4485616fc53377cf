--------------------------- MODULE GovernedRunner ---------------------------
(***************************************************************************)
(* GovernedAgentRunner (python/governance/runner.py) over one              *)
(* EvaluationPipeline (python/governance/pipeline.py) and its audit trail. *)
(*                                                                         *)
(* Everything runs on one asyncio loop: a call gives way to others only    *)
(* while it awaits an evaluator or the agent.  Each action below is what   *)
(* happens from one await to the next.  Policies and observers may be      *)
(* attached while calls are under way, and evaluate iterates over the live *)
(* list of its point.                                                      *)
(***************************************************************************)
EXTENDS AuditTrail

CONSTANTS
    PolicySets,     \* the attachments of the runners that share the pipeline
    MaxAttached     \* bound: evaluators attached in all

ASSUME RunnerAssumption ==
    /\ Points = {"PRE_INPUT", "PRE_TOOL", "PRE_OUTPUT"}
    /\ PolicySets \subseteq SUBSET Points
    /\ MaxAttached \in Nat

VARIABLES
    evaluators,     \* the names attached at each point, in order
    calls           \* each call of run or authorize_tool

vars == <<trailVars, evaluators, calls>>

\* pc: a call is idle, checking (it awaits an evaluator), in its agent, or over:
\* permitted, denied, or lost to an exception.  next: the evaluator it awaits.
\* witnesses (history): the observers that were attached when it began.
PCs == {"idle", "checking", "agent", "permitted", "denied", "raised"}
Call == [kind : {"run", "tool"}, pc : PCs, attachments : SUBSET Points,
         point : Points, next : Nat, witnesses : SUBSET Observers]

RunnerTypeOK ==
    /\ TrailTypeOK
    /\ evaluators \in [Points -> Seq(Policies)]
    /\ calls \in [Calls -> Call]
    /\ \A c \in Calls : calls[c].pc = "checking" =>
           calls[c].next \in 1 .. Len(evaluators[calls[c].point])

Init ==
    /\ TrailInit
    /\ evaluators = [p \in Points |-> <<>>]
    /\ calls = [c \in Calls |-> [kind |-> "run", pc |-> "idle", attachments |-> {},
                                 point |-> "PRE_INPUT", next |-> 0, witnesses |-> {}]]

-----------------------------------------------------------------------------
(* Configuration                                                            *)

AttachedInAll ==
    Len(evaluators["PRE_INPUT"]) + Len(evaluators["PRE_TOOL"]) + Len(evaluators["PRE_OUTPUT"])

\* attach.
Attach(p, policy) ==
    /\ AttachedInAll < MaxAttached
    /\ evaluators' = [evaluators EXCEPT ![p] = Append(@, policy)]
    /\ UNCHANGED <<trailVars, calls>>

Observe ==
    /\ \E o \in Observers : AttachObserver(o)
    /\ UNCHANGED <<evaluators, calls>>

-----------------------------------------------------------------------------
(* The way of a call through the points of its policy set                   *)

EventOf(call, c, policy, outcome) ==
    [call |-> c, point |-> call.point, policy |-> policy, outcome |-> outcome]

\* A point of the policy set is reached: evaluate begins, or denies by default
\* when nothing is attached there.  That denial stands whether or not it could
\* be recorded.
EnterCheck(c, call) ==
    /\ call.point \in call.attachments
    /\ \/ /\ evaluators[call.point] # <<>>
          /\ calls' = [calls EXCEPT ![c] = [call EXCEPT !.pc = "checking", !.next = 1]]
          /\ UNCHANGED trailVars
       \/ /\ evaluators[call.point] = <<>>
          /\ \E reached \in 0 .. Len(observers) :
                 Notify(EventOf(call, c, Default, "DENY"), reached)
          /\ calls' = [calls EXCEPT ![c] = [call EXCEPT !.pc = "denied", !.next = 0]]
    /\ UNCHANGED evaluators

\* A run passes a point that its policy set does not name; a tool call is denied
\* there.
SkipCheck(c, call) ==
    /\ call.point \notin call.attachments
    /\ calls' = [calls EXCEPT ![c] = [call EXCEPT !.pc =
           CASE call.point = "PRE_INPUT" -> "agent"
             [] call.point = "PRE_TOOL" -> "denied"
             [] call.point = "PRE_OUTPUT" -> "permitted"]]
    /\ UNCHANGED <<trailVars, evaluators>>

Begun(kind, attachments) ==
    [kind |-> kind, pc |-> "checking", attachments |-> attachments,
     point |-> IF kind = "run" THEN "PRE_INPUT" ELSE "PRE_TOOL",
     next |-> 0, witnesses |-> Attached]

\* run or authorize_tool, up to its first await.
Begin(c, kind, attachments) ==
    /\ calls[c].pc = "idle"
    /\ \/ EnterCheck(c, Begun(kind, attachments))
       \/ SkipCheck(c, Begun(kind, attachments))

\* The context is another agent's: denied, and nothing is evaluated.
RefuseIdentity(c, kind, attachments) ==
    /\ calls[c].pc = "idle"
    /\ calls' = [calls EXCEPT ![c] = [Begun(kind, attachments) EXCEPT !.pc = "denied"]]
    /\ UNCHANGED <<trailVars, evaluators>>

\* agent.run returns its output.
AgentReturns(c) ==
    LET call == [calls[c] EXCEPT !.point = "PRE_OUTPUT"]
    IN  /\ calls[c].pc = "agent"
        /\ \/ EnterCheck(c, call)
           \/ SkipCheck(c, call)

\* agent.run raises, or the caller's task is cancelled at an await: neither is
\* caught, and nothing is recorded.
Abandon(c) ==
    /\ calls[c].pc \in {"checking", "agent"}
    /\ calls' = [calls EXCEPT ![c].pc = "raised", ![c].next = 0]
    /\ UNCHANGED <<trailVars, evaluators>>

-----------------------------------------------------------------------------
(* The answers of the awaited evaluator                                     *)

Awaited(c) == evaluators[calls[c].point][calls[c].next]

\* Where a call goes when every evaluator of its point has permitted.
Cleared(c) == IF calls[c].point = "PRE_INPUT" THEN "agent" ELSE "permitted"

Settle(c, pc) == calls' = [calls EXCEPT ![c].pc = pc, ![c].next = 0]

\* Mutant: a permission that could not be recorded counts all the same.
PermitUnrecorded(c) ==
    /\ calls[c].pc = "checking"
    /\ \E reached \in 0 .. Len(observers) :
           Notify(EventOf(calls[c], c, Awaited(c), "ALLOW"), reached)
    /\ IF calls[c].next < Len(evaluators[calls[c].point])
       THEN calls' = [calls EXCEPT ![c].next = @ + 1]
       ELSE Settle(c, Cleared(c))
    /\ UNCHANGED evaluators

\* Mutant: the end of the list is missed by one.
PermitPastEnd(c) ==
    /\ calls[c].pc = "checking"
    /\ \E reached \in 0 .. Len(observers) :
        /\ Notify(EventOf(calls[c], c, Awaited(c), "ALLOW"), reached)
        /\ IF reached < Len(observers) THEN Settle(c, "denied")
           ELSE IF calls[c].next <= Len(evaluators[calls[c].point])
                THEN calls' = [calls EXCEPT ![c].next = @ + 1]
                ELSE Settle(c, Cleared(c))
    /\ UNCHANGED evaluators

\* Mutant: one evaluator's permission is enough.
PermitAtOnce(c) ==
    /\ calls[c].pc = "checking"
    /\ \E reached \in 0 .. Len(observers) :
        /\ Notify(EventOf(calls[c], c, Awaited(c), "ALLOW"), reached)
        /\ Settle(c, IF reached = Len(observers) THEN Cleared(c) ELSE "denied")
    /\ UNCHANGED evaluators

\* The evaluator permits: on to the next evaluator of the point, if there is one
\* by now, provided that every observer recorded the permission.
Permit(c) ==
    /\ calls[c].pc = "checking"
    /\ \E reached \in 0 .. Len(observers) :
        /\ Notify(EventOf(calls[c], c, Awaited(c), "ALLOW"), reached)
        /\ IF reached < Len(observers) THEN Settle(c, "denied")
           ELSE IF calls[c].next < Len(evaluators[calls[c].point])
                THEN calls' = [calls EXCEPT ![c].next = @ + 1]
                ELSE Settle(c, Cleared(c))
    /\ UNCHANGED evaluators

\* Mutant: the remaining evaluators are asked after a denial.
DenyAndGoOn(c) ==
    /\ calls[c].pc = "checking"
    /\ \E reached \in 0 .. Len(observers) :
           Notify(EventOf(calls[c], c, Awaited(c), "DENY"), reached)
    /\ IF calls[c].next < Len(evaluators[calls[c].point])
       THEN calls' = [calls EXCEPT ![c].next = @ + 1]
       ELSE Settle(c, "denied")
    /\ UNCHANGED evaluators

\* The evaluator denies: that is the answer, recorded or not.
Deny(c) ==
    /\ calls[c].pc = "checking"
    /\ \E reached \in 0 .. Len(observers) :
           Notify(EventOf(calls[c], c, Awaited(c), "DENY"), reached)
    /\ Settle(c, "denied")
    /\ UNCHANGED evaluators

\* Mutant: a timeout is only set for the first evaluator of a point.
FailFirst(c) ==
    /\ calls[c].pc = "checking"
    /\ calls[c].next = 1
    /\ \E reached \in 0 .. Len(observers) :
           Notify(EventOf(calls[c], c, Awaited(c), "ERROR"), reached)
    /\ Settle(c, "denied")
    /\ UNCHANGED evaluators

\* The evaluator raises or exceeds its timeout: denied, recorded or not.
Fail(c) ==
    /\ calls[c].pc = "checking"
    /\ \E reached \in 0 .. Len(observers) :
           Notify(EventOf(calls[c], c, Awaited(c), "ERROR"), reached)
    /\ Settle(c, "denied")
    /\ UNCHANGED evaluators

-----------------------------------------------------------------------------
Next ==
    \/ \E p \in Points, policy \in Policies : Attach(p, policy)
    \/ Observe
    \/ \E c \in Calls :
        \/ \E kind \in {"run", "tool"}, attachments \in PolicySets :
               Begin(c, kind, attachments) \/ RefuseIdentity(c, kind, attachments)
        \/ AgentReturns(c) \/ Abandon(c)
        \/ Permit(c) \/ Deny(c) \/ Fail(c)

Spec == Init /\ [][Next]_vars

\* asyncio.wait_for ends the wait for every evaluator.  Nothing makes an
\* evaluator answer, or bounds the time an agent takes.
FairSpec == Spec /\ \A c \in Calls : WF_vars(Fail(c))

-----------------------------------------------------------------------------
(* Properties                                                               *)

\* "Run evaluators sequentially and stop immediately on denial" (the pipeline's
\* docstring): in every store, a denial or an error is the last record of its
\* call, and the call was denied, whatever ran or was attached in between.
DenialIsFinal ==
    \A o \in Observers : \A i \in DOMAIN evidence[o] :
        evidence[o][i].outcome # "ALLOW" =>
            /\ calls[evidence[o][i].call].pc = "denied"
            /\ \A j \in DOMAIN evidence[o] :
                   j > i => evidence[o][j].call # evidence[o][i].call

\* The agent of a run has begun, and perhaps returned.
AgentRan(call) ==
    \/ call.pc = "agent"
    \/ call.kind = "run" /\ call.pc = "permitted"
    \/ call.pc = "checking" /\ call.point = "PRE_OUTPUT"

\* The points at which a call had to be permitted to be where it is.
PassedPoints(call) ==
    {p \in Points :
        \/ p = "PRE_INPUT" /\ p \in call.attachments /\ AgentRan(call)
        \/ p = "PRE_OUTPUT" /\ p \in call.attachments /\ call.kind = "run" /\ call.pc = "permitted"
        \/ p = "PRE_TOOL" /\ call.kind = "tool" /\ call.pc = "permitted"}

\* The permission of a call at a point is on record.
Recorded(o, c, p) ==
    \E i \in DOMAIN evidence[o] :
        evidence[o][i].call = c /\ evidence[o][i].point = p /\ evidence[o][i].outcome = "ALLOW"

\* No tool is authorized, no agent runs and no output is released without
\* evidence: every store that was observing when the call began holds a
\* permission at each point that the call had to pass.
ReleaseHasEvidence ==
    \A c \in Calls : \A p \in PassedPoints(calls[c]), o \in calls[c].witnesses :
        Recorded(o, c, p)

\* A call passes a point in the step that takes it out of the check unscathed.
Passes(c) ==
    /\ calls[c].pc = "checking"
    /\ calls'[c].pc \in {"agent", "permitted"}

\* What a store holds of a call's permissions at a point is one record for each
\* of the first n names, and they are recorded in that order.
PermissionsInOrder(trail, c, p, names, n) ==
    LET allowed == {i \in DOMAIN trail :
                       trail[i].call = c /\ trail[i].point = p /\ trail[i].outcome = "ALLOW"}
    IN  \E at \in [1 .. n -> allowed] :
            /\ \A k \in 1 .. n : trail[at[k]].policy = names[k]
            /\ \A k, m \in 1 .. n : k < m => at[k] < at[m]
            /\ \A i \in allowed : \E k \in 1 .. n : at[k] = i

\* A call passes a point only when every evaluator attached there by then,
\* those attached during the check included, has permitted it, in the order of
\* attachment, and each permission is in every store that observes the call.
PassedInOrder ==
    [][\A c \in Calls : Passes(c) =>
        \A o \in calls[c].witnesses :
            LET names == evaluators[calls[c].point]
            IN  PermissionsInOrder(evidence'[o], c, calls[c].point, names, Len(names))]_vars

\* A check ends, whatever its evaluators do and however many are attached
\* meanwhile: a hanging evaluator is timed out.
ChecksEnd == \A c \in Calls : (calls[c].pc = "checking") ~> (calls[c].pc # "checking")

\* FailureAnalyzer "separates intentional policy denials from runtime failures"
\* (docs/CHAPTER-7.md): a denied call is never classified as one whose controls
\* all allowed it.
DenialIsClassified ==
    \A o \in Observers, c \in Calls :
        calls[c].pc = "denied" => Classification(o, c) # "control_path_allowed"

-----------------------------------------------------------------------------
(* The inductive invariant of the safety properties                         *)

\* A call is at a point of its own kind, and awaits evaluators only at a point
\* of its policy set; only runs have an agent.
CallsAtTheirPoints ==
    \A c \in Calls :
        /\ calls[c].pc = "agent" => calls[c].kind = "run"
        /\ calls[c].pc = "checking" =>
               /\ calls[c].point \in calls[c].attachments
               /\ calls[c].kind = "tool" <=> calls[c].point = "PRE_TOOL"

\* Observers are never detached.
WitnessesStay == \A c \in Calls : calls[c].witnesses \subseteq Attached

RunnerIInv ==
    /\ RunnerTypeOK
    /\ CallsAtTheirPoints
    /\ WitnessesStay
    /\ DenialIsFinal
    /\ ReleaseHasEvidence

\* A call has records only since it began, and of its output only since its
\* agent returned; an agent runs between the two points of a run.
RecordsOnTheWay ==
    /\ \A o \in Observers : \A i \in DOMAIN evidence[o] :
           LET call == calls[evidence[o][i].call]
           IN  /\ call.pc # "idle"
               /\ evidence[o][i].point = "PRE_OUTPUT" => call.point = "PRE_OUTPUT"
    /\ \A c \in Calls : calls[c].pc = "agent" => calls[c].point = "PRE_INPUT"

\* A call that awaits an evaluator has the permissions of all before it.
ProgressInOrder ==
    \A c \in Calls : calls[c].pc = "checking" =>
        \A o \in calls[c].witnesses :
            PermissionsInOrder(evidence[o], c, calls[c].point, evaluators[calls[c].point],
                               calls[c].next - 1)

\* The inductive invariant of the action property.
OrderIInv ==
    /\ RunnerIInv
    /\ RecordsOnTheWay
    /\ ProgressInOrder
=============================================================================
