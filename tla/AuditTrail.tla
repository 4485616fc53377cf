----------------------------- MODULE AuditTrail -----------------------------
(***************************************************************************)
(* The evidence of the pipeline: EvaluationPipeline._notify                *)
(* (python/governance/pipeline.py) with the PipelineAuditObserver and      *)
(* InMemoryAuditStore behind each observer, and what FailureAnalyzer reads *)
(* out of a store (python/governance/audit.py).                            *)
(*                                                                         *)
(* An observer may raise (a store refuses an identifier, or its clock      *)
(* fails): the observers before it have recorded the event, it and those   *)
(* after it have not.                                                      *)
(***************************************************************************)
EXTENDS Sequences, Naturals

CONSTANTS
    Calls,      \* calls of the runner, each with a correlation id of its own
    Observers,
    Points,     \* PolicyAttachmentPoint
    Policies,   \* the names under which evaluators are attached
    Default     \* "default-deny"

ASSUME TrailAssumption == Default \notin Policies

VARIABLES
    observers,  \* the attached observers, in order
    evidence    \* the records of the store behind each observer

trailVars == <<observers, evidence>>

Outcomes == {"ALLOW", "DENY", "ERROR"}
Event == [call : Calls, point : Points, policy : Policies \cup {Default}, outcome : Outcomes]

TrailTypeOK ==
    /\ observers \in Seq(Observers)
    /\ evidence \in [Observers -> Seq(Event)]

TrailInit ==
    /\ observers = <<>>
    /\ evidence = [o \in Observers |-> <<>>]

Attached == {observers[i] : i \in 1 .. Len(observers)}

\* attach_observer: an observer that wraps a store of its own.
AttachObserver(o) ==
    /\ o \notin Attached
    /\ observers' = Append(observers, o)
    /\ UNCHANGED evidence

\* _notify: the first `reached` observers record the event.
Notify(event, reached) ==
    LET Recorded == {observers[i] : i \in 1 .. reached}
    IN  /\ evidence' = [o \in Observers |-> IF o \in Recorded
                                            THEN Append(evidence[o], event)
                                            ELSE evidence[o]]
        /\ UNCHANGED observers

\* reconstruct_timeline, as the set of what it finds: the outcomes of a call.
TimelineOutcomes(o, c) ==
    {evidence[o][i].outcome : i \in {j \in DOMAIN evidence[o] : evidence[o][j].call = c}}

\* classify.
Classification(o, c) ==
    LET outcomes == TimelineOutcomes(o, c)
    IN  CASE outcomes = {} -> "unknown"
          [] "ERROR" \in outcomes -> "runtime_exception"
          [] "DENY" \in outcomes /\ "ERROR" \notin outcomes -> "policy_denial"
          [] outcomes = {"ALLOW"} -> "control_path_allowed"
=============================================================================
