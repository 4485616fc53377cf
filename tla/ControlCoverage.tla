--------------------------- MODULE ControlCoverage ---------------------------
(***************************************************************************)
(* The gap analysis: what the declared evidence and the attached points of *)
(* a pipeline say of ten risks (python/governance/coverage.py), the        *)
(* declared evidence (control_evidence.py), and the exit code of the audit *)
(* (python/control_audit.py).  The analysis is a function of its           *)
(* arguments; what changes is the evidence, as it is maintained, and the   *)
(* pipeline, as evaluators are attached to it.                             *)
(***************************************************************************)
EXTENDS SecureCodingPolicySet

CONSTANTS
    EvidenceBases,  \* the evidence that is declared to begin with
    Unbound,        \* no attachment point
    MaxChanges      \* bound: changes of the evidence

Need(capability, layer, point) == [capability |-> capability, layer |-> layer, point |-> point]

Coverage(primary, addressable, needs) ==
    [primary |-> primary, addressable |-> addressable, needs |-> needs]

\* ControlCoverageMatrix.
Matrix == [
    T1 |-> Coverage("data", FALSE, {
        Need("memory_write_integrity", "data", Unbound),
        Need("memory_provenance", "data", Unbound)}),
    T2 |-> Coverage("runtime", TRUE, {
        Need("tool_allowlist", "runtime", "PRE_TOOL"),
        Need("inventory_scope_authorization", "runtime", "PRE_TOOL"),
        Need("risk_based_ring_routing", "runtime", "PRE_TOOL")}),
    T3 |-> Coverage("runtime", TRUE, {
        Need("least_privilege_tool_scopes", "runtime", "PRE_TOOL"),
        Need("agent_policy_identity_binding", "identity", "PRE_TOOL"),
        Need("verified_workload_identity", "identity", Unbound)}),
    T4 |-> Coverage("infrastructure", TRUE, {
        Need("worker_timeout", "runtime", "PRE_TOOL"),
        Need("payload_output_bounds", "runtime", "PRE_TOOL"),
        Need("worker_concurrency_limit", "infrastructure", "PRE_TOOL"),
        Need("policy_latency_budget", "runtime", "PRE_TOOL"),
        Need("component_readiness", "infrastructure", Unbound),
        Need("agent_request_budget", "runtime", "PRE_INPUT"),
        Need("kill_switch", "infrastructure", Unbound)}),
    T5 |-> Coverage("human_process", FALSE, {
        Need("multi_agent_human_review", "human_process", Unbound),
        Need("independent_output_verification", "human_process", Unbound)}),
    T6 |-> Coverage("runtime", TRUE, {
        Need("preinput_goal_policy", "runtime", "PRE_INPUT"),
        Need("adversarial_semantic_detection", "runtime", "PRE_INPUT")}),
    T7 |-> Coverage("framework", FALSE, {
        Need("model_alignment_evaluation", "framework", Unbound),
        Need("independent_red_team", "human_process", Unbound)}),
    T8 |-> Coverage("runtime", TRUE, {
        Need("correlation_id_propagation", "runtime", "PRE_INPUT"),
        Need("structured_policy_audit", "runtime", "PRE_INPUT"),
        Need("local_audit_integrity_chain", "runtime", "PRE_INPUT"),
        Need("persistent_audit_log", "infrastructure", Unbound),
        Need("tamper_evident_evidence", "infrastructure", Unbound)}),
    T9 |-> Coverage("identity", TRUE, {
        Need("agent_policy_identity_binding", "identity", "PRE_INPUT"),
        Need("verified_workload_identity", "identity", Unbound),
        Need("tool_inventory_identity_check", "identity", "PRE_TOOL")}),
    T10 |-> Coverage("human_process", FALSE, {
        Need("approval_risk_tiers", "human_process", Unbound),
        Need("approval_queue_throttling", "human_process", Unbound)})]

Risks == DOMAIN Matrix
Needs == UNION {Matrix[risk].needs : risk \in Risks}

\* ControlEvidence.
Evidence == [capability : {need.capability : need \in Needs},
             layer : {need.layer : need \in Needs},
             point : Points \cup {Unbound}, implemented : BOOLEAN, tested : BOOLEAN]

\* Implemented and tested controls at one layer and point.
Tested(capabilities, layer, point) ==
    {[capability |-> c, layer |-> layer, point |-> point,
      implemented |-> TRUE, tested |-> TRUE] : c \in capabilities}

\* secure_coding_control_evidence.
LabEvidence == UNION {
    Tested({"tool_allowlist", "inventory_scope_authorization", "risk_based_ring_routing",
            "least_privilege_tool_scopes", "worker_timeout", "payload_output_bounds",
            "policy_latency_budget"}, "runtime", "PRE_TOOL"),
    Tested({"agent_policy_identity_binding", "tool_inventory_identity_check"},
           "identity", "PRE_TOOL"),
    Tested({"agent_policy_identity_binding"}, "identity", "PRE_INPUT"),
    Tested({"worker_concurrency_limit"}, "infrastructure", "PRE_TOOL"),
    Tested({"component_readiness"}, "infrastructure", Unbound),
    Tested({"preinput_goal_policy", "correlation_id_propagation", "structured_policy_audit",
            "local_audit_integrity_chain"}, "runtime", "PRE_INPUT")}

ASSUME CoverageAssumption ==
    /\ \A base \in EvidenceBases : base \subseteq Evidence
    /\ Unbound \notin Points
    /\ MaxChanges \in Nat

VARIABLES
    base,       \* the evidence that was declared to begin with
    evidence,
    attached,   \* the pipeline's attachment_points
    changes     \* changes of the evidence so far

coverageVars == <<base, evidence, attached, changes>>

CoverageTypeOK ==
    /\ base \in EvidenceBases /\ evidence \subseteq Evidence
    /\ attached \subseteq Points /\ changes \in 0 .. MaxChanges

CoverageInit ==
    /\ base \in EvidenceBases
    /\ evidence = base
    /\ attached = {}
    /\ changes = 0

Attach(point) ==
    /\ point \notin attached
    /\ attached' = attached \cup {point}
    /\ UNCHANGED <<base, evidence, changes>>

\* An item is withdrawn, loses its test, or is put at another point.
Change(item) ==
    /\ changes < MaxChanges
    /\ changes' = changes + 1
    /\ \/ evidence' = evidence \ {item}
       \/ evidence' = (evidence \ {item}) \cup {[item EXCEPT !.tested = FALSE]}
       \/ \E point \in Points :
              evidence' = (evidence \ {item}) \cup {[item EXCEPT !.point = point]}
    /\ UNCHANGED <<base, attached>>

CoverageNext ==
    \/ \E point \in Points : Attach(point)
    \/ \E item \in evidence : Change(item)

CoverageSpec == CoverageInit /\ [][CoverageNext]_coverageVars

-----------------------------------------------------------------------------
(* OwaspGapAnalyzer.analyze                                                 *)

\* Mutant: evidence counts wherever its point is.
SatisfiedAnywhere(need, items, points) ==
    \E item \in items :
        /\ item.capability = need.capability
        /\ item.implemented /\ item.tested
        /\ item.layer = need.layer

Satisfied(need, items, points) ==
    \E item \in items :
        /\ item.capability = need.capability
        /\ item.implemented /\ item.tested
        /\ item.layer = need.layer
        /\ need.point = Unbound \/ (need.point = item.point /\ need.point \in points)

Missing(risk, items, points) ==
    {need \in Matrix[risk].needs : ~Satisfied(need, items, points)}

Status(risk, items, points) ==
    CASE ~Matrix[risk].addressable -> "external_required"
      [] Matrix[risk].addressable /\ Missing(risk, items, points) = {} -> "verified"
      [] Matrix[risk].addressable /\ Missing(risk, items, points) = Matrix[risk].needs -> "missing"
      [] OTHER -> "partial"

\* Mutant: the identity layer blocks nothing.
BlockingLayersWithoutIdentity == {"runtime", "infrastructure"}

BlockingLayers == {"runtime", "identity", "infrastructure"}

\* deployment_blocking_runtime_gaps.
BlockingGaps(items, points) ==
    {risk \in Risks : Status(risk, items, points) = "missing"
                          /\ Matrix[risk].primary \in BlockingLayers}

\* control_audit.main, with and without --fail-on-partial.
ExitCode(strict, items, points) ==
    IF BlockingGaps(items, points) # {} THEN 1
    ELSE IF strict /\ \E risk \in Risks : Status(risk, items, points) = "partial" THEN 2
    ELSE 0

\* validate_policy_annotations finds no error.
AnnotationsPlaced(ruleSet) ==
    \A annotation \in ruleSet.annotations :
        /\ annotation.risk \in Risks
        /\ Matrix[annotation.risk].addressable
        /\ \E need \in Matrix[annotation.risk].needs :
               /\ need.capability = annotation.capability
               /\ need.point \in {Unbound, ruleSet.point}

-----------------------------------------------------------------------------
(* Properties                                                               *)

\* What docs/CHAPTER-5.md says of the lab.
Documented == [T1 |-> "external_required", T2 |-> "verified", T3 |-> "partial",
               T4 |-> "partial", T5 |-> "external_required", T6 |-> "partial",
               T7 |-> "external_required", T8 |-> "partial", T9 |-> "partial",
               T10 |-> "external_required"]

Rank == [external_required |-> 0, missing |-> 0, partial |-> 1, verified |-> 2]

\* "Every coverage claim requires an implemented and tested capability at the
\* correct layer and attachment point" (docs/CHAPTER-5.md): the lab earns the
\* ratings that its documents claim, and no better ones however its evidence is
\* withdrawn, moved, or loses its tests; what is not tested counts for nothing;
\* and a risk whose points have no evaluator has no verified control.
HonestReport ==
    /\ \A risk \in Risks :
        LET rating == Status(risk, evidence, attached) IN
        /\ evidence = LabEvidence /\ attached = Points => rating = Documented[risk]
        /\ base = LabEvidence => Rank[rating] <= Rank[Documented[risk]]
        /\ rating = Status(risk, {item \in evidence : item.tested}, attached)
        /\ (\A need \in Matrix[risk].needs : need.point \in Points \ attached)
               => Rank[rating] = 0
    /\ \A ruleSet \in LabRuleSets : AnnotationsPlaced(ruleSet)

\* An audit that exits with 0 has told the truth: without --fail-on-partial every
\* risk that runtime controls can address has a verified control, with it every
\* one of them is verified, whatever its primary layer; and the audit exits
\* with another code only if that is not so.
ExitCodeIsEarned ==
    LET addressable == {risk \in Risks : Matrix[risk].addressable} IN
    /\ ExitCode(FALSE, evidence, attached) = 0 <=>
           \A risk \in addressable : Missing(risk, evidence, attached) # Matrix[risk].needs
    /\ ExitCode(TRUE, evidence, attached) = 0 <=>
           \A risk \in addressable : Missing(risk, evidence, attached) = {}
=============================================================================
