------------------------- MODULE LabPolicies_proofs -------------------------
(***************************************************************************)
(* What the parts that decide by rules and tables promise: registration    *)
(* and evaluation, for any rule sets, texts, patterns and payloads; the    *)
(* versioned pipeline, for any inventories and claims; and the gap         *)
(* analysis, for any evidence.                                             *)
(***************************************************************************)
EXTENDS VersionedPipeline, ControlCoverage, WellFoundedInduction, SequenceTheorems, TLAPS

-----------------------------------------------------------------------------
(* PolicyEngine                                                             *)

\* Only valid rule sets are registered.
EngineIInv == EngineTypeOK /\ \A ruleSet \in store : Valid(ruleSet)

\* The registry is empty initially.
LEMMA InitEngineIInv == EngineInit => EngineIInv
  BY DEF EngineInit, EngineIInv, EngineTypeOK

\* register adds what it has validated.
LEMMA NextEngineIInv == EngineIInv /\ [EngineNext]_store => EngineIInv'
<1> SUFFICES ASSUME EngineIInv, [EngineNext]_store PROVE EngineIInv'
  OBVIOUS
<1>1. ASSUME NEW ruleSet \in RuleSets, Register(ruleSet) PROVE EngineIInv'
  BY <1>1 DEF Register, EngineIInv, EngineTypeOK
<1>2. CASE UNCHANGED store
  BY <1>2 DEF EngineIInv, EngineTypeOK
<1> QED
  BY <1>1, <1>2 DEF EngineNext

\* The registry holds valid rule sets at all times.
THEOREM EngineInvariantHolds == EngineSpec => []EngineIInv
  BY InitEngineIInv, NextEngineIInv, PTL DEF EngineSpec

\* The registry holds rule sets that were offered, and nothing else.
THEOREM EngineTypeCorrect == EngineSpec => []EngineTypeOK
<1>1. EngineIInv => EngineTypeOK
  BY DEF EngineIInv
<1> QED
  BY <1>1, EngineInvariantHolds, PTL

-----------------------------------------------------------------------------
\* A set of numbers that is not empty has a least element.
LEMMA LeastNumber ==
    ASSUME NEW S, S \subseteq Nat, S # {}
    PROVE  \E n \in S : \A m \in S : n <= m
<1>1. PICK n \in S : \A m \in S : ~(<<m, n>> \in OpToRel(<, Nat))
  BY NatLessThanWellFounded, WFMin
<1>2. \A m \in S : ~(m < n)
  BY <1>1 DEF OpToRel
<1> QED
  BY <1>2

\* What a registered rule set is made of.
LEMMA RuleSetFacts ==
    ASSUME NEW ruleSet \in RuleSets
    PROVE  LET rules == ruleSet.rules IN
           /\ ruleSet \in PolicyRuleSet
           /\ rules \in Seq(PolicyRule)
           /\ DOMAIN rules \subseteq Nat
           /\ \A i \in DOMAIN rules : rules[i].priority \in Nat
<1>1. ruleSet \in PolicyRuleSet
  BY OffersAssumption
<1>2. ruleSet.rules \in Seq(PolicyRule)
  BY <1>1 DEF PolicyRuleSet
<1>3. DOMAIN ruleSet.rules \subseteq Nat
  BY <1>2
<1>4. ASSUME NEW i \in DOMAIN ruleSet.rules PROVE ruleSet.rules[i].priority \in Nat
  <2>1. ruleSet.rules[i] \in PolicyRule
    BY <1>2
  <2> QED
    BY <2>1 DEF PolicyRule
<1> QED
  BY <1>1, <1>2, <1>3, <1>4

\* The rule with the lowest number among distinct ones is the first.
LEMMA FirstIsLeast ==
    ASSUME NEW rules, DOMAIN rules \subseteq Nat,
           \A i \in DOMAIN rules : rules[i].priority \in Nat,
           \A i, j \in DOMAIN rules : i # j => rules[i].priority # rules[j].priority,
           NEW found, found \subseteq DOMAIN rules, found # {}
    PROVE  /\ First(rules, found) \in found
           /\ \A j \in found \ {First(rules, found)} :
                  rules[First(rules, found)].priority < rules[j].priority
<1> DEFINE priorities == {rules[i].priority : i \in found}
<1>1. priorities \subseteq Nat /\ priorities # {}
  OBVIOUS
<1>2. PICK least \in priorities : \A m \in priorities : least <= m
  BY <1>1, LeastNumber
<1>3. PICK k \in found : rules[k].priority = least
  BY <1>2
<1>4. \A j \in found : j = k \/ rules[k].priority < rules[j].priority
  BY <1>2, <1>3
<1>5. \A j \in found : j = k \/ Precedes(rules, k, j)
  BY <1>4 DEF Precedes
<1>6. \E i \in found : \A j \in found : j = i \/ Precedes(rules, i, j)
  BY <1>5
<1> DEFINE first == First(rules, found)
<1>7. first \in found /\ \A j \in found : j = first \/ Precedes(rules, first, j)
  BY <1>6 DEF First
<1> HIDE DEF first
<1>8. \A j \in found \ {first} : rules[first].priority < rules[j].priority
  BY <1>7 DEF Precedes
<1> QED
  BY <1>7, <1>8 DEF first

\* The facts of a registered rule set that the two theorems rest on.
LEMMA RegisteredFacts ==
    ASSUME EngineIInv, NEW ruleSet \in store
    PROVE  LET rules == ruleSet.rules IN
           /\ ruleSet \in PolicyRuleSet
           /\ DOMAIN rules \subseteq Nat
           /\ \A i \in DOMAIN rules : rules[i].priority \in Nat
           /\ \A i, j \in DOMAIN rules : i # j => rules[i].priority # rules[j].priority
           /\ \E i \in DOMAIN rules : rules[i].kind = "match_all"
<1>1. ruleSet \in RuleSets /\ Valid(ruleSet)
  BY DEF EngineIInv, EngineTypeOK
<1> QED
  BY <1>1, RuleSetFacts DEF Valid

-----------------------------------------------------------------------------
\* In a valid rule set the deciding rule is the same whatever the order.
LEMMA OrderDoesNotMatter == EngineIInv => OrderIrrelevant
<1> SUFFICES ASSUME EngineIInv, NEW ruleSet \in store, NEW context \in Contexts,
                    NEW listed \in Reorderings(ruleSet.rules)
             PROVE  Evaluate([ruleSet EXCEPT !.rules = listed], context)
                        = Evaluate(ruleSet, context)
  BY DEF OrderIrrelevant
<1> DEFINE rules == ruleSet.rules
<1> DEFINE found == Stops(rules, context)
<1> DEFINE again == Stops(listed, context)
<1>1. PICK p \in [DOMAIN rules -> DOMAIN rules] :
          /\ \A j \in DOMAIN rules :
                 \E i \in DOMAIN rules : \A k \in DOMAIN rules : p[k] = j <=> k = i
          /\ listed = [i \in DOMAIN rules |-> rules[p[i]]]
  BY DEF Reorderings
<1>2. DOMAIN listed = DOMAIN rules /\ \A i \in DOMAIN rules : listed[i] = rules[p[i]]
  BY <1>1
<1>3. \A i \in DOMAIN rules : i \in again <=> p[i] \in found
  BY <1>1, <1>2 DEF Stops
<1>4. found \subseteq DOMAIN rules /\ again \subseteq DOMAIN rules
  BY <1>2 DEF Stops
<1>5. again = {} <=> found = {}
  <2>1. ASSUME NEW i \in again PROVE found # {}
    BY <1>3, <1>4
  <2>2. ASSUME NEW j \in found PROVE again # {}
    <3>1. PICK i \in DOMAIN rules : p[i] = j
      BY <1>1, <1>4
    <3> QED
      BY <1>3, <3>1
  <2> QED
    BY <2>1, <2>2
<1>6. /\ ruleSet.point = [ruleSet EXCEPT !.rules = listed].point
      /\ [ruleSet EXCEPT !.rules = listed].rules = listed
  BY RegisteredFacts DEF PolicyRuleSet
<1>7. CASE found = {}
  BY <1>5, <1>6, <1>7 DEF Evaluate
<1>8. CASE found # {}
  <2> DEFINE a == First(rules, found)
  <2> DEFINE b == First(listed, again)
  <2>1. a \in found /\ \A j \in found \ {a} : rules[a].priority < rules[j].priority
    <3> HIDE DEF found
    <3> QED
      BY <1>4, <1>8, RegisteredFacts, FirstIsLeast
  <2>2. b \in again /\ \A j \in again \ {b} : listed[b].priority < listed[j].priority
    <3>1. \A i \in DOMAIN listed : listed[i].priority \in Nat
      BY <1>2, RegisteredFacts
    <3>2. \A i, j \in DOMAIN listed : i # j => listed[i].priority # listed[j].priority
      <4> SUFFICES ASSUME NEW i \in DOMAIN rules, NEW j \in DOMAIN rules, i # j
                   PROVE  listed[i].priority # listed[j].priority
        BY <1>2
      <4>1. p[i] # p[j]
        BY <1>1
      <4> QED
        BY <1>2, <4>1, RegisteredFacts
    <3>3. DOMAIN listed \subseteq Nat
      BY <1>2, RegisteredFacts
    <3> HIDE DEF found, again
    <3> QED
      BY <1>2, <1>4, <1>5, <1>8, <3>1, <3>2, <3>3, FirstIsLeast
  <2>3. p[b] \in found
    BY <1>3, <1>4, <2>2
  <2>4. PICK k \in DOMAIN rules : p[k] = a
    BY <1>1, <1>4, <2>1
  <2>5. k \in again /\ listed[k] = rules[a] /\ listed[b] = rules[p[b]]
    BY <1>2, <1>3, <1>4, <2>1, <2>2, <2>4
  <2>6. p[b] = a
    <3> HIDE DEF a, b, found, again
    <3>1. SUFFICES ASSUME p[b] # a PROVE FALSE
      OBVIOUS
    <3>2. rules[a].priority < rules[p[b]].priority
      BY <2>1, <2>3, <3>1
    <3>3. k # b
      BY <2>4, <3>1
    <3>4. rules[p[b]].priority < rules[a].priority
      BY <2>2, <2>5, <3>3
    <3>5. rules[a].priority \in Nat /\ rules[p[b]].priority \in Nat
      BY <1>4, <2>1, <2>3, RegisteredFacts
    <3> QED
      BY <3>2, <3>4, <3>5
  <2>7. listed[b] = rules[a]
    BY <2>5, <2>6
  <2> QED
    BY <1>5, <1>6, <1>8, <2>7 DEF Evaluate
<1> QED
  BY <1>7, <1>8

\* Which rule decides does not depend on the order in which a set lists them.
THEOREM OrderIsIrrelevant == EngineSpec => []OrderIrrelevant
  BY OrderDoesNotMatter, EngineInvariantHolds, PTL

-----------------------------------------------------------------------------
\* The first rule that has something to say decides, and the last one always has.
LEMMA FirstRuleDecides == EngineIInv => FailsClosed
<1> SUFFICES ASSUME EngineIInv, NEW ruleSet \in store, NEW context \in Contexts
             PROVE  LET answer == Evaluate(ruleSet, context)
                        rules == ruleSet.rules
                    IN  /\ context.point = ruleSet.point => Stops(rules, context) # {}
                        /\ answer.permitted =>
                               \E i \in DOMAIN rules :
                                   /\ rules[i].name = answer.rule /\ rules[i].action = "allow"
                                   /\ \A j \in DOMAIN rules : Precedes(rules, j, i) =>
                                          ~Matches(rules[j], context) /\ ~Raises(rules[j])
  BY DEF FailsClosed
<1> DEFINE answer == Evaluate(ruleSet, context)
<1> DEFINE rules == ruleSet.rules
<1> DEFINE found == Stops(rules, context)
<1>1. found # {} /\ found \subseteq DOMAIN rules
  BY RegisteredFacts DEF Stops, Matches
<1> DEFINE first == First(rules, found)
<1>2. first \in found /\ \A j \in found \ {first} : rules[first].priority < rules[j].priority
  <2> HIDE DEF found
  <2> QED
    BY <1>1, RegisteredFacts, FirstIsLeast
<1>3. ASSUME answer.permitted
      PROVE  rules[first].name = answer.rule /\ rules[first].action = "allow"
  <2> HIDE DEF first
  <2>1. /\ context.point = ruleSet.point
        /\ ~Raises(rules[first])
        /\ answer = [permitted |-> rules[first].action = "allow", rule |-> rules[first].name]
    BY <1>1, <1>3 DEF Evaluate, Denied, first
  <2> HIDE DEF answer
  <2>2. answer.permitted = (rules[first].action = "allow")
    BY <2>1, Zenon
  <2>3. answer.rule = rules[first].name
    BY <2>1, Zenon
  <2> QED
    BY <1>3, <2>2, <2>3, Zenon
<1>4. ASSUME NEW j \in DOMAIN rules, Precedes(rules, j, first)
      PROVE  ~Matches(rules[j], context) /\ ~Raises(rules[j])
  <2>1. j \in Nat /\ first \in Nat /\ first \in DOMAIN rules
    BY <1>1, <1>2, RegisteredFacts
  <2>2. rules[j].priority \in Nat /\ rules[first].priority \in Nat
    BY <2>1, RegisteredFacts
  <2>3. j \notin found
    <3> HIDE DEF first, found
    <3> QED
      BY <1>2, <1>4, <2>1, <2>2 DEF Precedes
  <2> QED
    BY <2>3 DEF Stops
<1> QED
  BY <1>1, <1>2, <1>3, <1>4

\* Evaluation always finds a rule, and permits only what the first one allows.
THEOREM EvaluationFailsClosed == EngineSpec => []FailsClosed
  BY FirstRuleDecides, EngineInvariantHolds, PTL

-----------------------------------------------------------------------------
(***************************************************************************)
(* ControlCoverage.  Evidence is never made up: whatever is declared was   *)
(* declared to begin with, for the same capability and layer.              *)
(***************************************************************************)

CoverageIInv ==
    /\ CoverageTypeOK
    /\ \A item \in evidence : \E b \in base :
           /\ b.capability = item.capability /\ b.layer = item.layer

\* The declared evidence is there initially.
LEMMA InitCoverageIInv == CoverageInit => CoverageIInv
  BY CoverageAssumption DEF CoverageInit, CoverageIInv, CoverageTypeOK

\* No change of the evidence adds a capability.
LEMMA NextCoverageIInv == CoverageIInv /\ [CoverageNext]_coverageVars => CoverageIInv'
<1> SUFFICES ASSUME CoverageIInv, [CoverageNext]_coverageVars PROVE CoverageIInv'
  OBVIOUS
<1> USE DEF CoverageIInv, CoverageTypeOK
<1>1. ASSUME NEW point \in Points, Attach(point) PROVE CoverageIInv'
  BY <1>1 DEF Attach
<1>2. ASSUME NEW item \in evidence, Change(item) PROVE CoverageIInv'
  <2>1. changes' \in 0 .. MaxChanges /\ base' = base /\ attached' = attached
    BY <1>2, CoverageAssumption DEF Change
  <2> DEFINE untested == [item EXCEPT !.tested = FALSE]
  <2>2. /\ untested \in Evidence
        /\ untested.capability = item.capability /\ untested.layer = item.layer
    BY DEF Evidence
  <2>3. ASSUME NEW point \in Points
        PROVE  LET moved == [item EXCEPT !.point = point] IN
               /\ moved \in Evidence
               /\ moved.capability = item.capability /\ moved.layer = item.layer
    BY DEF Evidence
  <2>4. CASE evidence' = evidence \ {item}
    BY <2>1, <2>4
  <2>5. CASE evidence' = (evidence \ {item}) \cup {untested}
    <3> HIDE DEF untested
    <3> QED
      BY <2>1, <2>2, <2>5
  <2>6. ASSUME NEW point \in Points,
               evidence' = (evidence \ {item}) \cup {[item EXCEPT !.point = point]}
        PROVE  CoverageIInv'
    <3> DEFINE moved == [item EXCEPT !.point = point]
    <3>1. /\ moved \in Evidence
          /\ moved.capability = item.capability /\ moved.layer = item.layer
      BY <2>3
    <3>2. evidence' = (evidence \ {item}) \cup {moved}
      BY <2>6
    <3> HIDE DEF moved
    <3> QED
      BY <2>1, <3>1, <3>2
  <2> QED
    BY <1>2, <2>4, <2>5, <2>6 DEF Change
<1>3. CASE UNCHANGED coverageVars
  BY <1>3 DEF coverageVars
<1> QED
  BY <1>1, <1>2, <1>3 DEF CoverageNext

\* The invariant of the evidence holds at all times.
THEOREM CoverageInvariantHolds == CoverageSpec => []CoverageIInv
  BY InitCoverageIInv, NextCoverageIInv, PTL DEF CoverageSpec

-----------------------------------------------------------------------------
\* The matrix, by risk: where its primary layer is, whether controls of the
\* runtime can address it, and that it needs something.
LEMMA MatrixFacts ==
    /\ Risks = {"T1", "T2", "T3", "T4", "T5", "T6", "T7", "T8", "T9", "T10"}
    /\ \A risk \in Risks :
        /\ Matrix[risk].addressable \in BOOLEAN
        /\ Matrix[risk].addressable <=> risk \in {"T2", "T3", "T4", "T6", "T8", "T9"}
        /\ Matrix[risk].addressable => Matrix[risk].primary \in BlockingLayers
        /\ Matrix[risk].needs # {}
<1>1. Risks = {"T1", "T2", "T3", "T4", "T5", "T6", "T7", "T8", "T9", "T10"}
  BY DEF Risks, Matrix
<1>2. /\ Matrix["T2"].addressable = TRUE /\ Matrix["T2"].primary = "runtime"
      /\ Matrix["T3"].addressable = TRUE /\ Matrix["T3"].primary = "runtime"
      /\ Matrix["T4"].addressable = TRUE /\ Matrix["T4"].primary = "infrastructure"
  BY DEF Matrix, Coverage
<1>3. /\ Matrix["T6"].addressable = TRUE /\ Matrix["T6"].primary = "runtime"
      /\ Matrix["T8"].addressable = TRUE /\ Matrix["T8"].primary = "runtime"
      /\ Matrix["T9"].addressable = TRUE /\ Matrix["T9"].primary = "identity"
  BY DEF Matrix, Coverage
<1>4. /\ Matrix["T1"].addressable = FALSE /\ Matrix["T5"].addressable = FALSE
      /\ Matrix["T7"].addressable = FALSE /\ Matrix["T10"].addressable = FALSE
  BY DEF Matrix, Coverage
<1>5. /\ Matrix["T1"].needs # {} /\ Matrix["T2"].needs # {}
      /\ Matrix["T3"].needs # {} /\ Matrix["T4"].needs # {}
      /\ Matrix["T5"].needs # {} /\ Matrix["T6"].needs # {}
      /\ Matrix["T7"].needs # {} /\ Matrix["T8"].needs # {}
      /\ Matrix["T9"].needs # {} /\ Matrix["T10"].needs # {}
  BY DEF Matrix, Coverage
<1> QED
  BY <1>1, <1>2, <1>3, <1>4, <1>5 DEF BlockingLayers

\* The status of a risk, by what it misses.
LEMMA StatusFacts ==
    ASSUME NEW risk \in Risks, NEW items, NEW points
    PROVE  LET missing == Missing(risk, items, points)
               status == Status(risk, items, points)
           IN  /\ ~Matrix[risk].addressable => status = "external_required"
               /\ Matrix[risk].addressable /\ missing = {} => status = "verified"
               /\ Matrix[risk].addressable /\ missing = Matrix[risk].needs => status = "missing"
               /\ Matrix[risk].addressable /\ missing # {} /\ missing # Matrix[risk].needs
                      => status = "partial"
<1> DEFINE missing == Missing(risk, items, points)
<1>1. Matrix[risk].needs # {} /\ Matrix[risk].addressable \in BOOLEAN
  BY MatrixFacts
<1> HIDE DEF missing
<1> QED
  BY <1>1 DEF Status, missing

\* The exit code is 0 exactly when every risk that runtime controls can address
\* has a control that is verified (in the strict mode, no gap at all).
LEMMA ExitCodeFacts == ExitCodeIsEarned
<1> DEFINE addressable == {risk \in Risks : Matrix[risk].addressable}
<1> DEFINE status(risk) == Status(risk, evidence, attached)
<1> DEFINE missing(risk) == Missing(risk, evidence, attached)
<1>1. \A risk \in Risks : status(risk) = "missing"
          <=> risk \in addressable /\ missing(risk) = Matrix[risk].needs
  BY StatusFacts, MatrixFacts
<1>2. \A risk \in Risks : status(risk) = "partial"
          <=> /\ risk \in addressable /\ missing(risk) # {}
              /\ missing(risk) # Matrix[risk].needs
  BY StatusFacts, MatrixFacts
<1>3. BlockingGaps(evidence, attached) = {risk \in Risks : status(risk) = "missing"}
  BY <1>1, MatrixFacts DEF BlockingGaps
<1>4. \A risk \in Risks : Matrix[risk].needs # {}
  BY MatrixFacts
<1> HIDE DEF status, missing
<1>5. ExitCode(FALSE, evidence, attached) = 0 <=>
          \A risk \in addressable : missing(risk) # Matrix[risk].needs
  BY <1>1, <1>3 DEF ExitCode
<1>6. ExitCode(TRUE, evidence, attached) = 0 <=>
          \A risk \in addressable : missing(risk) = {}
  BY <1>1, <1>2, <1>3, <1>4 DEF ExitCode, status
<1> QED
  BY <1>5, <1>6 DEF ExitCodeIsEarned, missing

\* For any evidence and attachments, the audit exits with 0 exactly when it may.
THEOREM ExitCodesAreEarned == CoverageSpec => []ExitCodeIsEarned
  BY ExitCodeFacts, PTL

-----------------------------------------------------------------------------
\* What the lab declares, and what it declares nothing about.
Undeclared == {"verified_workload_identity", "agent_request_budget",
               "adversarial_semantic_detection", "persistent_audit_log"}

LEMMA LabEvidenceFacts ==
    /\ \A item \in LabEvidence : item.capability \notin Undeclared
    /\ Tested({"tool_allowlist", "inventory_scope_authorization", "risk_based_ring_routing",
               "least_privilege_tool_scopes", "worker_timeout"}, "runtime", "PRE_TOOL")
           \subseteq LabEvidence
    /\ Tested({"preinput_goal_policy", "correlation_id_propagation"}, "runtime", "PRE_INPUT")
           \subseteq LabEvidence
    /\ Tested({"agent_policy_identity_binding"}, "identity", "PRE_INPUT") \subseteq LabEvidence
<1>1. ASSUME NEW item \in LabEvidence PROVE item.capability \notin Undeclared
  BY DEF LabEvidence, Tested, Undeclared
<1>2. Tested({"tool_allowlist", "inventory_scope_authorization", "risk_based_ring_routing",
              "least_privilege_tool_scopes", "worker_timeout"}, "runtime", "PRE_TOOL")
          \subseteq LabEvidence
  BY DEF LabEvidence, Tested
<1>3. Tested({"preinput_goal_policy", "correlation_id_propagation"}, "runtime", "PRE_INPUT")
          \subseteq LabEvidence
  BY DEF LabEvidence, Tested
<1>4. Tested({"agent_policy_identity_binding"}, "identity", "PRE_INPUT") \subseteq LabEvidence
  BY DEF LabEvidence, Tested
<1> QED
  BY <1>1, <1>2, <1>3, <1>4

\* The needs that decide about the lab's ratings.
LEMMA NeedFacts ==
    /\ Matrix["T2"].needs = {
           Need("tool_allowlist", "runtime", "PRE_TOOL"),
           Need("inventory_scope_authorization", "runtime", "PRE_TOOL"),
           Need("risk_based_ring_routing", "runtime", "PRE_TOOL")}
    /\ {Need("least_privilege_tool_scopes", "runtime", "PRE_TOOL"),
        Need("verified_workload_identity", "identity", Unbound)} \subseteq Matrix["T3"].needs
    /\ {Need("worker_timeout", "runtime", "PRE_TOOL"),
        Need("agent_request_budget", "runtime", "PRE_INPUT")} \subseteq Matrix["T4"].needs
    /\ {Need("preinput_goal_policy", "runtime", "PRE_INPUT"),
        Need("adversarial_semantic_detection", "runtime", "PRE_INPUT")}
           \subseteq Matrix["T6"].needs
    /\ {Need("correlation_id_propagation", "runtime", "PRE_INPUT"),
        Need("persistent_audit_log", "infrastructure", Unbound)} \subseteq Matrix["T8"].needs
    /\ {Need("agent_policy_identity_binding", "identity", "PRE_INPUT"),
        Need("verified_workload_identity", "identity", Unbound)} \subseteq Matrix["T9"].needs
  BY DEF Matrix, Coverage

\* Evidence that is declared, tested and at an attached point satisfies the need.
LEMMA DeclaredIsSatisfied ==
    ASSUME NEW capabilities, NEW c \in capabilities, NEW layer, NEW point \in Points,
           Tested(capabilities, layer, point) \subseteq LabEvidence
    PROVE  Satisfied(Need(c, layer, point), LabEvidence, Points)
<1> DEFINE item == [capability |-> c, layer |-> layer, point |-> point,
                    implemented |-> TRUE, tested |-> TRUE]
<1>1. item \in LabEvidence
  BY DEF Tested
<1>2. /\ item.capability = c /\ item.layer = layer /\ item.point = point
      /\ item.implemented = TRUE /\ item.tested = TRUE
  OBVIOUS
<1> HIDE DEF item
<1> QED
  BY <1>1, <1>2 DEF Satisfied, Need

\* Evidence of what the lab declares never satisfies a need for anything else.
LEMMA UndeclaredIsMissing ==
    ASSUME NEW items, NEW points,
           \A item \in items : \E b \in LabEvidence : b.capability = item.capability,
           NEW c \in Undeclared, NEW layer, NEW point
    PROVE  ~Satisfied(Need(c, layer, point), items, points)
  BY LabEvidenceFacts DEF Satisfied, Need

\* A risk with a need the lab declares nothing about is not verified by what is
\* left of its evidence.
LEMMA IncompleteStaysIncomplete ==
    ASSUME NEW items, NEW points,
           \A item \in items : \E b \in LabEvidence : b.capability = item.capability,
           NEW risk \in {"T3", "T4", "T6", "T8", "T9"}
    PROVE  Missing(risk, items, points) # {}
<1>1. PICK c \in Undeclared, layer \in {"identity", "runtime", "infrastructure"},
           point \in {Unbound, "PRE_INPUT"} : Need(c, layer, point) \in Matrix[risk].needs
  BY NeedFacts DEF Undeclared
<1>2. ~Satisfied(Need(c, layer, point), items, points)
  BY UndeclaredIsMissing
<1> QED
  BY <1>1, <1>2 DEF Missing

\* Of each such risk the lab has a verified control all the same.
LEMMA LabHasControls ==
    ASSUME NEW risk \in {"T3", "T4", "T6", "T8", "T9"}
    PROVE  Missing(risk, LabEvidence, Points) # Matrix[risk].needs
<1>1. /\ Satisfied(Need("least_privilege_tool_scopes", "runtime", "PRE_TOOL"), LabEvidence, Points)
      /\ Satisfied(Need("worker_timeout", "runtime", "PRE_TOOL"), LabEvidence, Points)
  BY DeclaredIsSatisfied, LabEvidenceFacts DEF Points
<1>2. /\ Satisfied(Need("preinput_goal_policy", "runtime", "PRE_INPUT"), LabEvidence, Points)
      /\ Satisfied(Need("correlation_id_propagation", "runtime", "PRE_INPUT"), LabEvidence, Points)
  BY DeclaredIsSatisfied, LabEvidenceFacts DEF Points
<1>3. Satisfied(Need("agent_policy_identity_binding", "identity", "PRE_INPUT"), LabEvidence, Points)
  BY DeclaredIsSatisfied, LabEvidenceFacts DEF Points
<1>4. PICK need \in Matrix[risk].needs : Satisfied(need, LabEvidence, Points)
  BY <1>1, <1>2, <1>3, NeedFacts
<1> QED
  BY <1>4 DEF Missing

\* The lab has everything that T2 needs.
LEMMA LabVerifiesT2 == Missing("T2", LabEvidence, Points) = {}
<1>1. /\ Satisfied(Need("tool_allowlist", "runtime", "PRE_TOOL"), LabEvidence, Points)
      /\ Satisfied(Need("inventory_scope_authorization", "runtime", "PRE_TOOL"), LabEvidence, Points)
      /\ Satisfied(Need("risk_based_ring_routing", "runtime", "PRE_TOOL"), LabEvidence, Points)
  BY DeclaredIsSatisfied, LabEvidenceFacts DEF Points
<1> QED
  BY <1>1, NeedFacts DEF Missing

\* The lab's ratings are the documented ones.
LEMMA LabRatings ==
    ASSUME NEW risk \in Risks
    PROVE  Status(risk, LabEvidence, Points) = Documented[risk]
<1>1. CASE risk \in {"T1", "T5", "T7", "T10"}
  BY <1>1, MatrixFacts, StatusFacts DEF Documented
<1>2. CASE risk = "T2"
  BY <1>2, MatrixFacts, StatusFacts, LabVerifiesT2 DEF Documented
<1>3. CASE risk \in {"T3", "T4", "T6", "T8", "T9"}
  <2>1. Missing(risk, LabEvidence, Points) # {}
    BY <1>3, IncompleteStaysIncomplete
  <2> QED
    BY <1>3, <2>1, MatrixFacts, StatusFacts, LabHasControls DEF Documented
<1> QED
  BY <1>1, <1>2, <1>3, MatrixFacts

\* What is left of the lab's evidence earns no better rating.
LEMMA NoBetterThanDocumented ==
    ASSUME NEW items, NEW points,
           \A item \in items : \E b \in LabEvidence : b.capability = item.capability,
           NEW risk \in Risks
    PROVE  Rank[Status(risk, items, points)] <= Rank[Documented[risk]]
<1>1. CASE risk \in {"T1", "T5", "T7", "T10"}
  BY <1>1, MatrixFacts, StatusFacts DEF Documented, Rank
<1>2. CASE risk = "T2"
  BY <1>2, MatrixFacts, StatusFacts DEF Documented, Rank
<1>3. CASE risk \in {"T3", "T4", "T6", "T8", "T9"}
  <2>1. Missing(risk, items, points) # {}
    BY <1>3, IncompleteStaysIncomplete
  <2>2. Status(risk, items, points) \in {"missing", "partial"}
    BY <1>3, <2>1, MatrixFacts, StatusFacts
  <2>3. Documented[risk] = "partial"
    BY <1>3 DEF Documented
  <2> QED
    BY <2>2, <2>3 DEF Rank
<1> QED
  BY <1>1, <1>2, <1>3, MatrixFacts

\* The lab's annotations name needs of the matrix, at the points of their sets.
LEMMA LabAnnotations == \A ruleSet \in LabRuleSets : AnnotationsPlaced(ruleSet)
<1>1. /\ Need("preinput_goal_policy", "runtime", "PRE_INPUT") \in Matrix["T6"].needs
      /\ Need("tool_allowlist", "runtime", "PRE_TOOL") \in Matrix["T2"].needs
      /\ Need("least_privilege_tool_scopes", "runtime", "PRE_TOOL") \in Matrix["T3"].needs
  BY NeedFacts
<1>2. \A risk \in {"T2", "T3", "T6"} : risk \in Risks /\ Matrix[risk].addressable
  BY MatrixFacts
<1>3. ASSUME NEW version PROVE AnnotationsPlaced(InputRules(version))
  <2>1. /\ InputRules(version).point = "PRE_INPUT"
        /\ InputRules(version).annotations = {[risk |-> "T6", capability |-> "preinput_goal_policy"]}
    BY DEF InputRules, RuleSet
  <2> QED
    BY <1>1, <1>2, <2>1 DEF AnnotationsPlaced, Need
<1>4. ASSUME NEW version PROVE AnnotationsPlaced(ToolRules(version))
  <2>1. /\ ToolRules(version).point = "PRE_TOOL"
        /\ ToolRules(version).annotations =
               {[risk |-> "T2", capability |-> "tool_allowlist"],
                [risk |-> "T3", capability |-> "least_privilege_tool_scopes"]}
    BY DEF ToolRules, RuleSet
  <2> QED
    BY <1>1, <1>2, <2>1 DEF AnnotationsPlaced, Need
<1>5. ASSUME NEW version PROVE AnnotationsPlaced(OutputRules(version))
  BY DEF OutputRules, RuleSet, AnnotationsPlaced
<1> QED
  BY <1>3, <1>4, <1>5 DEF LabRuleSets

\* Whatever became of the evidence, the report claims no more than it supports.
LEMMA ReportIsHonest == CoverageIInv => HonestReport
<1> SUFFICES ASSUME CoverageIInv PROVE HonestReport
  OBVIOUS
<1>1. SUFFICES ASSUME NEW risk \in Risks
               PROVE  LET rating == Status(risk, evidence, attached) IN
                      /\ evidence = LabEvidence /\ attached = Points => rating = Documented[risk]
                      /\ base = LabEvidence => Rank[rating] <= Rank[Documented[risk]]
                      /\ rating = Status(risk, {item \in evidence : item.tested}, attached)
                      /\ (\A need \in Matrix[risk].needs : need.point \in Points \ attached)
                             => Rank[rating] = 0
  BY LabAnnotations DEF HonestReport
<1> DEFINE rating == Status(risk, evidence, attached)
<1>2. evidence = LabEvidence /\ attached = Points => rating = Documented[risk]
  BY LabRatings
<1>3. ASSUME base = LabEvidence PROVE Rank[rating] <= Rank[Documented[risk]]
  BY <1>3, NoBetterThanDocumented DEF CoverageIInv
<1>4. rating = Status(risk, {item \in evidence : item.tested}, attached)
  <2> DEFINE tested == {item \in evidence : item.tested}
  <2>1. \A need : Satisfied(need, evidence, attached) <=> Satisfied(need, tested, attached)
    BY DEF Satisfied
  <2> HIDE DEF tested
  <2>2. Missing(risk, evidence, attached) = Missing(risk, tested, attached)
    BY <2>1 DEF Missing
  <2> QED
    BY <2>2 DEF Status, tested
<1>5. ASSUME \A need \in Matrix[risk].needs : need.point \in Points \ attached
      PROVE  Rank[rating] = 0
  <2>1. \A need \in Matrix[risk].needs : ~Satisfied(need, evidence, attached)
    BY <1>5, CoverageAssumption DEF Satisfied
  <2>2. Missing(risk, evidence, attached) = Matrix[risk].needs
    BY <2>1 DEF Missing
  <2>3. rating \in {"external_required", "missing"}
    BY <2>2, MatrixFacts, StatusFacts
  <2> QED
    BY <2>3 DEF Rank
<1> QED
  BY <1>2, <1>3, <1>4, <1>5

\* For any changes of any evidence: the ratings are what the evidence supports.
THEOREM ReportsAreHonest == CoverageSpec => []HonestReport
  BY ReportIsHonest, CoverageInvariantHolds, PTL

\* The evidence keeps its type.
THEOREM CoverageTypeCorrect == CoverageSpec => []CoverageTypeOK
<1>1. CoverageIInv => CoverageTypeOK
  BY DEF CoverageIInv
<1> QED
  BY <1>1, CoverageInvariantHolds, PTL

-----------------------------------------------------------------------------
(***************************************************************************)
(* VersionedPipeline.  What a rule set with distinct priorities decides is *)
(* stated once, without First; what the lab's three sets decide follows    *)
(* from the lists of their rules.                                          *)
(***************************************************************************)

\* Rules as validation wants their priorities.
Ordered(rules) ==
    /\ DOMAIN rules \subseteq Nat
    /\ \A i \in DOMAIN rules : rules[i].priority \in Nat
    /\ \A i, j \in DOMAIN rules : i # j => rules[i].priority # rules[j].priority

\* The rule is what evaluation comes to: it has something to say, and none of a
\* lower number has.
Reached(rules, context, k) ==
    /\ Matches(rules[k], context) \/ Raises(rules[k])
    /\ \A j \in DOMAIN rules : rules[j].priority < rules[k].priority =>
           ~Matches(rules[j], context) /\ ~Raises(rules[j])

\* A payload is permitted exactly when the rule that is reached allows it, for
\* every set whose priorities are distinct, in whatever order it lists its rules.
THEOREM Decision ==
    ASSUME NEW ruleSet, NEW context, Ordered(ruleSet.rules), context.point = ruleSet.point
    PROVE  LET rules == ruleSet.rules IN
           Evaluate(ruleSet, context).permitted <=>
               \E k \in DOMAIN rules :
                   /\ Reached(rules, context, k)
                   /\ rules[k].action = "allow" /\ ~Raises(rules[k])
<1> DEFINE rules == ruleSet.rules
<1> DEFINE found == Stops(rules, context)
<1>1. CASE found = {}
  <2>1. Evaluate(ruleSet, context) = [permitted |-> FALSE, rule |-> "default-deny"]
    BY <1>1 DEF Evaluate, Denied
  <2>2. \A k \in DOMAIN rules : ~Reached(rules, context, k)
    BY <1>1 DEF Reached, Stops
  <2>3. Evaluate(ruleSet, context).permitted = FALSE
    BY <2>1
  <2> QED
    BY <2>2, <2>3
<1>2. CASE found # {}
  <2> DEFINE first == First(rules, found)
  <2>1. first \in found /\ \A j \in found \ {first} : rules[first].priority < rules[j].priority
    <3>1. found \subseteq DOMAIN rules
      BY DEF Stops
    <3> HIDE DEF found
    <3> QED
      BY <1>2, <3>1, FirstIsLeast DEF Ordered
  <2>2. Evaluate(ruleSet, context) = IF Raises(rules[first]) THEN Denied("evaluator-exception")
            ELSE [permitted |-> rules[first].action = "allow", rule |-> rules[first].name]
    BY <1>2 DEF Evaluate
  <2> HIDE DEF first
  <2>3. CASE Raises(rules[first])
    <3>1. Evaluate(ruleSet, context).permitted = FALSE
      BY <2>2, <2>3 DEF Denied
    <3>2. ASSUME NEW k \in DOMAIN rules, Reached(rules, context, k) PROVE k = first
      BY <2>1, <3>2 DEF Reached, Stops, Ordered
    <3> QED
      BY <2>3, <3>1, <3>2
  <2>4. CASE ~Raises(rules[first])
    <3> DEFINE answer == Evaluate(ruleSet, context)
    <3>1. answer.permitted = (rules[first].action = "allow")
      <4>1. answer = [permitted |-> rules[first].action = "allow", rule |-> rules[first].name]
        BY <2>2, <2>4
      <4> HIDE DEF answer
      <4> QED
        BY <4>1, Zenon
    <3>2. ASSUME NEW k \in DOMAIN rules, Reached(rules, context, k) PROVE k = first
      BY <2>1, <3>2 DEF Reached, Stops, Ordered
    <3>3. first \in DOMAIN rules /\ Reached(rules, context, first)
      BY <2>1 DEF Reached, Stops, Ordered
    <3> QED
      BY <2>4, <3>1, <3>2, <3>3, Zenon
  <2> QED
    BY <2>3, <2>4
<1> QED
  BY <1>1, <1>2

-----------------------------------------------------------------------------
\* The phrases of the rule sets, under names of their own: the SMT backend does
\* not read a string with a space in it.
IgnoreInstructions == "ignore previous instructions"
EnvFiles == "read every .env"
Environment == "print environment variables"
ApiKeys == "reveal api keys"
NpmrcFiles == "read every .npmrc"

\* Where the catch-all stands.
LastInputRule(version) == IF version = "1.1.0" THEN 6 ELSE 5
LastOutputRule(version) == IF version = "1.1.0" THEN 3 ELSE 2

\* The rules of the lab's sets, one by one.
LEMMA InputRuleList ==
    ASSUME NEW version \in SupportedVersions
    PROVE  LET rules == InputRules(version).rules
               last == LastInputRule(version)
           IN  /\ InputRules(version).point = "PRE_INPUT"
               /\ DOMAIN rules = 1 .. last
               /\ rules[1] = Rule("deny_ignore_previous_instructions", 100, "input_contains",
                                  IgnoreInstructions, "deny")
               /\ rules[2] = Rule("deny_read_all_env_files", 110, "input_contains",
                                  EnvFiles, "deny")
               /\ rules[3] = Rule("deny_print_environment", 120, "input_contains",
                                  Environment, "deny")
               /\ rules[4] = Rule("deny_reveal_api_keys", 130, "input_contains",
                                  ApiKeys, "deny")
               /\ version = "1.1.0" =>
                      rules[5] = Rule("deny_npmrc_collection", 140, "input_contains",
                                      NpmrcFiles, "deny")
               /\ rules[last] = Rule("allow_standard_code_review", 9999, "match_all",
                                     NoValue, "allow")
<1> DEFINE r1 == Rule("deny_ignore_previous_instructions", 100, "input_contains",
                      IgnoreInstructions, "deny")
<1> DEFINE r2 == Rule("deny_read_all_env_files", 110, "input_contains", EnvFiles, "deny")
<1> DEFINE r3 == Rule("deny_print_environment", 120, "input_contains",
                      Environment, "deny")
<1> DEFINE r4 == Rule("deny_reveal_api_keys", 130, "input_contains", ApiKeys, "deny")
<1> DEFINE r5 == Rule("deny_npmrc_collection", 140, "input_contains", NpmrcFiles, "deny")
<1> DEFINE r6 == Rule("allow_standard_code_review", 9999, "match_all", NoValue, "allow")
<1> DEFINE rules == InputRules(version).rules
<1>1. rules = <<r1, r2, r3, r4>> \o (IF version = "1.1.0" THEN <<r5>> ELSE <<>>) \o <<r6>>
  BY Zenon DEF InputRules, RuleSet, CatchAll, IgnoreInstructions, EnvFiles,
                 Environment, ApiKeys, NpmrcFiles
<1> DEFINE last == LastInputRule(version)
<1> HIDE DEF r1, r2, r3, r4, r5, r6, rules, last
<1>2. /\ DOMAIN rules = 1 .. last
      /\ rules[1] = r1 /\ rules[2] = r2 /\ rules[3] = r3 /\ rules[4] = r4
      /\ version = "1.1.0" => rules[5] = r5
      /\ rules[last] = r6
  <2>1. CASE version = "1.1.0"
    <3> DEFINE list == <<r1, r2, r3, r4>> \o <<r5>> \o <<r6>>
    <3>1. /\ DOMAIN list = 1 .. 6
          /\ list[1] = r1 /\ list[2] = r2 /\ list[3] = r3 /\ list[4] = r4
          /\ list[5] = r5 /\ list[6] = r6
      OBVIOUS
    <3>2. rules = list /\ last = 6
      BY <1>1, <2>1 DEF last, LastInputRule
    <3> HIDE DEF list
    <3> QED
      BY <3>1, <3>2
  <2>2. CASE version = "1.0.0"
    <3> DEFINE list == <<r1, r2, r3, r4>> \o <<>> \o <<r6>>
    <3>1. /\ DOMAIN list = 1 .. 5
          /\ list[1] = r1 /\ list[2] = r2 /\ list[3] = r3 /\ list[4] = r4
          /\ list[5] = r6
      OBVIOUS
    <3>2. rules = list /\ last = 5 /\ version # "1.1.0"
      BY <1>1, <2>2 DEF last, LastInputRule
    <3> HIDE DEF list
    <3> QED
      BY <3>1, <3>2
  <2> QED
    BY <2>1, <2>2 DEF SupportedVersions
<1>3. InputRules(version).point = "PRE_INPUT"
  BY Zenon DEF InputRules, RuleSet
<1> QED
  BY <1>2, <1>3 DEF rules, last, r1, r2, r3, r4, r5, r6

LEMMA ToolRuleList ==
    ASSUME NEW version
    PROVE  LET rules == ToolRules(version).rules IN
           /\ ToolRules(version).point = "PRE_TOOL"
           /\ DOMAIN rules = 1 .. 8
           /\ rules[1] = ToolRule("deny_production_deployer", 100, "production-deployer", "deny")
           /\ rules[2] = ToolRule("deny_terminal_executor", 110, "terminal-executor", "deny")
           /\ rules[3] = ToolRule("deny_git_push", 120, "git-push", "deny")
           /\ rules[4] = ToolRule("allow_prompt_code_reader", 490, "prompt-code-reader", "allow")
           /\ rules[5] = ToolRule("allow_repository_reader", 500, "repository-reader", "allow")
           /\ rules[6] = ToolRule("allow_unit_test_runner", 510, "unit-test-runner", "allow")
           /\ rules[7] = ToolRule("allow_sast_scanner", 520, "sast-scanner", "allow")
           /\ rules[8] = Rule("deny_unlisted_tool", 9999, "match_all", NoValue, "deny")
  BY DEF ToolRules, RuleSet, CatchAll

LEMMA OutputRuleList ==
    ASSUME NEW version \in SupportedVersions
    PROVE  LET rules == OutputRules(version).rules
               last == LastOutputRule(version)
           IN  /\ OutputRules(version).point = "PRE_OUTPUT"
               /\ DOMAIN rules = 1 .. last
               /\ rules[1] = Rule("deny_high_confidence_credential", 100, "output_regex",
                                  "SECRET_PATTERN", "deny")
               /\ version = "1.1.0" =>
                      rules[2] = Rule("deny_private_key_material", 110, "output_regex",
                                      "PRIVATE_KEY", "deny")
               /\ rules[last] = Rule("allow_standard_security_review", 9999, "match_all",
                                     NoValue, "allow")
  BY DEF OutputRules, RuleSet, CatchAll, SupportedVersions, LastOutputRule

-----------------------------------------------------------------------------
\* In a set whose last rule allows everything and whose others deny, a payload is
\* permitted exactly when none of the others has anything to say.
LEMMA DenialsThenAllow ==
    ASSUME NEW ruleSet, NEW context, Ordered(ruleSet.rules), context.point = ruleSet.point,
           NEW last \in DOMAIN ruleSet.rules,
           ruleSet.rules[last].kind = "match_all", ruleSet.rules[last].action = "allow",
           \A i \in DOMAIN ruleSet.rules \ {last} :
               /\ ruleSet.rules[i].action = "deny"
               /\ ruleSet.rules[i].priority < ruleSet.rules[last].priority
    PROVE  Evaluate(ruleSet, context).permitted <=>
               \A i \in DOMAIN ruleSet.rules \ {last} :
                   ~Matches(ruleSet.rules[i], context) /\ ~Raises(ruleSet.rules[i])
<1> DEFINE rules == ruleSet.rules
<1>1. Matches(rules[last], context) /\ ~Raises(rules[last])
  BY DEF Matches, Raises
<1>2. \A k \in DOMAIN rules : rules[k].action = "allow" => k = last
  OBVIOUS
<1>3. Reached(rules, context, last) <=>
          \A i \in DOMAIN rules \ {last} : ~Matches(rules[i], context) /\ ~Raises(rules[i])
  <2>1. \A i \in DOMAIN rules : rules[i].priority < rules[last].priority <=> i # last
    BY DEF Ordered
  <2> QED
    BY <1>1, <2>1 DEF Reached
<1>4. Evaluate(ruleSet, context).permitted <=>
          \E k \in DOMAIN rules :
              /\ Reached(rules, context, k)
              /\ rules[k].action = "allow" /\ ~Raises(rules[k])
  BY Decision
<1> QED
  BY <1>1, <1>2, <1>3, <1>4, Zenon

\* What 1.0.0 looks for in an input.
DeniedPhrases == {IgnoreInstructions, EnvFiles, Environment, ApiKeys}

\* An input is permitted exactly when no denied phrase is in it.
THEOREM InputPermits ==
    ASSUME NEW version \in SupportedVersions, NEW context, context.point = "PRE_INPUT"
    PROVE  RulesPermit(context, version) <=>
               /\ \A phrase \in DeniedPhrases : phrase \notin context.input
               /\ version = "1.1.0" => NpmrcFiles \notin context.input
<1> DEFINE ruleSet == InputRules(version)
<1> DEFINE rules == ruleSet.rules
<1> DEFINE last == LastInputRule(version)
<1>1. /\ ruleSet.point = "PRE_INPUT"
      /\ DOMAIN rules = 1 .. last
      /\ rules[1] = Rule("deny_ignore_previous_instructions", 100, "input_contains",
                         IgnoreInstructions, "deny")
      /\ rules[2] = Rule("deny_read_all_env_files", 110, "input_contains",
                         EnvFiles, "deny")
      /\ rules[3] = Rule("deny_print_environment", 120, "input_contains",
                         Environment, "deny")
      /\ rules[4] = Rule("deny_reveal_api_keys", 130, "input_contains",
                         ApiKeys, "deny")
      /\ version = "1.1.0" =>
             rules[5] = Rule("deny_npmrc_collection", 140, "input_contains",
                             NpmrcFiles, "deny")
      /\ rules[last] = Rule("allow_standard_code_review", 9999, "match_all", NoValue, "allow")
  BY InputRuleList
<1>2. last \in {5, 6} /\ (version = "1.1.0" <=> last = 6)
  BY DEF LastInputRule
<1> HIDE DEF rules, last
<1>3. \A i \in 1 .. last : i = 1 \/ i = 2 \/ i = 3 \/ i = 4 \/ (i = 5 /\ last = 6) \/ i = last
  BY <1>2
<1>4. /\ rules[1].kind = "input_contains" /\ rules[1].value = IgnoreInstructions
      /\ rules[2].kind = "input_contains" /\ rules[2].value = EnvFiles
      /\ rules[3].kind = "input_contains" /\ rules[3].value = Environment
      /\ rules[4].kind = "input_contains" /\ rules[4].value = ApiKeys
      /\ last = 6 => rules[5].kind = "input_contains" /\ rules[5].value = NpmrcFiles
  BY <1>1, <1>2 DEF Rule
<1>5. /\ rules[1].priority = 100 /\ rules[2].priority = 110
      /\ rules[3].priority = 120 /\ rules[4].priority = 130
      /\ last = 6 => rules[5].priority = 140
      /\ rules[last].priority = 9999
  BY <1>1, <1>2 DEF Rule
<1>6. /\ rules[1].action = "deny" /\ rules[2].action = "deny"
      /\ rules[3].action = "deny" /\ rules[4].action = "deny"
      /\ last = 6 => rules[5].action = "deny"
      /\ rules[last].action = "allow" /\ rules[last].kind = "match_all"
  BY <1>1, <1>2 DEF Rule
<1>7. DOMAIN rules = 1 .. last /\ last \in DOMAIN rules
  BY <1>1, <1>2
<1>8. Ordered(rules)
  <2>1. ASSUME NEW i \in 1 .. last
        PROVE  rules[i].priority = IF i = last THEN 9999 ELSE 90 + 10 * i
    BY <1>2, <1>3, <1>5
  <2> QED
    BY <1>2, <1>7, <2>1 DEF Ordered
<1>9. \A i \in DOMAIN rules \ {last} :
          rules[i].action = "deny" /\ rules[i].priority < rules[last].priority
  BY <1>3, <1>5, <1>6, <1>7
<1>10. ASSUME NEW i \in DOMAIN rules \ {last}
       PROVE  /\ Matches(rules[i], context) <=> rules[i].value \in context.input
              /\ ~Raises(rules[i])
  <2>1. rules[i].kind = "input_contains"
    BY <1>3, <1>4, <1>7
  <2> QED
    BY <2>1 DEF Matches, Raises
<1>11. (\A i \in DOMAIN rules \ {last} : rules[i].value \notin context.input) <=>
           /\ \A phrase \in DeniedPhrases : phrase \notin context.input
           /\ version = "1.1.0" => NpmrcFiles \notin context.input
  BY <1>2, <1>3, <1>4, <1>7 DEF DeniedPhrases
<1>12. RulesPermit(context, version) <=> Evaluate(ruleSet, context).permitted
  BY DEF RulesPermit, RulesAt
<1>13. Evaluate(ruleSet, context).permitted <=>
           \A i \in DOMAIN rules \ {last} : ~Matches(rules[i], context) /\ ~Raises(rules[i])
  <2>1. context.point = ruleSet.point
    BY <1>1
  <2> HIDE DEF ruleSet
  <2> QED
    BY <2>1, <1>6, <1>7, <1>8, <1>9, DenialsThenAllow DEF rules
<1> QED
  BY <1>10, <1>11, <1>12, <1>13

\* An output is permitted exactly when no pattern of the version matches it.
THEOREM OutputPermits ==
    ASSUME NEW version \in SupportedVersions, NEW context, context.point = "PRE_OUTPUT"
    PROVE  RulesPermit(context, version) <=>
               /\ "SECRET_PATTERN" \notin context.output
               /\ version = "1.1.0" => "PRIVATE_KEY" \notin context.output
<1> DEFINE ruleSet == OutputRules(version)
<1> DEFINE rules == ruleSet.rules
<1> DEFINE last == LastOutputRule(version)
<1>1. /\ ruleSet.point = "PRE_OUTPUT"
      /\ DOMAIN rules = 1 .. last
      /\ rules[1] = Rule("deny_high_confidence_credential", 100, "output_regex",
                         "SECRET_PATTERN", "deny")
      /\ version = "1.1.0" =>
             rules[2] = Rule("deny_private_key_material", 110, "output_regex",
                             "PRIVATE_KEY", "deny")
      /\ rules[last] = Rule("allow_standard_security_review", 9999, "match_all",
                            NoValue, "allow")
  BY OutputRuleList
<1>2. last \in {2, 3} /\ (version = "1.1.0" <=> last = 3)
  BY DEF LastOutputRule
<1> HIDE DEF rules, last
<1>3. \A i \in 1 .. last : i = 1 \/ (i = 2 /\ last = 3) \/ i = last
  BY <1>2
<1>4. /\ rules[1].kind = "output_regex" /\ rules[1].value = "SECRET_PATTERN"
      /\ rules[1].priority = 100 /\ rules[1].action = "deny"
      /\ last = 3 => /\ rules[2].kind = "output_regex" /\ rules[2].value = "PRIVATE_KEY"
                     /\ rules[2].priority = 110 /\ rules[2].action = "deny"
      /\ rules[last].kind = "match_all" /\ rules[last].priority = 9999
      /\ rules[last].action = "allow"
  BY <1>1, <1>2 DEF Rule
<1>5. DOMAIN rules = 1 .. last /\ last \in DOMAIN rules
  BY <1>1, <1>2
<1>6. Ordered(rules)
  BY <1>3, <1>4, <1>5 DEF Ordered
<1>7. \A i \in DOMAIN rules \ {last} :
          rules[i].action = "deny" /\ rules[i].priority < rules[last].priority
  BY <1>3, <1>4, <1>5
<1>8. ASSUME NEW i \in DOMAIN rules \ {last}
      PROVE  /\ Matches(rules[i], context) <=> rules[i].value \in context.output
             /\ ~Raises(rules[i])
  <2>1. rules[i].kind = "output_regex" /\ rules[i].value \in Patterns
    BY <1>3, <1>4, <1>5, LabNamesAssumption
  <2> QED
    BY <2>1 DEF Matches, Raises
<1>9. (\A i \in DOMAIN rules \ {last} : rules[i].value \notin context.output) <=>
          /\ "SECRET_PATTERN" \notin context.output
          /\ version = "1.1.0" => "PRIVATE_KEY" \notin context.output
  BY <1>2, <1>3, <1>4, <1>5
<1>10. RulesPermit(context, version) <=> Evaluate(ruleSet, context).permitted
  BY DEF RulesPermit, RulesAt
<1>11. Evaluate(ruleSet, context).permitted <=>
           \A i \in DOMAIN rules \ {last} : ~Matches(rules[i], context) /\ ~Raises(rules[i])
  <2> HIDE DEF ruleSet
  <2> QED
    BY <1>1, <1>4, <1>5, <1>6, <1>7, DenialsThenAllow DEF rules
<1> QED
  BY <1>8, <1>9, <1>10, <1>11

\* The tools that the rules list as allowed.
AllowedTools == {"prompt-code-reader", "repository-reader", "unit-test-runner", "sast-scanner"}

\* The tools that the rules name have rings.
LEMMA NamedTools ==
    \A name \in AllowedTools \cup {"production-deployer", "terminal-executor", "git-push"} :
        name \in Texts /\ Folded[name] = name
<1>1. "prompt-code-reader" \in RingTools[0]
  BY DEF RingTools
<1>2. "repository-reader" \in RingTools[1] /\ "sast-scanner" \in RingTools[1]
  BY DEF RingTools
<1>3. "unit-test-runner" \in RingTools[2]
  BY DEF RingTools
<1>4. /\ "production-deployer" \in RingTools[3] /\ "terminal-executor" \in RingTools[3]
      /\ "git-push" \in RingTools[3]
  BY DEF RingTools
<1>5. 0 \in 0 .. 3 /\ 1 \in 0 .. 3 /\ 2 \in 0 .. 3 /\ 3 \in 0 .. 3
  OBVIOUS
<1> QED
  BY <1>1, <1>2, <1>3, <1>4, <1>5, LabNamesAssumption DEF AllowedTools

\* A tool is permitted exactly when its name, in lower case, is an allowed one.
THEOREM ToolPermits ==
    ASSUME NEW version \in SupportedVersions, NEW context, context.point = "PRE_TOOL"
    PROVE  RulesPermit(context, version) <=> Folded[context.tool] \in AllowedTools
<1> DEFINE ruleSet == ToolRules(version)
<1> DEFINE rules == ruleSet.rules
<1> DEFINE tool == Folded[context.tool]
<1>1. /\ ruleSet.point = "PRE_TOOL"
      /\ DOMAIN rules = 1 .. 8
      /\ rules[1] = ToolRule("deny_production_deployer", 100, "production-deployer", "deny")
      /\ rules[2] = ToolRule("deny_terminal_executor", 110, "terminal-executor", "deny")
      /\ rules[3] = ToolRule("deny_git_push", 120, "git-push", "deny")
      /\ rules[4] = ToolRule("allow_prompt_code_reader", 490, "prompt-code-reader", "allow")
      /\ rules[5] = ToolRule("allow_repository_reader", 500, "repository-reader", "allow")
      /\ rules[6] = ToolRule("allow_unit_test_runner", 510, "unit-test-runner", "allow")
      /\ rules[7] = ToolRule("allow_sast_scanner", 520, "sast-scanner", "allow")
      /\ rules[8] = Rule("deny_unlisted_tool", 9999, "match_all", NoValue, "deny")
  BY ToolRuleList
<1> HIDE DEF rules
<1>2. \A i \in 1 .. 8 : i = 1 \/ i = 2 \/ i = 3 \/ i = 4 \/ i = 5 \/ i = 6 \/ i = 7 \/ i = 8
  OBVIOUS
<1>3. /\ rules[1].kind = "tool_is" /\ rules[1].value = "production-deployer"
      /\ rules[2].kind = "tool_is" /\ rules[2].value = "terminal-executor"
      /\ rules[3].kind = "tool_is" /\ rules[3].value = "git-push"
      /\ rules[4].kind = "tool_is" /\ rules[4].value = "prompt-code-reader"
      /\ rules[5].kind = "tool_is" /\ rules[5].value = "repository-reader"
      /\ rules[6].kind = "tool_is" /\ rules[6].value = "unit-test-runner"
      /\ rules[7].kind = "tool_is" /\ rules[7].value = "sast-scanner"
      /\ rules[8].kind = "match_all"
  BY <1>1 DEF ToolRule, Rule
<1>4. /\ rules[1].priority = 100 /\ rules[2].priority = 110 /\ rules[3].priority = 120
      /\ rules[4].priority = 490 /\ rules[5].priority = 500 /\ rules[6].priority = 510
      /\ rules[7].priority = 520 /\ rules[8].priority = 9999
  BY <1>1 DEF ToolRule, Rule
<1>5. /\ rules[1].action = "deny" /\ rules[2].action = "deny" /\ rules[3].action = "deny"
      /\ rules[4].action = "allow" /\ rules[5].action = "allow" /\ rules[6].action = "allow"
      /\ rules[7].action = "allow" /\ rules[8].action = "deny"
  BY <1>1 DEF ToolRule, Rule
<1>6. DOMAIN rules = 1 .. 8 /\ context.point = ruleSet.point
  BY <1>1
<1>7. Ordered(rules)
  <2>1. ASSUME NEW i \in 1 .. 8
        PROVE  rules[i].priority = CASE i <= 3 -> 90 + 10 * i
                                     [] i \in 4 .. 7 -> 450 + 10 * i
                                     [] i = 8 -> 9999
    BY <1>2, <1>4
  <2> QED
    BY <1>6, <2>1 DEF Ordered
<1>8. ASSUME NEW i \in 1 .. 8
      PROVE  /\ Matches(rules[i], context) <=> i = 8 \/ rules[i].value = tool
             /\ ~Raises(rules[i])
  <2>1. CASE i = 8
    BY <1>3, <2>1 DEF Matches, Raises
  <2>2. CASE i # 8
    <3>1. rules[i].kind = "tool_is"
      BY <1>2, <1>3, <2>2
    <3>2. rules[i].value \in Texts /\ Folded[rules[i].value] = rules[i].value
      BY <1>2, <1>3, <2>2, NamedTools DEF AllowedTools
    <3> QED
      BY <2>2, <3>1, <3>2 DEF Matches, Raises
  <2> QED
    BY <2>1, <2>2
<1>9. RulesPermit(context, version) <=> Evaluate(ruleSet, context).permitted
  BY DEF RulesPermit, RulesAt
<1>10. Evaluate(ruleSet, context).permitted <=>
           \E k \in DOMAIN rules :
               Reached(rules, context, k) /\ rules[k].action = "allow" /\ ~Raises(rules[k])
  <2> HIDE DEF ruleSet
  <2> QED
    BY <1>6, <1>7, Decision DEF rules
<1> HIDE DEF tool
<1>11. ASSUME NEW k \in 1 .. 8, Reached(rules, context, k), rules[k].action = "allow"
       PROVE  tool \in AllowedTools
  <2>1. k \in 4 .. 7
    BY <1>2, <1>5, <1>11
  <2>2. rules[k].value = tool
    BY <1>8, <1>11, <2>1 DEF Reached
  <2>3. k = 4 \/ k = 5 \/ k = 6 \/ k = 7
    BY <2>1
  <2> QED
    BY <1>3, <2>2, <2>3 DEF AllowedTools
<1>12. ASSUME tool \in AllowedTools
       PROVE  \E k \in 1 .. 8 : Reached(rules, context, k) /\ rules[k].action = "allow"
  <2>1. PICK k \in 4 .. 7 : rules[k].value = tool
    BY <1>3, <1>12 DEF AllowedTools
  <2>2. ASSUME NEW i \in 1 .. 8, i # k, i # 8 PROVE rules[i].value # rules[k].value
    BY <1>2, <1>3, <2>1, <2>2
  <2>3. k \in 1 .. 8 /\ rules[k].priority < rules[8].priority /\ rules[k].action = "allow"
    BY <1>2, <1>4, <1>5, <2>1
  <2>4. ASSUME NEW i \in 1 .. 8, rules[i].priority < rules[k].priority
        PROVE  ~Matches(rules[i], context) /\ ~Raises(rules[i])
    <3>1. rules[k].priority \in Nat /\ rules[8].priority \in Nat
      BY <1>4, <1>6, <1>7, <2>3 DEF Ordered
    <3>2. i # k /\ i # 8
      BY <2>3, <2>4, <3>1
    <3> QED
      BY <1>8, <2>1, <2>2, <3>2
  <2> QED
    BY <1>6, <1>8, <2>1, <2>3, <2>4 DEF Reached
<1> QED
  BY <1>6, <1>8, <1>9, <1>10, <1>11, <1>12 DEF tool

\* A verdict is one of two.
LEMMA VerdictIsBoolean ==
    ASSUME NEW context, NEW version
    PROVE  RulesPermit(context, version) \in BOOLEAN
<1> DEFINE ruleSet == RulesAt(context.point, version)
<1> DEFINE rules == ruleSet.rules
<1> DEFINE found == Stops(rules, context)
<1> DEFINE rule == rules[First(rules, found)]
<1> DEFINE answer == Evaluate(ruleSet, context)
<1>1. \/ \E name : answer = [permitted |-> FALSE, rule |-> name]
      \/ answer = [permitted |-> rule.action = "allow", rule |-> rule.name]
  <2>1. answer = IF context.point # ruleSet.point THEN Denied("attachment-point-binding")
                 ELSE IF found = {} THEN Denied("default-deny")
                 ELSE IF Raises(rule) THEN Denied("evaluator-exception")
                 ELSE [permitted |-> rule.action = "allow", rule |-> rule.name]
    BY DEF Evaluate
  <2> HIDE DEF answer, rule, found, rules, ruleSet
  <2> QED
    BY <2>1, Zenon DEF Denied
<1>2. answer.permitted \in BOOLEAN
  <2>1. CASE \E name : answer = [permitted |-> FALSE, rule |-> name]
    <3> HIDE DEF answer
    <3> QED
      BY <2>1
  <2>2. CASE answer = [permitted |-> rule.action = "allow", rule |-> rule.name]
    <3>1. answer.permitted = (rule.action = "allow")
      <4> HIDE DEF answer, rule
      <4> QED
        BY <2>2, Zenon
    <3> HIDE DEF answer
    <3> QED
      BY <3>1
  <2> QED
    BY <1>1, <2>1, <2>2
<1> QED
  BY <1>2 DEF RulesPermit

\* Both versions pass their diagnostics.
LEMMA VersionsPassDiagnostics ==
    ASSUME NEW version \in SupportedVersions
    PROVE  DiagnosticsPass(version)
<1> DEFINE Input(texts) == At("PRE_INPUT", texts, "unknown-tool", {})
<1> DEFINE ToolCall(tool) == At("PRE_TOOL", {}, tool, {})
<1> DEFINE Output(patterns) == At("PRE_OUTPUT", {}, "unknown-tool", patterns)
<1> DEFINE old == version = "1.0.0"
<1>1. /\ RulesPermit(Input({}), version)
      /\ ~RulesPermit(Input({IgnoreInstructions, ApiKeys}), version)
      /\ RulesPermit(Input({NpmrcFiles}), version) <=> old
  <2>1. ASSUME NEW texts
        PROVE  RulesPermit(Input(texts), version) <=>
                   /\ \A phrase \in DeniedPhrases : phrase \notin texts
                   /\ version = "1.1.0" => NpmrcFiles \notin texts
    <3> DEFINE context == Input(texts)
    <3>1. context.point = "PRE_INPUT" /\ context.input = texts
      BY DEF At
    <3> HIDE DEF context
    <3>2. RulesPermit(context, version) <=>
              /\ \A phrase \in DeniedPhrases : phrase \notin context.input
              /\ version = "1.1.0" => NpmrcFiles \notin context.input
      BY <3>1, InputPermits
    <3> QED
      BY <3>1, <3>2 DEF context
  <2>2. IgnoreInstructions \in DeniedPhrases /\ NpmrcFiles \notin DeniedPhrases
    BY Zenon DEF DeniedPhrases, IgnoreInstructions, EnvFiles, Environment, ApiKeys, NpmrcFiles
  <2> HIDE DEF Input
  <2>3. /\ RulesPermit(Input({}), version)
        /\ ~RulesPermit(Input({IgnoreInstructions, ApiKeys}), version)
    BY <2>1, <2>2
  <2>4. RulesPermit(Input({NpmrcFiles}), version) <=> version # "1.1.0"
    BY <2>1, <2>2
  <2> QED
    BY <2>3, <2>4 DEF SupportedVersions
<1>2. /\ RulesPermit(ToolCall("repository-reader"), version)
      /\ ~RulesPermit(ToolCall("production-deployer"), version)
      /\ ~RulesPermit(ToolCall("unknown-tool"), version)
  <2>1. ASSUME NEW tool PROVE RulesPermit(ToolCall(tool), version) <=> Folded[tool] \in AllowedTools
    <3> DEFINE context == ToolCall(tool)
    <3>1. context.point = "PRE_TOOL" /\ context.tool = tool
      BY DEF At
    <3> HIDE DEF context
    <3>2. RulesPermit(context, version) <=> Folded[context.tool] \in AllowedTools
      BY <3>1, ToolPermits
    <3> QED
      BY <3>1, <3>2 DEF context
  <2> HIDE DEF ToolCall
  <2> QED
    BY <2>1, NamedTools, PipelineAssumption DEF AllowedTools
<1>3. /\ RulesPermit(Output({}), version)
      /\ ~RulesPermit(Output({"SECRET_PATTERN"}), version)
      /\ RulesPermit(Output({"PRIVATE_KEY"}), version) <=> old
  <2>1. ASSUME NEW patterns
        PROVE  RulesPermit(Output(patterns), version) <=>
                   /\ "SECRET_PATTERN" \notin patterns
                   /\ version = "1.1.0" => "PRIVATE_KEY" \notin patterns
    <3> DEFINE context == Output(patterns)
    <3>1. context.point = "PRE_OUTPUT" /\ context.output = patterns
      BY DEF At
    <3> HIDE DEF context
    <3>2. RulesPermit(context, version) <=>
              /\ "SECRET_PATTERN" \notin context.output
              /\ version = "1.1.0" => "PRIVATE_KEY" \notin context.output
      BY <3>1, OutputPermits
    <3> QED
      BY <3>1, <3>2 DEF context
  <2> HIDE DEF Output
  <2> QED
    BY <2>1 DEF SupportedVersions
<1>4. Diagnostics(version) =
          {<<Input({}), TRUE>>, <<Input({IgnoreInstructions, ApiKeys}), FALSE>>,
           <<Input({NpmrcFiles}), old>>,
           <<ToolCall("repository-reader"), TRUE>>, <<ToolCall("production-deployer"), FALSE>>,
           <<ToolCall("unknown-tool"), FALSE>>,
           <<Output({}), TRUE>>, <<Output({"SECRET_PATTERN"}), FALSE>>,
           <<Output({"PRIVATE_KEY"}), old>>}
  BY Zenon DEF Diagnostics, IgnoreInstructions, ApiKeys, NpmrcFiles
<1> HIDE DEF Input, ToolCall, Output, old
<1>5. \A context : RulesPermit(context, version) \in BOOLEAN
  BY VerdictIsBoolean
<1>6. old \in BOOLEAN
  BY DEF old
<1>7. /\ RulesPermit(Input({}), version) = TRUE
      /\ RulesPermit(Input({IgnoreInstructions, ApiKeys}), version) = FALSE
      /\ RulesPermit(Input({NpmrcFiles}), version) = old
      /\ RulesPermit(ToolCall("repository-reader"), version) = TRUE
      /\ RulesPermit(ToolCall("production-deployer"), version) = FALSE
      /\ RulesPermit(ToolCall("unknown-tool"), version) = FALSE
      /\ RulesPermit(Output({}), version) = TRUE
      /\ RulesPermit(Output({"SECRET_PATTERN"}), version) = FALSE
      /\ RulesPermit(Output({"PRIVATE_KEY"}), version) = old
  BY <1>1, <1>2, <1>3, <1>5, <1>6, Zenon
<1>8. ASSUME NEW d \in Diagnostics(version) PROVE RulesPermit(d[1], version) = d[2]
  <2>1. \E c, verdict : d = <<c, verdict>> /\ RulesPermit(c, version) = verdict
    BY <1>4, <1>7, <1>8, Zenon
  <2>2. PICK c, verdict : d = <<c, verdict>> /\ RulesPermit(c, version) = verdict
    BY <2>1
  <2>3. d[1] = c /\ d[2] = verdict
    BY <2>2
  <2> QED
    BY <2>2, <2>3, Zenon
<1> QED
  BY <1>8 DEF DiagnosticsPass

\* 1.1.0 denies what 1.0.0 denies, and what it adds.
LEMMA NewVersionRestricts ==
    ASSUME NEW context, context.point \in Points
    PROVE  LET added == \/ context.point = "PRE_INPUT" /\ NpmrcFiles \in context.input
                        \/ context.point = "PRE_OUTPUT" /\ "PRIVATE_KEY" \in context.output
           IN  RulesPermit(context, "1.1.0") <=> RulesPermit(context, "1.0.0") /\ ~added
<1>1. "1.0.0" \in SupportedVersions /\ "1.1.0" \in SupportedVersions /\ "1.0.0" # "1.1.0"
  BY DEF SupportedVersions
<1>2. CASE context.point = "PRE_INPUT"
  BY <1>1, <1>2, InputPermits
<1>3. CASE context.point = "PRE_TOOL"
  BY <1>1, <1>3, ToolPermits
<1>4. CASE context.point = "PRE_OUTPUT"
  BY <1>1, <1>4, OutputPermits
<1> QED
  BY <1>2, <1>3, <1>4 DEF Points

\* A verdict that permits is one that the identity checks and the rules of the
\* deployed version both gave.
PipelineIInv ==
    /\ PipelineTypeOK
    /\ \A j \in judged : j.permitted =>
           /\ TRUE \in IdentityAnswers(j.request)
           /\ RulesPermit(j.request.context, j.version)

LEMMA InitPipelineIInv == PipelineInit => PipelineIInv
  BY DEF PipelineInit, PipelineIInv, PipelineTypeOK

LEMMA NextPipelineIInv == PipelineIInv /\ [PipelineNext]_pipelineVars => PipelineIInv'
<1> SUFFICES ASSUME PipelineIInv, [PipelineNext]_pipelineVars PROVE PipelineIInv'
  OBVIOUS
<1>1. ASSUME NEW version \in SupportedVersions, Deploy(version) PROVE PipelineIInv'
  BY <1>1 DEF Deploy, PipelineIInv, PipelineTypeOK
<1>2. ASSUME NEW request \in Request, Judge(request) PROVE PipelineIInv'
  <2>1. PICK answer \in IdentityAnswers(request) :
            judged' = {[version |-> deployed, request |-> request,
                        permitted |-> answer /\ RulesPermit(request.context, deployed)]}
    BY <1>2, Zenon DEF Judge
  <2>2. deployed' = deployed /\ deployed \in SupportedVersions
    BY <1>2 DEF Judge, PipelineIInv, PipelineTypeOK
  <2>3. answer \in BOOLEAN
    <3>1. request.context.point \in Points
      BY OffersAssumption DEF Request, Context
    <3>2. RequireCodeReviewClaim(request) \in BOOLEAN
      BY DEF RequireCodeReviewClaim
    <3>3. AuthorizeToolRequest(request) \subseteq BOOLEAN
      BY DEF AuthorizeToolRequest, ScopeAuthorized
    <3> QED
      BY <3>1, <3>2, <3>3 DEF IdentityAnswers, Points
  <2> DEFINE verdict == answer /\ RulesPermit(request.context, deployed)
  <2> DEFINE j == [version |-> deployed, request |-> request, permitted |-> verdict]
  <2>4. verdict \in BOOLEAN
    OBVIOUS
  <2>5. verdict => TRUE \in IdentityAnswers(request) /\ RulesPermit(request.context, deployed)
    BY <2>3
  <2> HIDE DEF verdict
  <2>6. /\ j \in [version : SupportedVersions, request : Request, permitted : BOOLEAN]
        /\ j.version = deployed /\ j.request = request /\ j.permitted = verdict
    BY <2>2, <2>4
  <2>7. judged' = {j}
    BY <2>1 DEF verdict
  <2> HIDE DEF j
  <2>8. PipelineTypeOK'
    BY <2>2, <2>6, <2>7 DEF PipelineTypeOK
  <2>9. \A i \in judged' : i.permitted =>
            TRUE \in IdentityAnswers(i.request) /\ RulesPermit(i.request.context, i.version)
    BY <2>5, <2>6, <2>7
  <2> QED
    BY <2>8, <2>9 DEF PipelineIInv
<1>3. ASSUME UNCHANGED pipelineVars PROVE PipelineIInv'
  BY <1>3 DEF pipelineVars, PipelineIInv, PipelineTypeOK
<1> QED
  BY <1>1, <1>2, <1>3 DEF PipelineNext

LEMMA PipelineInvariantHolds == PipelineSpec => []PipelineIInv
  BY InitPipelineIInv, NextPipelineIInv, PTL DEF PipelineSpec

LEMMA PermittedThroughEveryLayer == PipelineIInv => ToolNeedsEveryLayer
<1> SUFFICES ASSUME PipelineIInv, NEW j \in judged,
                    j.permitted, j.request.context.point = "PRE_TOOL"
             PROVE  LET request == j.request
                        tool == request.context.tool
                    IN  /\ \E t \in request.inventory : t.name = tool /\ request.scope \in t.scopes
                        /\ request.scope \in request.claims
                        /\ \E ring \in 0 .. 2 : Folded[tool] \in RingTools[ring]
  BY DEF ToolNeedsEveryLayer
<1> DEFINE request == j.request
<1> DEFINE tool == request.context.tool
<1>1. TRUE \in IdentityAnswers(request) /\ RulesPermit(request.context, j.version)
  BY DEF PipelineIInv
<1>2. j.version \in SupportedVersions
  BY DEF PipelineIInv, PipelineTypeOK
<1> HIDE DEF request
<1>3. request.context.point = "PRE_TOOL"
  BY DEF request
<1>4. TRUE \in AuthorizeToolRequest(request)
  BY <1>1, <1>3 DEF IdentityAnswers
<1>5. PICK t \in FindTool(request) : ScopeAuthorized(request, t)
  BY <1>4 DEF AuthorizeToolRequest
<1>6. /\ t \in request.inventory /\ t.name = tool
      /\ request.scope \in t.scopes /\ request.scope \in request.claims
  BY <1>5 DEF FindTool, ScopeAuthorized
<1>7. Folded[tool] \in AllowedTools
  BY <1>1, <1>2, <1>3, ToolPermits
<1>8. \A name \in AllowedTools : \E ring \in 0 .. 2 : name \in RingTools[ring]
  <2>1. /\ "prompt-code-reader" \in RingTools[0] /\ "repository-reader" \in RingTools[1]
        /\ "unit-test-runner" \in RingTools[2] /\ "sast-scanner" \in RingTools[1]
    BY DEF RingTools
  <2>2. 0 \in 0 .. 2 /\ 1 \in 0 .. 2 /\ 2 \in 0 .. 2
    OBVIOUS
  <2> QED
    BY <2>1, <2>2 DEF AllowedTools
<1> QED
  BY <1>6, <1>7, <1>8 DEF request

LEMMA VersionsCompare == PipelineIInv => HardeningOnlyRestricts
<1> SUFFICES ASSUME PipelineIInv PROVE HardeningOnlyRestricts
  OBVIOUS
<1>1. deployed # NoVersion => DiagnosticsPass(deployed)
  BY VersionsPassDiagnostics DEF PipelineIInv, PipelineTypeOK
<1>2. ASSUME NEW j \in judged PROVE j.request.context.point \in Points
  <2>1. j.request.context \in Contexts
    BY DEF PipelineIInv, PipelineTypeOK, Request
  <2> QED
    BY <2>1, OffersAssumption DEF Context
<1>3. ASSUME NEW j \in judged
      PROVE  LET context == j.request.context
                 added == \/ context.point = "PRE_INPUT" /\ NpmrcFiles \in context.input
                          \/ context.point = "PRE_OUTPUT" /\ "PRIVATE_KEY" \in context.output
             IN  RulesPermit(context, "1.1.0") <=> RulesPermit(context, "1.0.0") /\ ~added
  BY <1>2, NewVersionRestricts
<1> QED
  BY <1>1, <1>3, Zenon DEF HardeningOnlyRestricts, NpmrcFiles

\* The types of the pipeline's variables.
THEOREM PipelineTypeCorrect == PipelineSpec => []PipelineTypeOK
<1>1. PipelineIInv => PipelineTypeOK
  BY DEF PipelineIInv
<1> QED
  BY <1>1, PipelineInvariantHolds, PTL

\* However the request's inventory and claims are chosen, the spelling of the
\* tool included, no call of a tool is permitted that one of the layers refuses.
THEOREM ToolsNeedEveryLayer == PipelineSpec => []ToolNeedsEveryLayer
  BY PipelineInvariantHolds, PermittedThroughEveryLayer, PTL

\* 1.1.0 takes from 1.0.0 what it says it takes, and from every payload.
THEOREM HardeningRestricts == PipelineSpec => []HardeningOnlyRestricts
  BY PipelineInvariantHolds, VersionsCompare, PTL
=============================================================================
