---------------------------- MODULE PolicyEngine ----------------------------
(***************************************************************************)
(* Rule sets, their validation, registration and evaluation                *)
(* (python/governance/policy_engine.py).                                   *)
(*                                                                         *)
(* A payload is what the rules can tell of it: the texts it contains, in   *)
(* any case, the name of a tool, and the patterns that match it.  A reason *)
(* is the name of the rule that it quotes.                                 *)
(***************************************************************************)
EXTENDS Naturals, Sequences

CONSTANTS
    Texts,      \* texts that are looked for, and names of tools
    Patterns,   \* compiled patterns
    NoValue,    \* the condition of a catch-all
    Folded,     \* str.casefold, on the texts in use
    RuleSets,   \* bound: the rule sets that are offered for registration
    Contexts    \* bound: the payloads that are evaluated

ASSUME EngineAssumption ==
    /\ Texts \cap Patterns = {}
    /\ NoValue \notin Texts \cup Patterns
    /\ Folded \in [Texts -> Texts]

Points == {"PRE_INPUT", "PRE_TOOL", "PRE_OUTPUT"}
ConditionKinds == {"match_all", "input_contains", "tool_is", "output_regex"}

PolicyRule == [name : STRING, priority : Nat, kind : ConditionKinds,
               value : Texts \cup Patterns \cup {NoValue}, action : {"allow", "deny"}]
Annotation == [risk : STRING, capability : STRING]
PolicyRuleSet == [name : STRING, version : STRING, point : Points,
                  rules : Seq(PolicyRule), annotations : SUBSET Annotation]
Context == [point : Points, input : SUBSET Texts, tool : Texts, output : SUBSET Patterns]

ASSUME OffersAssumption ==
    /\ \A ruleSet \in RuleSets : ruleSet \in PolicyRuleSet
    /\ Contexts \subseteq Context

VARIABLE store  \* the rule sets of a PolicyRegistry

EngineTypeOK == store \subseteq RuleSets

-----------------------------------------------------------------------------
(* PolicyValidator                                                          *)

LastAndOnly(rules, i) ==
    \A j \in DOMAIN rules :
        /\ rules[j].kind = "match_all" => j = i
        /\ rules[j].priority <= rules[i].priority

\* Mutant: equal priorities are let through.
ValidAmbiguous(ruleSet) ==
    LET rules == ruleSet.rules IN
    /\ \A i, j \in DOMAIN rules : i # j => rules[i].name # rules[j].name
    /\ \E i \in DOMAIN rules : rules[i].kind = "match_all" /\ LastAndOnly(rules, i)
    /\ \A i \in DOMAIN rules : rules[i].kind = "match_all" \/ rules[i].value # NoValue
    /\ ruleSet.name # ""
    /\ \A a \in ruleSet.annotations : a.risk # "" /\ a.capability # ""

\* validate finds no error.  The kind of a value is not looked at: a pattern
\* where a text is due, or a text where a pattern is due, passes.
Valid(ruleSet) ==
    LET rules == ruleSet.rules IN
    /\ \A i, j \in DOMAIN rules : i # j =>
           rules[i].name # rules[j].name /\ rules[i].priority # rules[j].priority
    /\ \E i \in DOMAIN rules : rules[i].kind = "match_all" /\ LastAndOnly(rules, i)
    /\ \A i \in DOMAIN rules : rules[i].kind = "match_all" \/ rules[i].value # NoValue
    /\ ruleSet.name # ""
    /\ \A a \in ruleSet.annotations : a.risk # "" /\ a.capability # ""

-----------------------------------------------------------------------------
(* PolicyRegistry                                                           *)

Loaded(name, version) == {rs \in store : rs.name = name /\ rs.version = version}

EngineInit == store = {}

\* register, when it does not raise.
Register(ruleSet) ==
    /\ Valid(ruleSet)
    /\ Loaded(ruleSet.name, ruleSet.version) = {}
    /\ store' = store \cup {ruleSet}

-----------------------------------------------------------------------------
(* PolicyEvaluator                                                          *)

\* sorted by priority; the sort is stable.
Precedes(rules, i, j) ==
    \/ rules[i].priority < rules[j].priority
    \/ rules[i].priority = rules[j].priority /\ i < j

\* _matches.  A pattern that is looked for as a text is never found.
Matches(rule, context) ==
    \/ rule.kind = "match_all"
    \/ rule.kind = "input_contains" /\ rule.value \in context.input
    \/ /\ rule.kind = "tool_is" /\ rule.value \in Texts
       /\ Folded[rule.value] = Folded[context.tool]
    \/ rule.kind = "output_regex" /\ rule.value \in context.output

\* _matches raises: the value has no search method.
Raises(rule) == rule.kind = "output_regex" /\ rule.value \notin Patterns

Stops(rules, context) ==
    {i \in DOMAIN rules : Matches(rules[i], context) \/ Raises(rules[i])}

First(rules, found) ==
    CHOOSE i \in found : \A j \in found : j = i \/ Precedes(rules, i, j)

Denied(rule) == [permitted |-> FALSE, rule |-> rule]

\* Mutant: a rule that raises is passed over.
EvaluateErrorsSkipped(ruleSet, context) ==
    LET rules == ruleSet.rules
        found == {i \in DOMAIN rules : Matches(rules[i], context)}
    IN  IF context.point # ruleSet.point THEN Denied("attachment-point-binding")
        ELSE IF found = {} THEN Denied("default-deny")
        ELSE LET rule == rules[First(rules, found)]
             IN  [permitted |-> rule.action = "allow", rule |-> rule.name]

\* evaluate.
Evaluate(ruleSet, context) ==
    LET rules == ruleSet.rules
        found == Stops(rules, context)
    IN  IF context.point # ruleSet.point THEN Denied("attachment-point-binding")
        ELSE IF found = {} THEN Denied("default-deny")
        ELSE LET rule == rules[First(rules, found)]
             IN  IF Raises(rule) THEN Denied("evaluator-exception")
                 ELSE [permitted |-> rule.action = "allow", rule |-> rule.name]

EngineNext == \E ruleSet \in RuleSets : Register(ruleSet)

EngineSpec == EngineInit /\ [][EngineNext]_store

-----------------------------------------------------------------------------
(* Properties                                                               *)

Reorderings(rules) ==
    {[i \in DOMAIN rules |-> rules[p[i]]] :
        p \in {q \in [DOMAIN rules -> DOMAIN rules] :
                  \A j \in DOMAIN rules :
                      \E i \in DOMAIN rules : \A k \in DOMAIN rules : q[k] = j <=> k = i}}

\* "Duplicate priorities are rejected because equal priorities make the winning
\* rule ambiguous" (docs/CHAPTER-3.md): which rule decides about a payload, and
\* how, does not depend on the order in which a registered set lists its rules.
OrderIrrelevant ==
    \A ruleSet \in store, context \in Contexts : \A rules \in Reorderings(ruleSet.rules) :
        Evaluate([ruleSet EXCEPT !.rules = rules], context) = Evaluate(ruleSet, context)

\* A registered set has an answer to every payload at its own point, and it
\* permits only what the highest rule that has anything to say allows: no rule
\* that would have denied, and none that could not be evaluated, is passed over.
FailsClosed ==
    \A ruleSet \in store, context \in Contexts :
        LET answer == Evaluate(ruleSet, context)
            rules == ruleSet.rules
        IN  /\ context.point = ruleSet.point => Stops(rules, context) # {}
            /\ answer.permitted =>
                   \E i \in DOMAIN rules :
                       /\ rules[i].name = answer.rule /\ rules[i].action = "allow"
                       /\ \A j \in DOMAIN rules : Precedes(rules, j, i) =>
                              ~Matches(rules[j], context) /\ ~Raises(rules[j])
=============================================================================
