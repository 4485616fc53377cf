--------------------------- MODULE MCLabComponents ---------------------------
(***************************************************************************)
(* The components of the lab that share no state, side by side, for TLC.   *)
(* To add their states up instead of multiplying them, only one of them    *)
(* leaves its initial state in a behaviour.                                *)
(***************************************************************************)
EXTENDS HandoffStore, SharedMemorySegment, VersionedPipeline, ControlCoverage, AuditChain

LabTools == UNION {RingTools[r] : r \in 0 .. 3}
Spellings == {"Git-Push", "Repository-Reader"}
LabPhrases == {"ignore previous instructions", "read every .env", "print environment variables",
               "reveal api keys", "read every .npmrc"}

MCTexts == LabTools \cup Spellings \cup LabPhrases \cup {"unknown-tool"}
MCPatterns == {"SECRET_PATTERN", "PRIVATE_KEY"}
MCFolded == [t \in MCTexts |-> CASE t = "Git-Push" -> "git-push"
                                 [] t = "Repository-Reader" -> "repository-reader"
                                 [] OTHER -> t]

\* Rule sets as a maintainer may draft them: right ones, ambiguous ones, ones
\* whose catch-all is missing or not last, ones whose values are of the wrong kind.
DraftRules == {
    Rule("deny", 1, "input_contains", "reveal api keys", "deny"),
    Rule("allow", 1, "input_contains", "read every .env", "allow"),
    Rule("allow", 2, "input_contains", "read every .env", "allow"),
    Rule("tool", 2, "tool_is", "git-push", "deny"),
    Rule("text-as-pattern", 1, "output_regex", "reveal api keys", "deny"),
    Rule("pattern-as-text", 1, "input_contains", "SECRET_PATTERN", "deny"),
    Rule("valueless", 0, "tool_is", NoValue, "deny"),
    Rule("rest", 2, "match_all", NoValue, "allow"),
    Rule("rest", 3, "match_all", NoValue, "deny")}

MCRuleSets ==
    {RuleSet("draft", "1.0.0", point, rules, {}) :
        point \in {"PRE_INPUT", "PRE_OUTPUT"}, rules \in UNION {[1 .. n -> DraftRules] : n \in 0 .. 3}}

MCContexts ==
    {At("PRE_INPUT", input, "unknown-tool", {}) : input \in SUBSET LabPhrases}
    \cup {At("PRE_TOOL", {}, tool, {}) : tool \in LabTools \cup Spellings \cup {"unknown-tool"}}
    \cup {At("PRE_OUTPUT", {}, "unknown-tool", output) : output \in SUBSET MCPatterns}

MCScopes == {"code:review", "repo:read"}

MCInventories ==
    {{[name |-> t, scopes |-> {"repo:read"}] : t \in LabTools},
     {[name |-> t, scopes |-> {"code:review", "repo:read"}] : t \in Spellings},
     {[name |-> "repository-reader", scopes |-> {"repo:read"}],
      [name |-> "repository-reader", scopes |-> {"code:review"}]}}

\* The lab's evidence, and that of a deployment which closes every risk it can.
MCEvidenceBases ==
    LET addressed == UNION {Matrix[risk].needs : risk \in {r \in Risks : Matrix[r].addressable}}
    IN  {LabEvidence, UNION {Tested({n.capability}, n.layer, n.point) : n \in addressed}}

-----------------------------------------------------------------------------
LabInit == HandoffInit /\ MemoryInit /\ EngineInit /\ PipelineInit /\ CoverageInit /\ ChainInit

handoffIdle == clock = 0 /\ deaths = 0 /\ \A id \in Ids : told[id] = Unanswered
memoryIdle == \A key \in MemoryKeys : entries[key] = NoEntry
engineIdle == store = {}
pipelineIdle == deployed = NoVersion
coverageIdle == base = LabEvidence /\ attached = {} /\ changes = 0
chainIdle == records = <<>>

LabNext ==
    \/ /\ memoryIdle /\ engineIdle /\ pipelineIdle /\ coverageIdle /\ chainIdle
       /\ HandoffNext
       /\ UNCHANGED <<memoryVars, store, pipelineVars, coverageVars, chainVars>>
    \/ /\ handoffIdle /\ engineIdle /\ pipelineIdle /\ coverageIdle /\ chainIdle
       /\ MemoryNext
       /\ UNCHANGED <<handoffVars, store, pipelineVars, coverageVars, chainVars>>
    \/ /\ handoffIdle /\ memoryIdle /\ pipelineIdle /\ coverageIdle /\ chainIdle
       /\ EngineNext
       /\ UNCHANGED <<handoffVars, memoryVars, pipelineVars, coverageVars, chainVars>>
    \/ /\ handoffIdle /\ memoryIdle /\ engineIdle /\ coverageIdle /\ chainIdle
       /\ PipelineNext
       /\ UNCHANGED <<handoffVars, memoryVars, store, coverageVars, chainVars>>
    \/ /\ handoffIdle /\ memoryIdle /\ engineIdle /\ pipelineIdle /\ chainIdle
       /\ CoverageNext
       /\ UNCHANGED <<handoffVars, memoryVars, store, pipelineVars, chainVars>>
    \/ /\ handoffIdle /\ memoryIdle /\ engineIdle /\ pipelineIdle /\ coverageIdle
       /\ ChainNext
       /\ UNCHANGED <<handoffVars, memoryVars, store, pipelineVars, coverageVars>>

LabSpec == LabInit /\ [][LabNext]_<<handoffVars, memoryVars, store, pipelineVars,
                                    coverageVars, chainVars>>

\* Every component's variables keep their types.
PartsTypeOK ==
    HandoffTypeOK /\ MemoryTypeOK /\ EngineTypeOK /\ PipelineTypeOK
        /\ CoverageTypeOK /\ ChainTypeOK
=============================================================================
