----------------------- MODULE SecureCodingPolicySet -----------------------
(***************************************************************************)
(* The rule sets of the SecureCodingAgent in their two versions            *)
(* (python/governance/coding_policy_set.py), and the rings of its tools    *)
(* (python/governance/rings.py).                                           *)
(***************************************************************************)
EXTENDS PolicyEngine

SupportedVersions == {"1.0.0", "1.1.0"}

Rule(name, priority, kind, value, action) ==
    [name |-> name, priority |-> priority, kind |-> kind, value |-> value, action |-> action]

RuleSet(name, version, point, rules, annotations) ==
    [name |-> name, version |-> version, point |-> point,
     rules |-> rules, annotations |-> annotations]

CatchAll(name, action) == <<Rule(name, 9999, "match_all", NoValue, action)>>

\* Mutant: the new rule of 1.1.0 takes the place of an old one.
InputRulesReplaced(version) == RuleSet("secure-coding-input", version, "PRE_INPUT",
    <<Rule("deny_ignore_previous_instructions", 100, "input_contains",
           "ignore previous instructions", "deny"),
      Rule("deny_read_all_env_files", 110, "input_contains", "read every .env", "deny"),
      Rule("deny_print_environment", 120, "input_contains", "print environment variables", "deny")>>
    \o (IF version = "1.1.0"
        THEN <<Rule("deny_npmrc_collection", 130, "input_contains", "read every .npmrc", "deny")>>
        ELSE <<Rule("deny_reveal_api_keys", 130, "input_contains", "reveal api keys", "deny")>>)
    \o CatchAll("allow_standard_code_review", "allow"),
    {[risk |-> "T6", capability |-> "preinput_goal_policy"]})

InputRules(version) == RuleSet("secure-coding-input", version, "PRE_INPUT",
    <<Rule("deny_ignore_previous_instructions", 100, "input_contains",
           "ignore previous instructions", "deny"),
      Rule("deny_read_all_env_files", 110, "input_contains", "read every .env", "deny"),
      Rule("deny_print_environment", 120, "input_contains", "print environment variables", "deny"),
      Rule("deny_reveal_api_keys", 130, "input_contains", "reveal api keys", "deny")>>
    \o (IF version = "1.1.0"
        THEN <<Rule("deny_npmrc_collection", 140, "input_contains", "read every .npmrc", "deny")>>
        ELSE <<>>)
    \o CatchAll("allow_standard_code_review", "allow"),
    {[risk |-> "T6", capability |-> "preinput_goal_policy"]})

ToolRule(name, priority, tool, action) == Rule(name, priority, "tool_is", tool, action)

ToolRules(version) == RuleSet("secure-coding-tool", version, "PRE_TOOL",
    <<ToolRule("deny_production_deployer", 100, "production-deployer", "deny"),
      ToolRule("deny_terminal_executor", 110, "terminal-executor", "deny"),
      ToolRule("deny_git_push", 120, "git-push", "deny"),
      ToolRule("allow_prompt_code_reader", 490, "prompt-code-reader", "allow"),
      ToolRule("allow_repository_reader", 500, "repository-reader", "allow"),
      ToolRule("allow_unit_test_runner", 510, "unit-test-runner", "allow"),
      ToolRule("allow_sast_scanner", 520, "sast-scanner", "allow")>>
    \o CatchAll("deny_unlisted_tool", "deny"),
    {[risk |-> "T2", capability |-> "tool_allowlist"],
     [risk |-> "T3", capability |-> "least_privilege_tool_scopes"]})

OutputRules(version) == RuleSet("secure-coding-output", version, "PRE_OUTPUT",
    <<Rule("deny_high_confidence_credential", 100, "output_regex", "SECRET_PATTERN", "deny")>>
    \o (IF version = "1.1.0"
        THEN <<Rule("deny_private_key_material", 110, "output_regex", "PRIVATE_KEY", "deny")>>
        ELSE <<>>)
    \o CatchAll("allow_standard_security_review", "allow"),
    {})

\* What register_all registers.
LabRuleSets ==
    {InputRules(v) : v \in SupportedVersions} \cup {ToolRules(v) : v \in SupportedVersions}
        \cup {OutputRules(v) : v \in SupportedVersions}

\* SECURE_CODING_ASSIGNMENTS.
RingTools == [r \in 0 .. 3 |->
    CASE r = 0 -> {"prompt-code-reader"}
      [] r = 1 -> {"repository-reader", "sast-scanner"}
      [] r = 2 -> {"unit-test-runner", "dependency-advisory-lookup"}
      [] r = 3 -> {"terminal-executor", "git-push", "production-deployer"}]

\* The code writes its tools' names in lower case, and compiles its patterns.
ASSUME LabNamesAssumption ==
    /\ \A ring \in 0 .. 3 : \A name \in RingTools[ring] : name \in Texts /\ Folded[name] = name
    /\ {"SECRET_PATTERN", "PRIVATE_KEY"} \subseteq Patterns
=============================================================================
