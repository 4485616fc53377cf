SPECIFICATION LabSpec

CONSTANTS
    Ids = {h1, h2}
    MaxTimeout = 2
    MaxClock = 4
    MaxDeaths = 1
    NoSession = NoSession
    Unanswered = Unanswered

    Workflows = {w1, w2}
    Workflow = w1
    MemoryKeys = {k1}
    MemoryValues = {v1}
    WorkflowPhases = {scan, approve, done}
    WritePhases = {scan, approve}
    ReadPhases = {approve, done}
    NoEntry = NoEntry

    Texts <- MCTexts
    Patterns <- MCPatterns
    NoValue = "none"
    Folded <- MCFolded
    RuleSets <- MCRuleSets
    Contexts <- MCContexts

    Scopes <- MCScopes
    Inventories <- MCInventories
    NoVersion = "none"

    EvidenceBases <- MCEvidenceBases
    Unbound = "none"
    MaxChanges = 2

    ChainEvents = {e1, e2}
    MaxRecords = 3
    MaxAlterations = 2

INVARIANTS
    PartsTypeOK
    PhaseGated
    OrderIrrelevant
    FailsClosed
    ToolNeedsEveryLayer
    HardeningOnlyRestricts
    HonestReport
    ExitCodeIsEarned
    ChainsWithOneEndAgree

PROPERTIES
    SessionsAreLifecycles

CHECK_DEADLOCK FALSE
