CONSTANTS
    n1 = n1
    v1 = v1
    v2 = v2
    w1 = w1
    w2 = w2
    k1 = k1
    NoVersion = NoVersion
    NoKey = NoKey
    Corrupt = Corrupt
    Names <- MCNames
    Versions <- MCVersions
    Registered <- MCRegistered
    Workers <- MCWorkers
    IncidentKeys <- MCIncidentKeys
    Routes <- MCRoutes
    Targets <- MCTargets
    MaxAttempts = 4
    MaxFailures = 1
    MaxRestarts = 1

SPECIFICATION Spec

INVARIANTS
    OperationsTypeOK
    HistoryTruthful
    ProductionWasStaged
    OneRollbackPerIncident
    AllowedIsRecorded
    ChangeLeavesEvidence

SYMMETRY Symmetry

CHECK_DEADLOCK FALSE
