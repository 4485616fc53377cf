CONSTANTS
    n1 = n1
    v1 = v1
    v2 = v2
    w1 = w1
    w2 = w2
    k1 = k1
    NoVersion = NoVersion
    NoKey = NoKey
    Corrupt = Corrupt
    Names <- MCNames
    Versions <- MCVersions
    Registered <- MCRegistered
    Workers <- MCWorkers
    IncidentKeys <- MCIncidentKeys
    Routes <- MCRoutes
    Targets <- MCTargets
    MaxAttempts = 4
    MaxFailures = 0
    MaxRestarts = 0

SPECIFICATION Spec

INVARIANT RollbackReplacesBadVersion

SYMMETRY Symmetry

CHECK_DEADLOCK FALSE
