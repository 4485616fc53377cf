CONSTANTS
    c1 = c1
    c2 = c2
    o1 = o1
    o2 = o2
    a = a
    b = b
    Default = Default
    Calls <- MCCalls
    Observers <- MCObservers
    Points <- MCPoints
    Policies <- MCPolicies
    PolicySets <- MCPolicySets
    MaxAttached = 3

SPECIFICATION Spec

INVARIANTS
    RunnerTypeOK
    DenialIsFinal
    ReleaseHasEvidence

PROPERTIES PassedInOrder

SYMMETRY Symmetry

CHECK_DEADLOCK FALSE
