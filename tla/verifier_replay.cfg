CONSTANTS
    n1 = n1
    n2 = n2
    n3 = n3
    n4 = n4
    n5 = n5
    t1 = t1
    t2 = t2
    patch = patch
    tests = tests
    creation = creation
    repo1 = repo1
    repo2 = repo2
    Unknown = Unknown
    Nonces <- MCNonces
    Threads <- MCThreads
    Scopes <- MCScopes
    Phases <- MCPhases
    Repositories <- MCRepositories
    Presented <- MCPresented
    Skew = 1
    MaxLifetime = 2
    MaxTime = 5
    MaxRestarts = 0

SPECIFICATION Spec

INVARIANT FirstUseOnly

SYMMETRY Symmetry

CHECK_DEADLOCK FALSE
