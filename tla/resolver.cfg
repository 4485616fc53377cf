CONSTANTS
    n1 = n1
    v1 = v1
    v2 = v2
    t1 = t1
    t2 = t2
    a1 = a1
    NoVersion = NoVersion
    NoEntry = NoEntry
    Names <- MCNames
    Versions <- MCVersions
    Registered <- MCRegistered
    Threads <- MCThreads
    Activators <- MCActivators
    KeysInUse <- MCKeysInUse
    MaxGeneration = 3

SPECIFICATION Spec

INVARIANTS
    ResolverTypeOK
    AnswerWasActive
    CacheCoherent

PROPERTY ResolveIsAtomic

SYMMETRY Symmetry
