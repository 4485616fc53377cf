CONSTANTS
    c1 = c1
    c2 = c2
    c3 = c3
    Calls <- MCCalls
    MaxConcurrency = 2

SPECIFICATION FairSpec

INVARIANTS
    RuntimeTypeOK
    WorkersCapped
    SlotsAccounted
    WorkersAuthorized

PROPERTY CallsAnswered

CHECK_DEADLOCK FALSE
