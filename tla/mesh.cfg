CONSTANTS
    n1 = n1
    n2 = n2
    n3 = n3
    r1 = r1
    r2 = r2
    r3 = r3
    signer = signer
    stranger = stranger
    receiver = receiver
    patch = patch
    tests = tests
    creation = creation
    completion = completion
    repo1 = repo1
    repo2 = repo2
    Blank = Blank
    Nonces <- MCNonces
    Requests <- MCRequests
    Issuers <- MCIssuers
    Identities <- MCIdentities
    Scopes <- MCScopes
    Phases <- MCPhases
    Repositories <- MCRepositories
    Point = "ingress"
    Configurations <- MCConfigurations
    Presented <- MCPresented
    Skew = 1
    MaxLifetime = 2
    MaxTime = 4

SPECIFICATION Spec

INVARIANTS
    MeshTypeOK
    OneUseWhileValid
    SpentByItsToken
    NotReadyAllowsNothing
    UsesBounded

SYMMETRY Symmetry

CHECK_DEADLOCK FALSE
