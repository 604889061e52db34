SPECIFICATION Spec
CONSTANTS
    ClientOf <- MCClientOf
    Query <- MCQuery
    QueryWith <- MCQueryWith
    Pushed <- MCPushed
    Objects <- MCObjects
    Subjects = {"alice", "bob"}
    EarlierFor = {"web", "app"}
    Keys = {"k1"}
    EnableImplicit = TRUE
    HasJARMSigner = TRUE
    ParLifetime = 1
    MaxTime = 2
    MaxReq = 1
    MaxPar = 1
INVARIANTS
    
    ParametersVouched
    SilentFaithful
    PushedLifetime
    
CHECK_DEADLOCK FALSE
