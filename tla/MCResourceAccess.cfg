SPECIFICATION Spec
CONSTANTS
    Procs = {p1, p2}
    Keys = {k1, k2}
    Certs = {x1}
    Jtis = {j1, j2}
    Tokens = {t1}
    Clients = {"web", "bank"}
    RequireDPoP = {"bank"}
    RequireMtls = {"bank"}
    RefreshClients = {"web"}
    SignedClients = {"web"}
    GlobalDPoP = FALSE
    GlobalMtls = FALSE
    MaxProofAge = 1
    maxNonceCacheSize = 1
    MaxTime = 2
    LastSigned = 0
    Nil = Nil
SYMMETRY Symmetry
INVARIANTS
    ReplayGuarded
    
    BindingKept
CHECK_DEADLOCK FALSE
