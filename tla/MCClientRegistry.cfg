SPECIFICATION Spec
CONSTANTS
    Ids = {c1, c2}
    Managers = {m1, m2}
    Callers = {p1}
    Users = {u1}
    FirstKeys <- MCFirstKeys
    NewKeys <- MCNewKeys
    AnyUse = {1}
    Profiles <- MCProfiles
    Credentials <- MCCredentials
SYMMETRY Symmetry
INVARIANTS
    RegistryAgrees
    ServedByRight
    
CHECK_DEADLOCK FALSE
