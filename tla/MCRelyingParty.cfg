SPECIFICATION Spec
CONSTANTS
    Browsers = {b1, b2}
    Logins = {1, 2}
    Requests = {1, 2, 3}
    Documents <- MCDocuments
    Kinds <- MCKinds
    Skews <- MCSkews
    Delays = {0, 5}
    Lifetime = 8
SYMMETRY Symmetry
INVARIANTS
    LoginIsOwn
    RefusedForCause
    AcceptedIsOurs
CHECK_DEADLOCK FALSE
