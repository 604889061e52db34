SPECIFICATION Spec
CONSTANTS
  DeviceCodes = {d1, d2}
  UserCodes = {u1}
  Users = {alice, bob}
  Authorizers = {h1}
  Pollers = {p1, p2}
  Advertised = 1
  PollInterval = 1
  Increment = 1
  Lifetime = 1
  Cleanup = TRUE
  MaxNow = 2
  MaxIssued = 2
  MaxSlowdowns = 1
  Nil = Nil
SYMMETRY Symmetry
INVARIANTS
    
    DenialStops
    
CHECK_DEADLOCK FALSE
