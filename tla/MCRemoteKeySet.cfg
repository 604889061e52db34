SPECIFICATION FairSpec
CONSTANTS
  k1 = k1
  k2 = k2
  k3 = k3
  x = x
  a = a
  b = b
  Callers = {c1, c2}
  Keys = {k1, k2, k3, x}
  Foreign = {x}
  FirstKey = k1
  Kids = {a, b}
  Kid <- MCKid
  SkipRemoteCheck = FALSE
  MaxChanges = 2
  MaxFetches = 2
  Nil = Nil
INVARIANTS
    RejectedForCause
PROPERTIES
    CacheNeverGoesBack
    EveryCallReturns
CHECK_DEADLOCK FALSE
