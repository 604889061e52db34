SPECIFICATION Spec
SYMMETRY Symmetry
CONSTANTS
  ReqIDs = {r1}
  Codes = {c1}
  ATs = {t1, t2, t3}
  RTs = {f1, f2, f3}
  Clients = {spa}
  Users = {alice, bob}
  Keys = {k1, k2}
  Scopes = {openid, profile}
  LogoutClients = {}
  Nil = Nil
  Procs = {p1, p2}
  RefreshClients = {spa}
  PublicClients = {spa}
  PairwiseClients = {}
  ResourceClients = {}
  Hints = {"none"}
  LoginForm = FALSE
  InvalidateRefreshOnUse = TRUE
INVARIANTS
    TypeOK
    LineageFaithful
    
    ReplayRevokesTracked
    
    RevokedStaysInactive
    DPoPContinuity
