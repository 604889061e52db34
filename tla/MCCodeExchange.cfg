SPECIFICATION Spec
SYMMETRY Symmetry
CONSTANTS
  ReqIDs = {r1, r2}
  Codes = {c1, c2}
  ATs = {t1, t2}
  RTs = {}
  Clients = {web, spa}
  Users = {alice}
  Keys = {k1}
  Scopes = {openid}
  LogoutClients = {web}
  Nil = Nil
  Procs = {p1, p2}
  RefreshClients = {}
  PublicClients = {spa}
  PairwiseClients = {spa}
  ResourceClients = {spa}
  Hints = {"access_token"}
  LoginForm = TRUE
  InvalidateRefreshOnUse = FALSE
INVARIANTS
    CodeSingleUse
PROPERTIES
    ImplementsCodeGrant
