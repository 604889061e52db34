SPECIFICATION FairSpec
CONSTANTS
  ReqIDs = {q1}
  Clients = {c1}
  Pollers = {p1, p2}
  Approvers = {a1, a2}
  Modes = {"poll", "ping"}
  PollInterval = 1
  Increment = 1
  Lifetime = 1
  MaxNow = 2
  MaxIssued = 2
  MaxFails = 1
  MaxSlowdowns = 1
  Nil = Nil
INVARIANTS
    AnswersSound
    TokensNeedApproval
PROPERTIES
    ApprovedIsServed
CHECK_DEADLOCK FALSE
