----------------------------- MODULE CibaGrant -----------------------------
(***************************************************************************)
(* The CIBA grant: a client starts a request at the backchannel endpoint,  *)
(* the user decides it on the approval page, the client polls the token    *)
(* endpoint.                                                                *)
(*                                                                         *)
(* GetCIBARequestByAuthReqID returns the stored pointer: pollers and       *)
(* approval handlers read, and the approval handlers write, the shared     *)
(* record outside s.lock.  A goroutine is cut before every write to it and *)
(* before the tokens are created, and reads what the record holds then.    *)
(* No process deletes a request: DeleteCIBARequest has no caller.          *)
(***************************************************************************)
EXTENDS Integers, FiniteSets

CONSTANTS
  ReqIDs,        \* auth_req_ids
  Clients,       \* clients with the CIBA grant type
  Pollers,       \* concurrent token requests
  Approvers,     \* concurrent approval requests (browser tabs)
  Modes,         \* delivery modes in use, a subset of {"poll", "ping"}
  PollInterval,  \* token.Config.DevicePollInterval
  Increment,     \* what slow_down adds (the program: 5 seconds)
  Lifetime,      \* ciba.Config.Lifetime
  MaxNow,        \* bound: the clock stops here
  MaxIssued,     \* bound: token responses per request
  MaxFails,      \* bound: failures of token creation
  MaxSlowdowns,  \* bound: slow_down answers per request
  Nil

ASSUME CibaAssumption ==
  /\ Nil \notin ReqIDs \cup Clients \cup Nat
  /\ Modes \subseteq {"poll", "ping"}
  /\ {PollInterval, Increment, Lifetime} \subseteq Nat \ {0}
  /\ {MaxNow, MaxIssued, MaxFails, MaxSlowdowns} \subseteq Nat

VARIABLES
  now,       \* the wall clock
  requests,  \* s.cibaRequests
  poll,      \* pollers: where they stand and their locals
  approval,  \* approval handlers: where they stand and their locals
  issued,    \* history: token responses per request
  fails,     \* history: failed token creations
  approved,  \* history: requests some user action approved
  pinged,    \* history: requests whose client received a notification
  pendings,  \* history: the last two times a poll was answered "pending"
  slowdowns, \* history: slow_down answers per request
  overlapped \* history: requests polled while another poll of them was running

vars == <<now, requests, poll, approval, issued, fails, approved, pinged,
          pendings, slowdowns, overlapped>>
histVars == <<issued, fails, approved, pinged, pendings, slowdowns, overlapped>>

Time == 0..MaxNow
Statuses == {"pending", "approved", "denied", "consumed"}

\* storm.CIBARequest.
CIBARequest == [client : Clients, mode : Modes, status : Statuses, expires : Nat,
                lastPoll : Time \cup {Nil}, interval : Nat]

\* No request is Go's nil.
ASSUME RequestAssumption == Nil \notin CIBARequest

IdlePoll == [pc |-> "idle", id |-> Nil, at |-> Nil]
IdleApproval == [pc |-> "idle", id |-> Nil, status |-> Nil]

TypeOK ==
  /\ now \in Time
  /\ requests \in [ReqIDs -> CIBARequest \cup {Nil}]
  /\ poll \in [Pollers -> [pc : {"idle", "bump", "stamp", "issue", "consume"},
                           id : ReqIDs \cup {Nil}, at : Time \cup {Nil}]]
  /\ approval \in [Approvers -> [pc : {"idle", "update", "rewrite", "notify"},
                                 id : ReqIDs \cup {Nil},
                                 status : {"approved", "denied", Nil}]]
  /\ issued \in [ReqIDs -> 0..MaxIssued]
  /\ fails \in 0..MaxFails
  /\ approved \subseteq ReqIDs
  /\ pinged \subseteq ReqIDs
  /\ pendings \in [ReqIDs -> [last : Time \cup {Nil}, before : Time \cup {Nil}]]
  /\ slowdowns \in [ReqIDs -> 0..MaxSlowdowns]
  /\ overlapped \subseteq ReqIDs

Init ==
  /\ now = 0
  /\ requests = [id \in ReqIDs |-> Nil]
  /\ poll = [p \in Pollers |-> IdlePoll]
  /\ approval = [a \in Approvers |-> IdleApproval]
  /\ issued = [id \in ReqIDs |-> 0]
  /\ fails = 0
  /\ approved = {}
  /\ pinged = {}
  /\ pendings = [id \in ReqIDs |-> [last |-> Nil, before |-> Nil]]
  /\ slowdowns = [id \in ReqIDs |-> 0]
  /\ overlapped = {}

Tick ==
  /\ now < MaxNow
  /\ now' = now + 1
  /\ UNCHANGED <<requests, poll, approval, histVars>>

-----------------------------------------------------------------------------
(* Backchannel authentication endpoint *)

\* handleBackchannelAuth with valid parameters; requested_expiry may shorten the
\* lifetime.
BackchannelAuth(id, cl, mode, life) ==
  /\ requests[id] = Nil
  /\ requests' = [requests EXCEPT ![id] =
       [client |-> cl, mode |-> mode, status |-> "pending",
        expires |-> now + life, lastPoll |-> Nil, interval |-> 0]]
  /\ UNCHANGED <<now, poll, approval, histVars>>

-----------------------------------------------------------------------------
(* Token endpoint: handleCIBA *)

Expired(id) == now > requests[id].expires

\* The interval in force: the stored one once it is positive.
Effective(id) ==
  IF requests[id].interval > 0 THEN requests[id].interval ELSE PollInterval

TooFast(id) ==
  /\ requests[id].lastPoll # Nil
  /\ now - requests[id].lastPoll < Effective(id)

\* Mutant: approved requests are subject to slow_down too.
MutSlowedDown(id) == TooFast(id)

SlowedDown(id) == requests[id].status = "pending" /\ TooFast(id)

\* The owner polls a request that is neither expired, denied nor consumed (a
\* poll that is refused, also for another client's request, leaves no trace).
\* Status, interval and last poll are read here; approved requests skip the
\* slow_down check.
Poll(p, id, cl) ==
  /\ poll[p].pc = "idle"
  /\ requests[id] # Nil
  /\ cl = requests[id].client
  /\ ~Expired(id)
  /\ requests[id].status \in {"pending", "approved"}
  /\ issued[id] < MaxIssued
  /\ SlowedDown(id) => slowdowns[id] < MaxSlowdowns
  /\ poll' = [poll EXCEPT ![p] =
       [pc |-> CASE SlowedDown(id) -> "bump"
                 [] ~SlowedDown(id) /\ requests[id].status = "approved" -> "issue"
                 [] OTHER -> "stamp",
        id |-> id, at |-> now]]
  /\ overlapped' = IF \E q \in Pollers : poll[q].id = id THEN overlapped \cup {id}
                                                          ELSE overlapped
  /\ UNCHANGED <<now, requests, approval, issued, fails, approved, pinged, pendings,
                 slowdowns>>

\* UpdateCIBAInterval and slow_down.
Bump(p) ==
  LET id == poll[p].id IN
  /\ poll[p].pc = "bump"
  /\ slowdowns[id] < MaxSlowdowns
  /\ requests' = [requests EXCEPT ![id].interval = requests[id].interval + Increment]
  /\ slowdowns' = [slowdowns EXCEPT ![id] = @ + 1]
  /\ poll' = [poll EXCEPT ![p] = IdlePoll]
  /\ UNCHANGED <<now, approval, issued, fails, approved, pinged, pendings,
                 overlapped>>

\* Mutant: the last poll time is not stored.
MutStamp(p) ==
  LET id == poll[p].id IN
  /\ poll[p].pc = "stamp"
  /\ pendings' = [pendings EXCEPT ![id] = [last |-> poll[p].at, before |-> @.last]]
  /\ poll' = [poll EXCEPT ![p] = IdlePoll]
  /\ UNCHANGED <<now, requests, approval, issued, fails, approved, pinged, slowdowns,
                 overlapped>>

\* UpdateCIBAPoll with the time of the check, and authorization_pending.
Stamp(p) ==
  LET id == poll[p].id IN
  /\ poll[p].pc = "stamp"
  /\ requests' = [requests EXCEPT ![id].lastPoll = poll[p].at]
  /\ pendings' = [pendings EXCEPT ![id] = [last |-> poll[p].at, before |-> @.last]]
  /\ poll' = [poll EXCEPT ![p] = IdlePoll]
  /\ UNCHANGED <<now, approval, issued, fails, approved, pinged, slowdowns,
                 overlapped>>

\* createTokenResponseFromTokenRequest; the status is not looked at again.
Issue(p) ==
  LET id == poll[p].id IN
  /\ poll[p].pc = "issue"
  /\ issued[id] < MaxIssued
  /\ issued' = [issued EXCEPT ![id] = @ + 1]
  /\ poll' = [poll EXCEPT ![p].pc = "consume"]
  /\ UNCHANGED <<now, requests, approval, fails, approved, pinged, pendings, slowdowns,
                 overlapped>>

\* It fails: the request keeps its status and can be polled again.
IssueFails(p) ==
  /\ poll[p].pc = "issue"
  /\ fails < MaxFails
  /\ fails' = fails + 1
  /\ poll' = [poll EXCEPT ![p] = IdlePoll]
  /\ UNCHANGED <<now, requests, approval, issued, approved, pinged, pendings, slowdowns,
                 overlapped>>

\* UpdateCIBARequestStatus(consumed) and the token response.
Consume(p) ==
  LET id == poll[p].id IN
  /\ poll[p].pc = "consume"
  /\ requests' = [requests EXCEPT ![id].status = "consumed"]
  /\ poll' = [poll EXCEPT ![p] = IdlePoll]
  /\ UNCHANGED <<now, approval, histVars>>

-----------------------------------------------------------------------------
(* Approval page: handleApprovalAction *)

\* Mutant: the user's choice is not looked at.
MutReview(a, id, status) ==
  /\ approval[a].pc = "idle"
  /\ requests[id] # Nil
  /\ requests[id].status = "pending"
  /\ ~Expired(id)
  /\ approval' = [approval EXCEPT ![a] = [pc |-> "update", id |-> id, status |-> "approved"]]
  /\ approved' = IF status = "approved" THEN approved \cup {id} ELSE approved
  /\ UNCHANGED <<now, requests, poll, issued, fails, pinged, pendings, slowdowns,
                 overlapped>>

\* The user's action on a pending request that has not expired.
Review(a, id, status) ==
  /\ approval[a].pc = "idle"
  /\ requests[id] # Nil
  /\ requests[id].status = "pending"
  /\ ~Expired(id)
  /\ approval' = [approval EXCEPT ![a] = [pc |-> "update", id |-> id, status |-> status]]
  /\ approved' = IF status = "approved" THEN approved \cup {id} ELSE approved
  /\ UNCHANGED <<now, requests, poll, issued, fails, pinged, pendings, slowdowns,
                 overlapped>>

\* Mutant: the client is notified before the decision is stored.
MutUpdate(a) ==
  LET id == approval[a].id IN
  /\ approval[a].pc = "update"
  /\ approval' = [approval EXCEPT ![a].pc =
       IF requests[id].mode = "ping" THEN "notify" ELSE "rewrite"]
  /\ UNCHANGED <<now, requests, poll, histVars>>

\* UpdateCIBARequestStatus under the lock; it does not look at the old status.
Update(a) ==
  LET id == approval[a].id IN
  /\ approval[a].pc = "update"
  /\ requests' = [requests EXCEPT ![id].status = approval[a].status]
  /\ approval' = [approval EXCEPT ![a].pc = "rewrite"]
  /\ UNCHANGED <<now, poll, histVars>>

\* req.Status is assigned once more, through the shared pointer and without the
\* lock.
Rewrite(a) ==
  LET id == approval[a].id IN
  /\ approval[a].pc = "rewrite"
  /\ requests' = [requests EXCEPT ![id].status = approval[a].status]
  /\ approval' = [approval EXCEPT ![a] =
       IF requests[id].mode = "ping" THEN [approval[a] EXCEPT !.pc = "notify"]
                                    ELSE IdleApproval]
  /\ UNCHANGED <<now, poll, histVars>>

\* notifyStatusChange: one attempt, and a failure is ignored.
Notify(a) ==
  /\ approval[a].pc = "notify"
  /\ pinged' = pinged \cup {approval[a].id}
  /\ approval' = [approval EXCEPT ![a] = IdleApproval]
  /\ UNCHANGED <<now, requests, poll, issued, fails, approved, pendings, slowdowns,
                 overlapped>>

NotifyFails(a) ==
  /\ approval[a].pc = "notify"
  /\ approval' = [approval EXCEPT ![a] = IdleApproval]
  /\ UNCHANGED <<now, requests, poll, histVars>>

-----------------------------------------------------------------------------
PollStep(p) ==
  \/ \E id \in ReqIDs, cl \in Clients : Poll(p, id, cl)
  \/ Bump(p)
  \/ Stamp(p)
  \/ Issue(p)
  \/ IssueFails(p)
  \/ Consume(p)

ApprovalStep(a) ==
  \/ \E id \in ReqIDs, status \in {"approved", "denied"} : Review(a, id, status)
  \/ Update(a)
  \/ Rewrite(a)
  \/ Notify(a)
  \/ NotifyFails(a)

Next ==
  \/ Tick
  \/ \E id \in ReqIDs, cl \in Clients, m \in Modes, life \in 1..Lifetime :
       BackchannelAuth(id, cl, m, life)
  \/ \E p \in Pollers : PollStep(p)
  \/ \E a \in Approvers : ApprovalStep(a)

\* A client polls each of its requests again and again (SF: between two polls of
\* one request it may be busy with another), and every handler that has started
\* is run to its end by the Go scheduler.  Users, the clock and new requests owe
\* nobody a step.
Fairness ==
  /\ \A p \in Pollers, id \in ReqIDs : SF_vars(\E cl \in Clients : Poll(p, id, cl))
  /\ \A p \in Pollers : WF_vars(Bump(p) \/ Stamp(p) \/ Issue(p) \/ Consume(p))
  /\ \A a \in Approvers : WF_vars(Update(a) \/ Rewrite(a) \/ Notify(a) \/ NotifyFails(a))

Spec == Init /\ [][Next]_vars
FairSpec == Spec /\ Fairness

-----------------------------------------------------------------------------
(* Properties *)

HasStatus(id, status) == requests[id] # Nil /\ requests[id].status = status
HasExpired(id) == requests[id] # Nil /\ Expired(id)

\* Tokens are issued only for a request that a user action approved, however
\* approvals, denials and polls interleave.
TokensNeedApproval == \A id \in ReqIDs : issued[id] > 0 => id \in approved

\* A notified client never finds the request pending again: the notification
\* goes out after the status is stored and no handler takes it back.
PingTellsTruth ==
  \A id \in pinged : requests[id].status # "pending"

\* As long as its polls do not overlap, a client is told authorization_pending no
\* more often than the smaller of the configured interval and the increment, the
\* stored interval starting at zero; the polls in between are slowed down.
PendingSpaced ==
  \A id \in ReqIDs \ overlapped :
    pendings[id].before # Nil =>
      LET gap == pendings[id].last - pendings[id].before IN
      gap >= PollInterval \/ gap >= Increment

\* An approved request is served however fast the client polls: it is not
\* subject to slow_down, so polling alone brings the tokens, unless the request
\* expires first or a denial from another tab overtakes the approval.
ApprovedIsServed ==
  \A id \in ReqIDs :
    HasStatus(id, "approved") ~>
      (issued[id] > 0 \/ HasExpired(id) \/ HasStatus(id, "denied"))

\* What the client is told is so: a ping means a stored decision, and answers
\* that send it away are spaced as the interval says.
AnswersSound == TypeOK /\ PingTellsTruth /\ PendingSpaced
=============================================================================
