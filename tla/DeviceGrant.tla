---------------------------- MODULE DeviceGrant ----------------------------
(***************************************************************************)
(* The device grant: a device asks for a device code and a user code, a    *)
(* user approves or denies under the user code, the device polls the token *)
(* endpoint with the device code.                                          *)
(*                                                                         *)
(* Every method of DeviceAuthStore holds its lock for its whole body and   *)
(* hands out copies, so a handler is cut between two store calls and works *)
(* on the copy it read first.  A device code is never consumed.            *)
(***************************************************************************)
EXTENDS Integers, FiniteSets

CONSTANTS
  DeviceCodes,   \* device codes that may be drawn
  UserCodes,     \* user codes that may be drawn
  Users,
  Authorizers,   \* concurrent device authorization requests
  Pollers,       \* concurrent token requests
  Advertised,    \* the interval the device is told (per-client override included)
  PollInterval,  \* token.Config.DevicePollInterval
  Increment,     \* what slow_down adds (the program: 5 seconds)
  Lifetime,      \* device.Config.Lifetime
  Cleanup,       \* TRUE: StartCleanup was called
  MaxNow,        \* bound: the clock stops here
  MaxIssued,     \* bound: token responses per device code
  MaxSlowdowns,  \* bound: slow_down answers per device code
  Nil

ASSUME DeviceAssumption ==
  /\ Nil \notin DeviceCodes \cup UserCodes \cup Users
  /\ Nil \notin Nat
  /\ IsFiniteSet(Pollers)
  /\ Cleanup \in BOOLEAN
  /\ {Advertised, PollInterval, Increment, Lifetime} \subseteq Nat \ {0}
  /\ {MaxNow, MaxIssued, MaxSlowdowns} \subseteq Nat

VARIABLES
  now,        \* the wall clock
  entries,    \* d.entries
  byCode,     \* d.byCode: the device code of the entry pointed to
  authorize,  \* device authorization handlers
  poll,       \* token handlers: where they stand and their copy of the state
  used,       \* history: device codes ever drawn
  approvals,  \* history: who approved each device code
  budget,     \* history: tokens a denial leaves possible (Nil before it)
  issued,     \* history: token responses per device code
  subjects,   \* history: subjects of the tokens per device code
  answered,   \* history: time of the last answer to a poll
  slowdowns,  \* history: slow_down answers per device code
  hasty       \* history: device codes polled before the advertised interval was over

vars == <<now, entries, byCode, authorize, poll, used, approvals, budget,
          issued, subjects, answered, slowdowns, hasty>>

Time == 0..MaxNow

\* storage.deviceAuth
DeviceAuth == [userCode : UserCodes, subject : Users \cup {Nil}, expires : Nat,
               done : BOOLEAN, denied : BOOLEAN,
               lastPoll : Time \cup {Nil}, interval : Nat]

\* No entry is Go's nil.
ASSUME EntryAssumption == Nil \notin DeviceAuth

IdleAuthorize == [pc |-> "idle", uc |-> Nil]
IdlePoll == [pc |-> "idle", dc |-> Nil, at |-> Nil, done |-> FALSE, subject |-> Nil]

TypeOK ==
  /\ now \in Time
  /\ entries \in [DeviceCodes -> DeviceAuth \cup {Nil}]
  /\ byCode \in [UserCodes -> DeviceCodes \cup {Nil}]
  /\ \A uc \in UserCodes : byCode[uc] # Nil => entries[byCode[uc]] # Nil
  /\ authorize \in [Authorizers -> [pc : {"idle", "store"}, uc : UserCodes \cup {Nil}]]
  /\ poll \in [Pollers -> [pc : {"idle", "bump", "stamp", "issue"},
                           dc : DeviceCodes \cup {Nil}, at : Time \cup {Nil},
                           done : BOOLEAN, subject : Users \cup {Nil}]]
  /\ used \subseteq DeviceCodes
  /\ approvals \in [DeviceCodes -> SUBSET Users]
  /\ budget \in [DeviceCodes -> Nat \cup {Nil}]
  /\ issued \in [DeviceCodes -> 0..MaxIssued]
  /\ subjects \in [DeviceCodes -> SUBSET (Users \cup {Nil})]
  /\ answered \in [DeviceCodes -> Time \cup {Nil}]
  /\ slowdowns \in [DeviceCodes -> 0..MaxSlowdowns]
  /\ hasty \subseteq DeviceCodes

Init ==
  /\ now = 0
  /\ entries = [d \in DeviceCodes |-> Nil]
  /\ byCode = [uc \in UserCodes |-> Nil]
  /\ authorize = [h \in Authorizers |-> IdleAuthorize]
  /\ poll = [p \in Pollers |-> IdlePoll]
  /\ used = {}
  /\ approvals = [d \in DeviceCodes |-> {}]
  /\ budget = [d \in DeviceCodes |-> Nil]
  /\ issued = [d \in DeviceCodes |-> 0]
  /\ subjects = [d \in DeviceCodes |-> {}]
  /\ answered = [d \in DeviceCodes |-> Nil]
  /\ slowdowns = [d \in DeviceCodes |-> 0]
  /\ hasty = {}

Tick ==
  /\ now < MaxNow
  /\ now' = now + 1
  /\ UNCHANGED <<entries, byCode, authorize, poll, used, approvals, budget,
                 issued, subjects, answered, slowdowns, hasty>>

Expired(d) == now > entries[d].expires

-----------------------------------------------------------------------------
(* Device authorization endpoint *)

\* Mutant: the drawn user code is not looked up.
MutUserCodeFree(uc) == TRUE

UserCodeFree(uc) == byCode[uc] = Nil

\* generateUniqueUserCode draws codes until the store does not know one (giving
\* up after maxUserCodeRetries leaves no trace).
DrawUserCode(h, uc) ==
  /\ authorize[h].pc = "idle"
  /\ UserCodeFree(uc)
  /\ authorize' = [authorize EXCEPT ![h] = [pc |-> "store", uc |-> uc]]
  /\ UNCHANGED <<now, entries, byCode, poll, used, approvals, budget, issued,
                 subjects, answered, slowdowns, hasty>>

\* StoreDeviceAuthorization under a fresh device code; it does not look whether
\* the user code was taken meanwhile.
StoreDeviceAuthorization(h, d) ==
  /\ authorize[h].pc = "store"
  /\ d \notin used
  /\ entries' = [entries EXCEPT ![d] =
       [userCode |-> authorize[h].uc, subject |-> Nil, expires |-> now + Lifetime,
        done |-> FALSE, denied |-> FALSE, lastPoll |-> Nil, interval |-> 0]]
  /\ byCode' = [byCode EXCEPT ![authorize[h].uc] = d]
  /\ used' = used \cup {d}
  /\ authorize' = [authorize EXCEPT ![h] = IdleAuthorize]
  /\ UNCHANGED <<now, poll, approvals, budget, issued, subjects, answered, slowdowns, hasty>>

-----------------------------------------------------------------------------
(* Verification page: handleDeviceApproval *)

\* Mutant: approving takes a denial back.
MutApprove(uc, user) ==
  LET d == byCode[uc] IN
  /\ d # Nil
  /\ entries' = [entries EXCEPT ![d].done = TRUE, ![d].denied = FALSE, ![d].subject = user]
  /\ approvals' = [approvals EXCEPT ![d] = @ \cup {user}]
  /\ UNCHANGED <<now, byCode, authorize, poll, used, budget, issued, subjects,
                 answered, slowdowns, hasty>>

\* ApproveDeviceAuthorization: expiry and earlier decisions are not looked at.
Approve(uc, user) ==
  LET d == byCode[uc] IN
  /\ d # Nil
  /\ entries' = [entries EXCEPT ![d].done = TRUE, ![d].subject = user]
  /\ approvals' = [approvals EXCEPT ![d] = @ \cup {user}]
  /\ UNCHANGED <<now, byCode, authorize, poll, used, budget, issued, subjects,
                 answered, slowdowns, hasty>>

InFlight(d) == {p \in Pollers : poll[p].dc = d /\ poll[p].done}

\* DenyDeviceAuthorization.
Deny(uc) ==
  LET d == byCode[uc] IN
  /\ d # Nil
  /\ entries' = [entries EXCEPT ![d].denied = TRUE]
  /\ budget' = [budget EXCEPT ![d] =
       IF @ = Nil THEN issued[d] + Cardinality(InFlight(d)) ELSE @]
  /\ UNCHANGED <<now, byCode, authorize, poll, used, approvals, issued, subjects,
                 answered, slowdowns, hasty>>

-----------------------------------------------------------------------------
(* Token endpoint: handleDeviceCode *)

\* The interval in force: the stored one once it is positive.
Effective(e) == IF e.interval > 0 THEN e.interval ELSE PollInterval

\* Mutant: a poll exactly one interval after the last one is too fast.
MutTooFast(e) == e.lastPoll # Nil /\ now - e.lastPoll <= Effective(e)

TooFast(e) == e.lastPoll # Nil /\ now - e.lastPoll < Effective(e)

\* The device has a poll under way, or has not waited the advertised interval
\* since the last answer.
TooSoon(d) == \/ \E p \in Pollers : poll[p].dc = d
              \/ answered[d] # Nil /\ now - answered[d] < Advertised

\* GetDeviceAuthorizationState and the checks on the copy; the lookup is by
\* device code alone.  Polls of unknown, expired or denied codes leave no trace.
Poll(p, d) ==
  LET e == entries[d] IN
  /\ poll[p].pc = "idle"
  /\ e # Nil
  /\ ~Expired(d)
  /\ ~e.denied
  /\ issued[d] < MaxIssued
  /\ TooFast(e) => slowdowns[d] < MaxSlowdowns
  /\ poll' = [poll EXCEPT ![p] =
       [pc |-> IF TooFast(e) THEN "bump" ELSE "stamp", dc |-> d, at |-> now,
        done |-> e.done /\ ~TooFast(e), subject |-> e.subject]]
  /\ hasty' = IF TooSoon(d) THEN hasty \cup {d} ELSE hasty
  /\ UNCHANGED <<now, entries, byCode, authorize, used, approvals, budget, issued,
                 subjects, answered, slowdowns>>

\* UpdateDeviceAuthorizationInterval (an entry cleaned up meanwhile is only
\* logged) and slow_down.
Bump(p) ==
  LET d == poll[p].dc IN
  /\ poll[p].pc = "bump"
  /\ slowdowns[d] < MaxSlowdowns
  /\ entries' = [entries EXCEPT ![d] =
       IF @ = Nil THEN Nil ELSE [@ EXCEPT !.interval = entries[d].interval + Increment]]
  /\ slowdowns' = [slowdowns EXCEPT ![d] = @ + 1]
  /\ answered' = [answered EXCEPT ![d] = now]
  /\ poll' = [poll EXCEPT ![p] = IdlePoll]
  /\ UNCHANGED <<now, byCode, authorize, used, approvals, budget, issued, subjects, hasty>>

\* Mutant: the copy's done flag is not looked at.
MutStamp(p) ==
  LET d == poll[p].dc IN
  /\ poll[p].pc = "stamp"
  /\ entries' = [entries EXCEPT ![d] =
       IF @ = Nil THEN Nil ELSE [@ EXCEPT !.lastPoll = poll[p].at]]
  /\ poll' = [poll EXCEPT ![p].pc = "issue"]
  /\ UNCHANGED <<now, byCode, authorize, used, approvals, budget, issued, subjects,
                 answered, slowdowns, hasty>>

\* UpdateDeviceAuthorizationPoll, then authorization_pending unless the copy
\* says the user approved.
Stamp(p) ==
  LET d == poll[p].dc IN
  /\ poll[p].pc = "stamp"
  /\ entries' = [entries EXCEPT ![d] =
       IF @ = Nil THEN Nil ELSE [@ EXCEPT !.lastPoll = poll[p].at]]
  /\ IF poll[p].done
     THEN /\ poll' = [poll EXCEPT ![p].pc = "issue"]
          /\ UNCHANGED answered
     ELSE /\ poll' = [poll EXCEPT ![p] = IdlePoll]
          /\ answered' = [answered EXCEPT ![d] = now]
  /\ UNCHANGED <<now, byCode, authorize, used, approvals, budget, issued, subjects,
                 slowdowns, hasty>>

\* createTokenResponseFromTokenRequest for the subject of the copy.
Issue(p) ==
  LET d == poll[p].dc IN
  /\ poll[p].pc = "issue"
  /\ issued[d] < MaxIssued
  /\ issued' = [issued EXCEPT ![d] = @ + 1]
  /\ subjects' = [subjects EXCEPT ![d] = @ \cup {poll[p].subject}]
  /\ answered' = [answered EXCEPT ![d] = now]
  /\ poll' = [poll EXCEPT ![p] = IdlePoll]
  /\ UNCHANGED <<now, entries, byCode, authorize, used, approvals, budget, slowdowns, hasty>>

\* It fails: nothing is undone, the device polls again.
IssueFails(p) ==
  /\ poll[p].pc = "issue"
  /\ answered' = [answered EXCEPT ![poll[p].dc] = now]
  /\ poll' = [poll EXCEPT ![p] = IdlePoll]
  /\ UNCHANGED <<now, entries, byCode, authorize, used, approvals, budget, issued,
                 subjects, slowdowns, hasty>>

-----------------------------------------------------------------------------
\* cleanupExpired: the user code is removed too, whoever it points to.
CleanupExpired ==
  LET old == {d \in DeviceCodes : entries[d] # Nil /\ Expired(d)} IN
  /\ Cleanup
  /\ old # {}
  /\ entries' = [d \in DeviceCodes |-> IF d \in old THEN Nil ELSE entries[d]]
  /\ byCode' = [uc \in UserCodes |->
       IF \E d \in old : entries[d].userCode = uc THEN Nil ELSE byCode[uc]]
  /\ UNCHANGED <<now, authorize, poll, used, approvals, budget, issued, subjects,
                 answered, slowdowns, hasty>>

AuthorizeStep(h) ==
  \/ \E uc \in UserCodes : DrawUserCode(h, uc)
  \/ \E d \in DeviceCodes : StoreDeviceAuthorization(h, d)

PollStep(p) ==
  \/ \E d \in DeviceCodes : Poll(p, d)
  \/ Bump(p)
  \/ Stamp(p)
  \/ Issue(p)
  \/ IssueFails(p)

UserStep(uc) ==
  \/ \E user \in Users : Approve(uc, user)
  \/ Deny(uc)

Next ==
  \/ Tick
  \/ CleanupExpired
  \/ \E h \in Authorizers : AuthorizeStep(h)
  \/ \E p \in Pollers : PollStep(p)
  \/ \E uc \in UserCodes : UserStep(uc)

Spec == Init /\ [][Next]_vars

-----------------------------------------------------------------------------
(* Properties *)

\* Tokens carry the subject of a user who approved under this device's own user
\* code, also when two users decide, when codes are cleaned up and drawn again
\* and when the poll worked on an old copy.
TokensNeedApproval == \A d \in DeviceCodes : subjects[d] \subseteq approvals[d]

\* A denial is final: only token requests that had read the approval before it
\* still bring tokens, and approving again afterwards brings none.
DenialStops ==
  \A d \in DeviceCodes : budget[d] # Nil => issued[d] <= budget[d]

\* A device that waits the advertised interval after every answer is never told
\* to slow down.
PatientNeverSlowed == \A d \in DeviceCodes : slowdowns[d] > 0 => d \in hasty

\* generateUniqueUserCode: "ensures it does not collide with an existing one in
\* the store".  Every live entry is the one its user code leads to.
UserCodesUnique ==
  \A d \in DeviceCodes :
    entries[d] # Nil /\ ~Expired(d) => byCode[entries[d].userCode] = d

\* An approval reaches the device that shows the user code and no other: user
\* codes lead to their own entries, and the tokens of an entry to its approvers.
ApprovalIsOwn == TypeOK /\ UserCodesUnique /\ TokensNeedApproval
=============================================================================
