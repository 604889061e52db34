-------------------------- MODULE CibaGrantProofs --------------------------
(***************************************************************************)
(* Theorems about CibaGrant, for any number of requests, clients, pollers  *)
(* and browser tabs, and for all intervals and lifetimes.                  *)
(***************************************************************************)
EXTENDS CibaGrant, TLAPS

-----------------------------------------------------------------------------
(* Type correctness.  TypeOK is not inductive: a handler writes through    *)
(* the pointer it looked up, so the invariant also says that every handler *)
(* under way has a request that exists.                                    *)

PollOK(p) ==
  /\ poll[p].pc = "idle" => poll[p] = IdlePoll
  /\ poll[p].pc # "idle" => /\ poll[p].id \in ReqIDs
                            /\ requests[poll[p].id] # Nil
                            /\ poll[p].at \in Time

ApprovalOK(a) ==
  approval[a].pc # "idle" => /\ approval[a].id \in ReqIDs
                             /\ requests[approval[a].id] # Nil
                             /\ approval[a].status \in {"approved", "denied"}

Handlers ==
  /\ \A p \in Pollers : PollOK(p)
  /\ \A a \in Approvers : ApprovalOK(a)
  /\ \A id \in pinged : requests[id] # Nil
  /\ \A id \in ReqIDs : requests[id] = Nil => pendings[id].last = Nil

TypeInv == TypeOK /\ Handlers

\* What a write through the pointer leaves alone.
Rewrites(id) ==
  /\ requests' \in [ReqIDs -> CIBARequest \cup {Nil}]
  /\ \A x \in ReqIDs \ {id} : requests'[x] = requests[x]
  /\ requests'[id] # Nil
  /\ requests'[id].mode = requests[id].mode

\* UpdateCIBARequestStatus, and req.Status = status without the lock.
LEMMA StatusEffect ==
  ASSUME TypeOK
  PROVE  \A id \in ReqIDs, s \in Statuses :
           requests[id] # Nil /\ requests' = [requests EXCEPT ![id].status = s] =>
             /\ Rewrites(id)
             /\ requests'[id].status = s
             /\ requests'[id].lastPoll = requests[id].lastPoll
             /\ requests'[id].interval = requests[id].interval
<1> SUFFICES ASSUME NEW id \in ReqIDs, NEW s \in Statuses, requests[id] # Nil,
                    requests' = [requests EXCEPT ![id].status = s]
             PROVE  /\ Rewrites(id)
                    /\ requests'[id].status = s
                    /\ requests'[id].lastPoll = requests[id].lastPoll
                    /\ requests'[id].interval = requests[id].interval
  OBVIOUS
<1> DEFINE f == [requests[id] EXCEPT !.status = s]
<1>1. requests[id] \in CIBARequest
  BY DEF TypeOK
<1>2. requests' = [requests EXCEPT ![id] = f]
  <2>1. \A S : requests \in [ReqIDs -> S] =>
          [requests EXCEPT ![id].status = s] = [requests EXCEPT ![id] = f]
    BY <1>1
  <2> QED
    BY <2>1 DEF TypeOK
<1>3. /\ f \in CIBARequest /\ f.status = s /\ f.mode = requests[id].mode
      /\ f.lastPoll = requests[id].lastPoll /\ f.interval = requests[id].interval
  BY <1>1 DEF CIBARequest
<1> HIDE DEF f
<1>4. requests'[id] = f /\ Rewrites(id)
  BY RequestAssumption, <1>2, <1>3 DEF Rewrites, TypeOK
<1> QED
  BY <1>3, <1>4

\* UpdateCIBAInterval.
LEMMA BumpEffect ==
  ASSUME TypeInv, NEW p \in Pollers, Bump(p)
  PROVE  LET id == poll[p].id IN
         /\ id \in ReqIDs /\ requests[id] # Nil
         /\ Rewrites(id)
         /\ requests'[id].status = requests[id].status
         /\ requests'[id].lastPoll = requests[id].lastPoll
         /\ requests'[id].interval = requests[id].interval + Increment
<1> DEFINE id == poll[p].id
           f == [requests[id] EXCEPT !.interval = requests[id].interval + Increment]
<1>1. id \in ReqIDs /\ requests[id] # Nil /\ requests[id] \in CIBARequest
  BY DEF Bump, TypeInv, TypeOK, Handlers, PollOK
<1>2. requests' = [requests EXCEPT ![id] = f]
  <2>1. requests' = [requests EXCEPT ![id].interval = requests[id].interval + Increment]
    BY DEF Bump
  <2>2. \A S : requests \in [ReqIDs -> S] =>
          [requests EXCEPT ![id].interval = requests[id].interval + Increment]
            = [requests EXCEPT ![id] = f]
    BY <1>1
  <2> QED
    BY <2>1, <2>2 DEF TypeInv, TypeOK
<1>3. ASSUME NEW e \in CIBARequest
      PROVE  LET g == [e EXCEPT !.interval = e.interval + Increment] IN
             /\ g \in CIBARequest /\ g.status = e.status /\ g.mode = e.mode
             /\ g.lastPoll = e.lastPoll /\ g.interval = e.interval + Increment
  BY CibaAssumption DEF CIBARequest
<1>4. /\ f \in CIBARequest /\ f.status = requests[id].status /\ f.mode = requests[id].mode
      /\ f.lastPoll = requests[id].lastPoll
      /\ f.interval = requests[id].interval + Increment
  BY <1>1, <1>3
<1> HIDE DEF f
<1>5. requests'[id] = f /\ Rewrites(id)
  BY RequestAssumption, <1>1, <1>2, <1>4 DEF Rewrites, TypeInv, TypeOK
<1> QED
  BY <1>1, <1>4, <1>5

\* UpdateCIBAPoll.
LEMMA StampEffect ==
  ASSUME TypeInv, NEW p \in Pollers, Stamp(p)
  PROVE  LET id == poll[p].id IN
         /\ id \in ReqIDs /\ requests[id] # Nil
         /\ Rewrites(id)
         /\ requests'[id].status = requests[id].status
         /\ requests'[id].lastPoll = poll[p].at
         /\ requests'[id].interval = requests[id].interval
<1> DEFINE id == poll[p].id
           f == [requests[id] EXCEPT !.lastPoll = poll[p].at]
<1>1. id \in ReqIDs /\ requests[id] # Nil /\ requests[id] \in CIBARequest /\ poll[p].at \in Time
  BY DEF Stamp, TypeInv, TypeOK, Handlers, PollOK
<1>2. requests' = [requests EXCEPT ![id] = f]
  <2>1. requests' = [requests EXCEPT ![id].lastPoll = poll[p].at]
    BY DEF Stamp
  <2>2. \A S : requests \in [ReqIDs -> S] =>
          [requests EXCEPT ![id].lastPoll = poll[p].at] = [requests EXCEPT ![id] = f]
    BY <1>1
  <2> QED
    BY <2>1, <2>2 DEF TypeInv, TypeOK
<1>3. /\ f \in CIBARequest /\ f.status = requests[id].status /\ f.mode = requests[id].mode
      /\ f.lastPoll = poll[p].at /\ f.interval = requests[id].interval
  BY <1>1 DEF CIBARequest
<1> HIDE DEF f
<1>4. requests'[id] = f /\ Rewrites(id)
  BY RequestAssumption, <1>1, <1>2, <1>3 DEF Rewrites, TypeInv, TypeOK
<1> QED
  BY <1>1, <1>3, <1>4

\* Requests never disappear: nobody calls DeleteCIBARequest.
Persist == \A id \in ReqIDs : requests[id] # Nil => requests'[id] # Nil

\* A poller or approver that is left alone keeps its part of the invariant.
LEMMA HandlersKept ==
  ASSUME TypeInv, Persist
  PROVE  /\ \A p \in Pollers : poll'[p] = poll[p] => PollOK(p)'
         /\ \A a \in Approvers : approval'[a] = approval[a] => ApprovalOK(a)'
  BY DEF TypeInv, Handlers, PollOK, ApprovalOK, Persist

\* The record of a poller.
PollRec == [pc : {"idle", "bump", "stamp", "issue", "consume"},
            id : ReqIDs \cup {Nil}, at : Time \cup {Nil}]

\* A poller answers.
LEMMA AnswerEffect ==
  ASSUME TypeInv, NEW p \in Pollers, poll' = [poll EXCEPT ![p] = IdlePoll]
  PROVE  /\ poll' \in [Pollers -> PollRec]
         /\ poll'[p] = IdlePoll
         /\ PollOK(p)'
         /\ \A q \in Pollers \ {p} : poll'[q] = poll[q]
<1>1. IdlePoll \in PollRec /\ IdlePoll.pc = "idle"
  BY DEF IdlePoll, PollRec
<1>2. poll \in [Pollers -> PollRec]
  BY DEF TypeInv, TypeOK, PollRec
<1>3. poll' \in [Pollers -> PollRec] /\ poll'[p] = IdlePoll
  BY <1>1, <1>2
<1> QED
  BY <1>1, <1>2, <1>3 DEF PollOK

ApprovalRec == [pc : {"idle", "update", "rewrite", "notify"}, id : ReqIDs \cup {Nil},
                status : {"approved", "denied", Nil}]

\* An approval handler ends.
LEMMA DoneEffect ==
  ASSUME TypeInv, NEW a \in Approvers, approval' = [approval EXCEPT ![a] = IdleApproval]
  PROVE  /\ approval' \in [Approvers -> ApprovalRec]
         /\ approval'[a].pc = "idle"
         /\ \A b \in Approvers \ {a} : approval'[b] = approval[b]
<1>1. IdleApproval \in ApprovalRec /\ IdleApproval.pc = "idle"
  BY DEF IdleApproval, ApprovalRec
<1>2. approval \in [Approvers -> ApprovalRec]
  BY DEF TypeInv, TypeOK, ApprovalRec
<1> QED
  BY <1>1, <1>2

\* It moves on to its next write.
LEMMA AdvanceEffect ==
  ASSUME TypeInv
  PROVE  \A a \in Approvers, pc \in {"rewrite", "notify"} :
           approval' = [approval EXCEPT ![a] = [approval[a] EXCEPT !.pc = pc]] =>
             /\ approval' \in [Approvers -> ApprovalRec]
             /\ approval'[a].pc = pc
             /\ approval'[a].id = approval[a].id
             /\ approval'[a].status = approval[a].status
             /\ \A b \in Approvers \ {a} : approval'[b] = approval[b]
<1>1. approval \in [Approvers -> ApprovalRec]
  BY DEF TypeInv, TypeOK, ApprovalRec
<1> QED
  BY <1>1 DEF ApprovalRec

\* The three ways Rewrite and Update go on.
LEMMA UpdateEffect ==
  ASSUME TypeInv, NEW a \in Approvers, Update(a)
  PROVE  LET id == approval[a].id IN
         /\ id \in ReqIDs /\ requests[id] # Nil
         /\ approval[a].status \in {"approved", "denied"}
         /\ requests' = [requests EXCEPT ![id].status = approval[a].status]
         /\ approval' = [approval EXCEPT ![a] = [approval[a] EXCEPT !.pc = "rewrite"]]
         /\ UNCHANGED <<now, poll, histVars>>
<1>1. approval[a].pc = "update" /\ approval' = [approval EXCEPT ![a].pc = "rewrite"]
  BY DEF Update
<1>2. \A S : approval \in [Approvers -> S] =>
        [approval EXCEPT ![a].pc = "rewrite"] = [approval EXCEPT ![a] = [approval[a] EXCEPT !.pc = "rewrite"]]
  OBVIOUS
<1>3. ApprovalOK(a)
  BY DEF TypeInv, Handlers
<1> QED
  BY <1>1, <1>2, <1>3 DEF Update, TypeInv, TypeOK, ApprovalOK

\* The second write of an approval, which puts the request back.
LEMMA RewriteEffect ==
  ASSUME TypeInv, NEW a \in Approvers, Rewrite(a)
  PROVE  LET id == approval[a].id IN
         /\ approval[a].pc = "rewrite"
         /\ id \in ReqIDs /\ requests[id] # Nil
         /\ approval[a].status \in {"approved", "denied"}
         /\ requests' = [requests EXCEPT ![id].status = approval[a].status]
         /\ \/ approval' = [approval EXCEPT ![a] = [approval[a] EXCEPT !.pc = "notify"]]
            \/ approval' = [approval EXCEPT ![a] = IdleApproval]
         /\ UNCHANGED <<now, poll, histVars>>
<1>1. ApprovalOK(a)
  BY DEF TypeInv, Handlers
<1> QED
  BY <1>1 DEF Rewrite, ApprovalOK

\* A poller is admitted.
LEMMA PollEffect ==
  ASSUME TypeInv, NEW p \in Pollers, NEW id \in ReqIDs, NEW cl \in Clients, Poll(p, id, cl)
  PROVE  /\ poll' \in [Pollers -> PollRec]
         /\ poll'[p].id = id /\ poll'[p].at = now
         /\ poll'[p].pc \in {"bump", "issue", "stamp"}
         /\ poll'[p].pc = "issue" => requests[id].status = "approved"
         /\ poll'[p].pc = "stamp" => ~SlowedDown(id) /\ requests[id].status = "pending"
         /\ \A q \in Pollers \ {p} : poll'[q] = poll[q]
<1> DEFINE pc == CASE SlowedDown(id) -> "bump"
                   [] ~SlowedDown(id) /\ requests[id].status = "approved" -> "issue"
                   [] OTHER -> "stamp"
           r == [pc |-> pc, id |-> id, at |-> now]
<1>1. poll \in [Pollers -> PollRec] /\ now \in Time
  BY DEF TypeInv, TypeOK, PollRec
<1>2. requests[id].status \in {"pending", "approved"}
  BY DEF Poll
<1>3. /\ pc \in {"bump", "issue", "stamp"}
      /\ pc = "issue" => requests[id].status = "approved"
      /\ pc = "stamp" => ~SlowedDown(id) /\ requests[id].status = "pending"
  BY <1>2
<1>4. poll' = [poll EXCEPT ![p] = r]
  BY DEF Poll
<1> HIDE DEF pc
<1>5. r \in PollRec /\ r.pc = pc /\ r.id = id /\ r.at = now
  BY <1>1, <1>3 DEF PollRec
<1> HIDE DEF r
<1> QED
  BY <1>1, <1>3, <1>4, <1>5

\* Tokens have been created.
LEMMA IssueEffect ==
  ASSUME TypeInv, NEW p \in Pollers, Issue(p)
  PROVE  /\ poll' \in [Pollers -> PollRec]
         /\ poll'[p].pc = "consume" /\ poll'[p].id = poll[p].id /\ poll'[p].at = poll[p].at
         /\ \A q \in Pollers \ {p} : poll'[q] = poll[q]
         /\ poll[p].id \in ReqIDs
         /\ issued' \in [ReqIDs -> 0..MaxIssued]
         /\ \A id \in ReqIDs \ {poll[p].id} : issued'[id] = issued[id]
<1>1. poll \in [Pollers -> PollRec] /\ issued \in [ReqIDs -> 0..MaxIssued] /\ MaxIssued \in Nat
  BY CibaAssumption DEF TypeInv, TypeOK, PollRec
<1>2. poll[p].id \in ReqIDs
  BY DEF TypeInv, Handlers, PollOK, Issue
<1>3. poll' = [poll EXCEPT ![p].pc = "consume"]
  BY DEF Issue
<1>4. /\ poll' \in [Pollers -> PollRec]
      /\ poll'[p].pc = "consume" /\ poll'[p].id = poll[p].id /\ poll'[p].at = poll[p].at
      /\ \A q \in Pollers \ {p} : poll'[q] = poll[q]
  BY <1>1, <1>3 DEF PollRec
<1>5. issued[poll[p].id] < MaxIssued /\ issued' = [issued EXCEPT ![poll[p].id] = issued[poll[p].id] + 1]
  BY DEF Issue
<1>6. issued[poll[p].id] + 1 \in 0..MaxIssued
  BY <1>1, <1>2, <1>5
<1> QED
  BY <1>1, <1>2, <1>4, <1>5, <1>6

\* A step on one poller and what the request it polls holds.
LEMMA PollersStay ==
  ASSUME TypeInv, NEW p \in Pollers,
         Persist,
         poll' \in [Pollers -> PollRec],
         \A q \in Pollers \ {p} : poll'[q] = poll[q],
         PollOK(p)',
         approval' = approval, pinged' = pinged,
         \A id \in ReqIDs : requests'[id] = Nil => pendings'[id].last = Nil
  PROVE  Handlers'
<1>1. \A q \in Pollers : PollOK(q)'
  BY HandlersKept
<1>2. \A a \in Approvers : ApprovalOK(a)'
  BY HandlersKept
<1>3. \A id \in pinged' : requests'[id] # Nil
  BY DEF TypeInv, TypeOK, Handlers, Persist
<1> QED
  BY <1>1, <1>2, <1>3 DEF Handlers

\* A step of one approver leaves the handlers of the others well-formed.
LEMMA ApproversStay ==
  ASSUME TypeInv, NEW a \in Approvers,
         Persist,
         approval' \in [Approvers -> ApprovalRec],
         \A b \in Approvers \ {a} : approval'[b] = approval[b],
         ApprovalOK(a)',
         poll' = poll, pendings' = pendings,
         \A id \in pinged' : requests'[id] # Nil
  PROVE  Handlers'
<1>1. \A p \in Pollers : PollOK(p)'
  BY HandlersKept
<1>2. \A b \in Approvers : ApprovalOK(b)'
  BY HandlersKept
<1>3. \A id \in ReqIDs : requests'[id] = Nil => pendings'[id].last = Nil
  BY DEF TypeInv, Handlers, Persist
<1> QED
  BY <1>1, <1>2, <1>3 DEF Handlers

\* Every step preserves the type invariant.
LEMMA TypeStep ==
  ASSUME TypeInv, [Next]_vars
  PROVE  TypeInv'
<1> USE DEF TypeInv
<1>1. CASE Tick
  <2>1. TypeOK'
    BY <1>1, CibaAssumption DEF Tick, histVars, TypeOK, Time
  <2>2. Handlers'
    BY <1>1 DEF Tick, histVars, Handlers, PollOK, ApprovalOK
  <2> QED
    BY <2>1, <2>2
<1>2. ASSUME NEW id \in ReqIDs, NEW cl \in Clients, NEW m \in Modes, NEW life \in 1..Lifetime,
             BackchannelAuth(id, cl, m, life)
      PROVE  TypeInv'
  <2> DEFINE r == [client |-> cl, mode |-> m, status |-> "pending", expires |-> now + life,
                   lastPoll |-> Nil, interval |-> 0]
  <2>1. r \in CIBARequest
    BY CibaAssumption DEF CIBARequest, Statuses, TypeOK, Time
  <2>2. requests' = [requests EXCEPT ![id] = r] /\ requests[id] = Nil
    BY <1>2 DEF BackchannelAuth
  <2> HIDE DEF r
  <2>3. requests' \in [ReqIDs -> CIBARequest \cup {Nil}] /\ Persist
        /\ \A x \in ReqIDs : requests'[x] = Nil => requests[x] = Nil
    BY <2>1, <2>2, RequestAssumption DEF TypeOK, Persist
  <2>4. UNCHANGED <<now, poll, approval, histVars>>
    BY <1>2 DEF BackchannelAuth
  <2>5. TypeOK'
    BY <2>3, <2>4 DEF TypeOK, histVars
  <2>6. Handlers'
    <3>1. (\A q \in Pollers : PollOK(q)') /\ (\A a \in Approvers : ApprovalOK(a)')
      BY <2>3, <2>4, HandlersKept
    <3>2. \A x \in pinged' : requests'[x] # Nil
      BY <2>3, <2>4 DEF TypeOK, Handlers, Persist, histVars
    <3>3. \A x \in ReqIDs : requests'[x] = Nil => pendings'[x].last = Nil
      BY <2>3, <2>4 DEF Handlers, histVars
    <3> QED
      BY <3>1, <3>2, <3>3 DEF Handlers
  <2> QED
    BY <2>5, <2>6
<1>3. ASSUME NEW p \in Pollers, NEW id \in ReqIDs, NEW cl \in Clients, Poll(p, id, cl)
      PROVE  TypeInv'
  <2>1. UNCHANGED <<now, requests, approval, issued, fails, approved, pinged, pendings, slowdowns>>
    BY <1>3 DEF Poll
  <2>2. overlapped' \subseteq ReqIDs /\ requests[id] # Nil
    BY <1>3 DEF Poll, TypeOK
  <2>3. /\ poll' \in [Pollers -> PollRec] /\ \A q \in Pollers \ {p} : poll'[q] = poll[q]
        /\ poll'[p].id = id /\ poll'[p].at = now /\ poll'[p].pc # "idle"
    BY <1>3, PollEffect
  <2>4. TypeOK'
    BY <2>1, <2>2, <2>3 DEF TypeOK, PollRec
  <2>5. PollOK(p)' /\ Persist
    BY <2>1, <2>2, <2>3 DEF PollOK, Persist, TypeOK
  <2>6. \A x \in ReqIDs : requests'[x] = Nil => pendings'[x].last = Nil
    BY <2>1 DEF Handlers
  <2> QED
    BY <2>1, <2>3, <2>4, <2>5, <2>6, PollersStay
<1>4. ASSUME NEW p \in Pollers, Bump(p)
      PROVE  TypeInv'
  <2>1. /\ poll' = [poll EXCEPT ![p] = IdlePoll]
        /\ slowdowns[poll[p].id] < MaxSlowdowns
        /\ slowdowns' = [slowdowns EXCEPT ![poll[p].id] = slowdowns[poll[p].id] + 1]
        /\ UNCHANGED <<now, approval, issued, fails, approved, pinged, pendings, overlapped>>
    BY <1>4 DEF Bump
  <2>2. poll[p].id \in ReqIDs /\ Rewrites(poll[p].id)
    BY <1>4, BumpEffect
  <2>3. slowdowns' \in [ReqIDs -> 0..MaxSlowdowns]
    <3>1. slowdowns[poll[p].id] + 1 \in 0..MaxSlowdowns
      BY <2>1, <2>2, CibaAssumption DEF TypeOK
    <3> QED
      BY <2>1, <3>1 DEF TypeOK
  <2>4. poll' \in [Pollers -> PollRec] /\ PollOK(p)' /\ \A q \in Pollers \ {p} : poll'[q] = poll[q]
    BY <2>1, AnswerEffect
  <2>5. TypeOK'
    BY <2>1, <2>2, <2>3, <2>4 DEF TypeOK, PollRec, Rewrites
  <2>6. Persist /\ \A x \in ReqIDs : requests'[x] = Nil => pendings'[x].last = Nil
    BY <2>1, <2>2 DEF Handlers, Persist, Rewrites
  <2> QED
    BY <2>1, <2>4, <2>5, <2>6, PollersStay
<1>5. ASSUME NEW p \in Pollers, Stamp(p)
      PROVE  TypeInv'
  <2> DEFINE id == poll[p].id
             g == [last |-> poll[p].at, before |-> pendings[id].last]
  <2>1. /\ poll' = [poll EXCEPT ![p] = IdlePoll]
        /\ pendings' = [pendings EXCEPT ![id] = g]
        /\ UNCHANGED <<now, approval, issued, fails, approved, pinged, slowdowns, overlapped>>
    BY <1>5 DEF Stamp
  <2>2. id \in ReqIDs /\ Rewrites(id)
    BY <1>5, StampEffect
  <2>3. g \in [last : Time \cup {Nil}, before : Time \cup {Nil}]
    <3>1. poll[p].at \in Time \cup {Nil} /\ pendings[id].last \in Time \cup {Nil}
      BY <2>2 DEF TypeOK
    <3> QED
      BY <3>1
  <2> HIDE DEF g
  <2>4. poll' \in [Pollers -> PollRec] /\ PollOK(p)' /\ \A q \in Pollers \ {p} : poll'[q] = poll[q]
    BY <2>1, AnswerEffect
  <2>5. TypeOK'
    BY <2>1, <2>2, <2>3, <2>4 DEF TypeOK, PollRec, Rewrites
  <2>6. Persist /\ \A x \in ReqIDs : requests'[x] = Nil => pendings'[x].last = Nil
    BY <2>1, <2>2 DEF Handlers, Persist, Rewrites, TypeOK
  <2> QED
    BY <2>1, <2>4, <2>5, <2>6, PollersStay
<1>6. ASSUME NEW p \in Pollers, Issue(p)
      PROVE  TypeInv'
  <2>1. UNCHANGED <<now, requests, approval, fails, approved, pinged, pendings, slowdowns, overlapped>>
        /\ poll[p].pc = "issue"
    BY <1>6 DEF Issue
  <2>2. /\ poll' \in [Pollers -> PollRec] /\ \A q \in Pollers \ {p} : poll'[q] = poll[q]
        /\ poll'[p].id = poll[p].id /\ poll'[p].at = poll[p].at /\ poll'[p].pc = "consume"
        /\ issued' \in [ReqIDs -> 0..MaxIssued]
    BY <1>6, IssueEffect
  <2>3. TypeOK'
    BY <2>1, <2>2 DEF TypeOK, PollRec
  <2>4. PollOK(p)' /\ Persist
    BY <2>1, <2>2 DEF Handlers, PollOK, Persist
  <2>5. \A x \in ReqIDs : requests'[x] = Nil => pendings'[x].last = Nil
    BY <2>1 DEF Handlers
  <2> QED
    BY <2>1, <2>2, <2>3, <2>4, <2>5, PollersStay
<1>7. ASSUME NEW p \in Pollers, IssueFails(p)
      PROVE  TypeInv'
  <2>1. /\ poll' = [poll EXCEPT ![p] = IdlePoll]
        /\ fails < MaxFails /\ fails' = fails + 1
        /\ UNCHANGED <<now, requests, approval, issued, approved, pinged, pendings, slowdowns, overlapped>>
    BY <1>7 DEF IssueFails
  <2>2. poll' \in [Pollers -> PollRec] /\ PollOK(p)' /\ \A q \in Pollers \ {p} : poll'[q] = poll[q]
    BY <2>1, AnswerEffect
  <2>3. fails' \in 0..MaxFails
    BY <2>1, CibaAssumption DEF TypeOK
  <2>4. TypeOK'
    BY <2>1, <2>2, <2>3 DEF TypeOK, PollRec
  <2>5. Persist /\ \A x \in ReqIDs : requests'[x] = Nil => pendings'[x].last = Nil
    BY <2>1 DEF Handlers, Persist
  <2> QED
    BY <2>1, <2>2, <2>4, <2>5, PollersStay
<1>8. ASSUME NEW p \in Pollers, Consume(p)
      PROVE  TypeInv'
  <2>1. /\ poll' = [poll EXCEPT ![p] = IdlePoll]
        /\ requests' = [requests EXCEPT ![poll[p].id].status = "consumed"]
        /\ UNCHANGED <<now, approval, histVars>>
    BY <1>8 DEF Consume
  <2>2. poll[p].id \in ReqIDs /\ Rewrites(poll[p].id)
    <3>1. poll[p].id \in ReqIDs /\ requests[poll[p].id] # Nil
      BY <1>8 DEF Consume, Handlers, PollOK
    <3> QED
      BY <2>1, <3>1, StatusEffect DEF Statuses
  <2>3. poll' \in [Pollers -> PollRec] /\ PollOK(p)' /\ \A q \in Pollers \ {p} : poll'[q] = poll[q]
    BY <2>1, AnswerEffect
  <2>4. TypeOK'
    BY <2>1, <2>2, <2>3 DEF TypeOK, PollRec, Rewrites, histVars
  <2>5. Persist /\ \A x \in ReqIDs : requests'[x] = Nil => pendings'[x].last = Nil
    BY <2>1, <2>2 DEF Handlers, Persist, Rewrites, histVars
  <2>6. approval' = approval /\ pinged' = pinged
    BY <2>1 DEF histVars
  <2> QED
    BY <2>3, <2>4, <2>5, <2>6, PollersStay
<1>9. ASSUME NEW a \in Approvers, NEW id \in ReqIDs, NEW status \in {"approved", "denied"},
             Review(a, id, status)
      PROVE  TypeInv'
  <2> DEFINE r == [pc |-> "update", id |-> id, status |-> status]
  <2>1. /\ approval' = [approval EXCEPT ![a] = r]
        /\ requests[id] # Nil
        /\ approved' \subseteq ReqIDs
        /\ UNCHANGED <<now, requests, poll, issued, fails, pinged, pendings, slowdowns, overlapped>>
    BY <1>9 DEF Review, TypeOK
  <2>2. r \in ApprovalRec /\ r.pc = "update" /\ r.id = id /\ r.status = status
    BY DEF ApprovalRec
  <2> HIDE DEF r
  <2>3. /\ approval' \in [Approvers -> ApprovalRec] /\ approval'[a] = r
        /\ \A b \in Approvers \ {a} : approval'[b] = approval[b]
    BY <2>1, <2>2 DEF TypeOK, ApprovalRec
  <2>4. TypeOK'
    BY <2>1, <2>3 DEF TypeOK, ApprovalRec
  <2>5. ApprovalOK(a)' /\ Persist /\ \A x \in pinged' : requests'[x] # Nil
    BY <2>1, <2>2, <2>3 DEF ApprovalOK, Persist, Handlers
  <2> QED
    BY <2>1, <2>3, <2>4, <2>5, ApproversStay
<1>10. ASSUME NEW a \in Approvers, Update(a) \/ Rewrite(a)
       PROVE  TypeInv'
  <2> DEFINE id == approval[a].id
  <2>1. /\ id \in ReqIDs /\ requests[id] # Nil
        /\ approval[a].status \in {"approved", "denied"}
        /\ requests' = [requests EXCEPT ![id].status = approval[a].status]
        /\ \/ approval' = [approval EXCEPT ![a] = [approval[a] EXCEPT !.pc = "rewrite"]]
           \/ approval' = [approval EXCEPT ![a] = [approval[a] EXCEPT !.pc = "notify"]]
           \/ approval' = [approval EXCEPT ![a] = IdleApproval]
        /\ UNCHANGED <<now, poll, histVars>>
    BY <1>10, UpdateEffect, RewriteEffect
  <2>2. Rewrites(id)
    BY <2>1, StatusEffect DEF Statuses
  <2>3. /\ approval' \in [Approvers -> ApprovalRec]
        /\ \A b \in Approvers \ {a} : approval'[b] = approval[b]
        /\ \/ approval'[a].pc = "idle"
           \/ approval'[a].id = id /\ approval'[a].status = approval[a].status
    BY <2>1, AdvanceEffect, DoneEffect
  <2>4. TypeOK'
    BY <2>1, <2>2, <2>3 DEF TypeOK, ApprovalRec, Rewrites, histVars
  <2>5. ApprovalOK(a)'
    BY <2>1, <2>2, <2>3 DEF ApprovalOK, Rewrites
  <2>6. Persist /\ \A x \in pinged' : requests'[x] # Nil
    BY <2>1, <2>2 DEF Rewrites, Persist, Handlers, TypeOK, histVars
  <2>7. poll' = poll /\ pendings' = pendings
    BY <2>1 DEF histVars
  <2> QED
    BY <2>3, <2>4, <2>5, <2>6, <2>7, ApproversStay
<1>11. ASSUME NEW a \in Approvers, Notify(a) \/ NotifyFails(a)
       PROVE  TypeInv'
  <2>1. /\ approval' = [approval EXCEPT ![a] = IdleApproval]
        /\ pinged' \subseteq pinged \cup {approval[a].id}
        /\ UNCHANGED <<now, requests, poll, issued, fails, approved, pendings, slowdowns, overlapped>>
    BY <1>11 DEF Notify, NotifyFails, histVars
  <2>2. approval[a].id \in ReqIDs /\ requests[approval[a].id] # Nil
    BY <1>11 DEF Notify, NotifyFails, Handlers, ApprovalOK
  <2>3. /\ approval' \in [Approvers -> ApprovalRec] /\ approval'[a].pc = "idle"
        /\ \A b \in Approvers \ {a} : approval'[b] = approval[b]
    BY <2>1, DoneEffect
  <2>4. TypeOK'
    BY <2>1, <2>2, <2>3 DEF TypeOK, ApprovalRec
  <2>5. ApprovalOK(a)' /\ Persist /\ \A x \in pinged' : requests'[x] # Nil
    BY <2>1, <2>2, <2>3 DEF ApprovalOK, Persist, Handlers
  <2> QED
    BY <2>1, <2>3, <2>4, <2>5, ApproversStay
<1>12. CASE UNCHANGED vars
  BY <1>12 DEF vars, TypeOK, Handlers, PollOK, ApprovalOK
<1> QED
  BY <1>1, <1>2, <1>3, <1>4, <1>5, <1>6, <1>7, <1>8, <1>9, <1>10, <1>11, <1>12
     DEF Next, PollStep, ApprovalStep

\* The state components keep their types, and every handler that has started
\* works on a request that is stored: the pointer it looked up stays good.
THEOREM TypeInvariance == Spec => []TypeInv
<1>1. Init => TypeInv
  BY CibaAssumption DEF Init, TypeInv, TypeOK, Time, Handlers, PollOK, ApprovalOK, IdlePoll, IdleApproval
<1>2. TypeInv /\ [Next]_vars => TypeInv'
  BY TypeStep
<1> QED
  BY <1>1, <1>2, PTL DEF Spec

-----------------------------------------------------------------------------
(* Tokens need an approval.  A handler reads the status and acts on it     *)
(* later, so the invariant follows the approval through the status stored  *)
(* in the request and the locals of both kinds of handler.                 *)

ApprovalInv ==
  /\ \A id \in ReqIDs : requests[id] # Nil /\ requests[id].status = "approved" => id \in approved
  /\ \A p \in Pollers : poll[p].pc \in {"issue", "consume"} => poll[p].id \in approved
  /\ \A a \in Approvers :
       approval[a].pc # "idle" /\ approval[a].status = "approved" => approval[a].id \in approved
  /\ TokensNeedApproval

\* No step stores "approved", or lets a poller past the check, without a user's
\* approval behind it.
LEMMA ApprovalInvStep ==
  ASSUME TypeInv, TypeInv', ApprovalInv, [Next]_vars
  PROVE  ApprovalInv'
<1> USE DEF ApprovalInv, TokensNeedApproval
<1>1. CASE Tick
  BY <1>1 DEF Tick, histVars
<1>2. ASSUME NEW id \in ReqIDs, NEW cl \in Clients, NEW m \in Modes, NEW life \in 1..Lifetime,
             BackchannelAuth(id, cl, m, life)
      PROVE  ApprovalInv'
  <2>1. UNCHANGED <<poll, approval, issued, approved>>
    BY <1>2 DEF BackchannelAuth, histVars
  <2>2. \A x \in ReqIDs : requests'[x] = requests[x] \/ requests'[x].status = "pending"
    BY <1>2 DEF BackchannelAuth, TypeInv, TypeOK
  <2> QED
    BY <2>1, <2>2
<1>3. ASSUME NEW p \in Pollers, NEW id \in ReqIDs, NEW cl \in Clients, Poll(p, id, cl)
      PROVE  ApprovalInv'
  <2>1. UNCHANGED <<requests, approval, issued, approved>> /\ requests[id] # Nil
    BY <1>3 DEF Poll
  <2>2. /\ \A q \in Pollers \ {p} : poll'[q] = poll[q]
        /\ poll'[p].id = id /\ poll'[p].pc \in {"bump", "issue", "stamp"}
        /\ poll'[p].pc = "issue" => requests[id].status = "approved"
    BY <1>3, PollEffect
  <2>3. \A q \in Pollers : poll'[q].pc \in {"issue", "consume"} => poll'[q].id \in approved
    BY <2>1, <2>2
  <2> QED
    BY <2>1, <2>3
<1>4. ASSUME NEW p \in Pollers, Bump(p) \/ Stamp(p)
      PROVE  ApprovalInv'
  <2> DEFINE id == poll[p].id
  <2>1. poll' = [poll EXCEPT ![p] = IdlePoll] /\ UNCHANGED <<approval, issued, approved>>
    BY <1>4 DEF Bump, Stamp
  <2>2. /\ id \in ReqIDs /\ requests[id] # Nil
        /\ Rewrites(id) /\ requests'[id].status = requests[id].status
    BY <1>4, BumpEffect, StampEffect
  <2>3. poll'[p].pc = "idle" /\ \A q \in Pollers \ {p} : poll'[q] = poll[q]
    BY <2>1, AnswerEffect DEF IdlePoll
  <2>4. \A x \in ReqIDs : requests'[x] # Nil => requests[x] # Nil /\ requests'[x].status = requests[x].status
    BY <2>2 DEF Rewrites
  <2> QED
    BY <2>1, <2>3, <2>4
<1>5. ASSUME NEW p \in Pollers, Issue(p)
      PROVE  ApprovalInv'
  <2>1. UNCHANGED <<requests, approval, approved>> /\ poll[p].pc = "issue"
    BY <1>5 DEF Issue
  <2>2. /\ \A q \in Pollers \ {p} : poll'[q] = poll[q]
        /\ poll'[p].id = poll[p].id
        /\ \A id \in ReqIDs \ {poll[p].id} : issued'[id] = issued[id]
    BY <1>5, IssueEffect
  <2>3. \A q \in Pollers : poll'[q].pc \in {"issue", "consume"} => poll'[q].id \in approved
    BY <2>1, <2>2
  <2>4. \A id \in ReqIDs : issued'[id] > 0 => id \in approved
    BY <2>1, <2>2
  <2> QED
    BY <2>1, <2>3, <2>4
<1>6. ASSUME NEW p \in Pollers, IssueFails(p)
      PROVE  ApprovalInv'
  <2>1. poll' = [poll EXCEPT ![p] = IdlePoll] /\ UNCHANGED <<requests, approval, issued, approved>>
    BY <1>6 DEF IssueFails
  <2>2. poll'[p].pc = "idle" /\ \A q \in Pollers \ {p} : poll'[q] = poll[q]
    BY <2>1, AnswerEffect DEF IdlePoll
  <2> QED
    BY <2>1, <2>2
<1>7. ASSUME NEW p \in Pollers, Consume(p)
      PROVE  ApprovalInv'
  <2> DEFINE id == poll[p].id
  <2>1. /\ poll' = [poll EXCEPT ![p] = IdlePoll]
        /\ requests' = [requests EXCEPT ![id].status = "consumed"]
        /\ UNCHANGED <<approval, issued, approved>>
    BY <1>7 DEF Consume, histVars
  <2>2. id \in ReqIDs /\ requests[id] # Nil
    BY <1>7 DEF Consume, TypeInv, Handlers, PollOK
  <2>3. Rewrites(id) /\ requests'[id].status = "consumed"
    BY <2>1, <2>2, StatusEffect DEF Statuses, TypeInv
  <2>4. poll'[p].pc = "idle" /\ \A q \in Pollers \ {p} : poll'[q] = poll[q]
    BY <2>1, AnswerEffect DEF IdlePoll
  <2>5. \A x \in ReqIDs : requests'[x] = requests[x] \/ requests'[x].status = "consumed"
    BY <2>3 DEF Rewrites
  <2> QED
    BY <2>1, <2>4, <2>5
<1>8. ASSUME NEW a \in Approvers, NEW id \in ReqIDs, NEW status \in {"approved", "denied"},
             Review(a, id, status)
      PROVE  ApprovalInv'
  <2> DEFINE r == [pc |-> "update", id |-> id, status |-> status]
  <2>1. /\ approval' = [approval EXCEPT ![a] = r]
        /\ approved \subseteq approved' /\ (status = "approved" => id \in approved')
        /\ UNCHANGED <<requests, poll, issued>>
    BY <1>8 DEF Review
  <2>2. r.id = id /\ r.status = status
    OBVIOUS
  <2> HIDE DEF r
  <2>3. approval'[a] = r /\ \A b \in Approvers \ {a} : approval'[b] = approval[b]
    BY <2>1 DEF TypeInv, TypeOK
  <2>4. \A b \in Approvers :
          approval'[b].pc # "idle" /\ approval'[b].status = "approved" => approval'[b].id \in approved'
    BY <2>1, <2>2, <2>3
  <2> QED
    BY <2>1, <2>4
<1>9. ASSUME NEW a \in Approvers, Update(a) \/ Rewrite(a)
      PROVE  ApprovalInv'
  <2> DEFINE id == approval[a].id
  <2>1. /\ id \in ReqIDs /\ requests[id] # Nil
        /\ approval[a].status \in {"approved", "denied"}
        /\ requests' = [requests EXCEPT ![id].status = approval[a].status]
        /\ \/ approval' = [approval EXCEPT ![a] = [approval[a] EXCEPT !.pc = "rewrite"]]
           \/ approval' = [approval EXCEPT ![a] = [approval[a] EXCEPT !.pc = "notify"]]
           \/ approval' = [approval EXCEPT ![a] = IdleApproval]
        /\ UNCHANGED <<now, poll, histVars>>
    BY <1>9, UpdateEffect, RewriteEffect
  <2>2. approval[a].pc # "idle"
    BY <1>9 DEF Update, Rewrite
  <2>3. Rewrites(id) /\ requests'[id].status = approval[a].status
    BY <2>1, StatusEffect DEF Statuses, TypeInv
  <2>4. /\ \A b \in Approvers \ {a} : approval'[b] = approval[b]
        /\ \/ approval'[a].pc = "idle"
           \/ approval'[a].id = id /\ approval'[a].status = approval[a].status
    BY <2>1, AdvanceEffect, DoneEffect
  <2>5. poll' = poll /\ issued' = issued /\ approved' = approved
    BY <2>1 DEF histVars
  <2>6. \A x \in ReqIDs : requests'[x] # Nil /\ requests'[x].status = "approved" => x \in approved
    BY <2>1, <2>2, <2>3 DEF Rewrites
  <2>7. \A b \in Approvers :
          approval'[b].pc # "idle" /\ approval'[b].status = "approved" => approval'[b].id \in approved
    BY <2>2, <2>4
  <2> QED
    BY <2>5, <2>6, <2>7
<1>10. ASSUME NEW a \in Approvers, Notify(a) \/ NotifyFails(a)
       PROVE  ApprovalInv'
  <2>1. /\ approval' = [approval EXCEPT ![a] = IdleApproval]
        /\ UNCHANGED <<requests, poll, issued, approved>>
    BY <1>10 DEF Notify, NotifyFails, histVars
  <2>2. approval'[a].pc = "idle" /\ \A b \in Approvers \ {a} : approval'[b] = approval[b]
    BY <2>1, DoneEffect
  <2> QED
    BY <2>1, <2>2
<1>11. CASE UNCHANGED vars
  BY <1>11 DEF vars
<1> QED
  BY <1>1, <1>2, <1>3, <1>4, <1>5, <1>6, <1>7, <1>8, <1>9, <1>10, <1>11 DEF Next, PollStep, ApprovalStep

\* Tokens are issued only for requests that some user action approved, whatever
\* the number of tabs and pollers and however their writes interleave.
THEOREM TokensNeedApprovalHolds == Spec => []TokensNeedApproval
<1>1. Init => ApprovalInv
  BY DEF Init, ApprovalInv, TokensNeedApproval, IdlePoll, IdleApproval
<1>2. TypeInv /\ TypeInv' /\ ApprovalInv /\ [Next]_vars => ApprovalInv'
  BY ApprovalInvStep
<1>3. ApprovalInv => TokensNeedApproval
  BY DEF ApprovalInv
<1> QED
  BY <1>1, <1>2, <1>3, TypeInvariance, PTL DEF Spec

-----------------------------------------------------------------------------
(* What the client is told.                                                *)

\* A handler about to notify has stored the decision, and no status goes back
\* to pending.
PingInv ==
  /\ \A a \in Approvers :
       approval[a].pc \in {"rewrite", "notify"} => requests[approval[a].id].status # "pending"
  /\ PingTellsTruth

Far(later, earlier) == later - earlier >= PollInterval \/ later - earlier >= Increment

\* The stored interval is zero or has been bumped.
IntervalInv ==
  \A id \in ReqIDs : requests[id] # Nil =>
    requests[id].interval = 0 \/ requests[id].interval >= Increment

\* While the polls of a request do not overlap, at most one handler works on it,
\* the stored time is the last pending answer's, and the handler that is about
\* to answer pending again comes late enough.
SpacedFor(id) ==
  /\ \A p, q \in Pollers : poll[p].id = id /\ poll[q].id = id => p = q
  /\ requests[id] # Nil => pendings[id].last = requests[id].lastPoll
  /\ \A p \in Pollers :
       poll[p].id = id /\ poll[p].pc = "stamp" /\ pendings[id].last # Nil =>
         Far(poll[p].at, pendings[id].last)
  /\ pendings[id].before # Nil =>
       pendings[id].last # Nil /\ Far(pendings[id].last, pendings[id].before)

SpacedInv == \A id \in ReqIDs \ overlapped : SpacedFor(id)

AnswerInv == PingInv /\ IntervalInv /\ SpacedInv

\* A decision stays one: no write takes a status back to pending.
LEMMA DecisionStays ==
  ASSUME TypeInv, [Next]_vars
  PROVE  \A id \in ReqIDs : requests[id] # Nil /\ requests[id].status # "pending" =>
           requests'[id] # Nil /\ requests'[id].status # "pending"
<1> DEFINE Stays == \A id \in ReqIDs : requests[id] # Nil /\ requests[id].status # "pending" =>
                      requests'[id] # Nil /\ requests'[id].status # "pending"
<1> SUFFICES Stays
  OBVIOUS
<1>1. CASE requests' = requests
  BY <1>1
<1>2. ASSUME NEW id \in ReqIDs, NEW cl \in Clients, NEW m \in Modes, NEW life \in 1..Lifetime,
             BackchannelAuth(id, cl, m, life)
      PROVE  Stays
  BY <1>2 DEF BackchannelAuth, TypeInv, TypeOK
<1>3. ASSUME NEW p \in Pollers, Bump(p) \/ Stamp(p)
      PROVE  Stays
  BY <1>3, BumpEffect, StampEffect DEF Rewrites
<1>4. ASSUME NEW p \in Pollers, Consume(p)
      PROVE  Stays
  <2>1. /\ poll[p].id \in ReqIDs /\ requests[poll[p].id] # Nil
        /\ requests' = [requests EXCEPT ![poll[p].id].status = "consumed"]
    BY <1>4 DEF Consume, TypeInv, Handlers, PollOK
  <2> QED
    BY <2>1, StatusEffect DEF Statuses, TypeInv, Rewrites
<1>5. ASSUME NEW a \in Approvers, Update(a) \/ Rewrite(a)
      PROVE  Stays
  <2>1. /\ approval[a].id \in ReqIDs /\ requests[approval[a].id] # Nil
        /\ approval[a].status \in {"approved", "denied"}
        /\ requests' = [requests EXCEPT ![approval[a].id].status = approval[a].status]
    BY <1>5, UpdateEffect, RewriteEffect
  <2> QED
    BY <2>1, StatusEffect DEF Statuses, TypeInv, Rewrites
<1> QED
  BY <1>1, <1>2, <1>3, <1>4, <1>5
     DEF Next, PollStep, ApprovalStep, Tick, Poll, Issue, IssueFails, Review, Notify, NotifyFails, vars

\* Every step preserves that a ping follows a decision.
LEMMA PingStep ==
  ASSUME TypeInv, TypeInv', PingInv, [Next]_vars
  PROVE  PingInv'
<1> USE DEF PingInv, PingTellsTruth
<1> DEFINE Decided(id) == requests[id] # Nil /\ requests[id].status # "pending"
           Decided1(id) == requests'[id] # Nil /\ requests'[id].status # "pending"
<1>1. \A id \in ReqIDs : Decided(id) => Decided1(id)
  BY DecisionStays
<1>2. pinged \subseteq ReqIDs /\ \A id \in pinged : Decided(id)
  BY DEF TypeInv, TypeOK, Handlers
<1>3. \A a \in Approvers : approval[a].pc \in {"rewrite", "notify"} =>
        approval[a].id \in ReqIDs /\ Decided(approval[a].id)
  BY DEF TypeInv, Handlers, ApprovalOK
<1> DEFINE Truth == /\ \A a \in Approvers :
                         approval'[a].pc \in {"rewrite", "notify"} => Decided1(approval'[a].id)
                    /\ \A id \in pinged' : Decided1(id)
<1> SUFFICES Truth
  OBVIOUS
<1> HIDE DEF Decided, Decided1
<1>4. CASE approval' = approval /\ pinged' = pinged
  BY <1>1, <1>2, <1>3, <1>4
<1>5. ASSUME NEW a \in Approvers, NEW id \in ReqIDs, NEW status \in {"approved", "denied"},
             Review(a, id, status)
      PROVE  Truth
  <2> DEFINE r == [pc |-> "update", id |-> id, status |-> status]
  <2>1. approval' = [approval EXCEPT ![a] = r] /\ pinged' = pinged
    BY <1>5 DEF Review
  <2>2. r.pc = "update"
    OBVIOUS
  <2> HIDE DEF r
  <2>3. approval'[a].pc = "update" /\ \A b \in Approvers \ {a} : approval'[b] = approval[b]
    BY <2>1, <2>2 DEF TypeInv, TypeOK
  <2> QED
    BY <1>1, <1>2, <1>3, <2>1, <2>3
<1>6. ASSUME NEW a \in Approvers, Update(a) \/ Rewrite(a)
      PROVE  Truth
  <2> DEFINE id == approval[a].id
  <2>1. /\ id \in ReqIDs /\ requests[id] # Nil
        /\ approval[a].status \in {"approved", "denied"}
        /\ requests' = [requests EXCEPT ![id].status = approval[a].status]
        /\ \/ approval' = [approval EXCEPT ![a] = [approval[a] EXCEPT !.pc = "rewrite"]]
           \/ approval' = [approval EXCEPT ![a] = [approval[a] EXCEPT !.pc = "notify"]]
           \/ approval' = [approval EXCEPT ![a] = IdleApproval]
        /\ UNCHANGED <<now, poll, histVars>>
    BY <1>6, UpdateEffect, RewriteEffect
  <2>2. Decided1(id)
    BY <2>1, StatusEffect DEF Statuses, TypeInv, Rewrites, Decided1
  <2>3. /\ \A b \in Approvers \ {a} : approval'[b] = approval[b]
        /\ approval'[a].pc = "idle" \/ approval'[a].id = id
    BY <2>1, AdvanceEffect, DoneEffect
  <2>4. pinged' = pinged
    BY <2>1 DEF histVars
  <2> QED
    BY <1>1, <1>2, <1>3, <2>2, <2>3, <2>4
<1>7. ASSUME NEW a \in Approvers, Notify(a) \/ NotifyFails(a)
      PROVE  Truth
  <2>1. /\ approval' = [approval EXCEPT ![a] = IdleApproval] /\ approval[a].pc = "notify"
        /\ pinged' \subseteq pinged \cup {approval[a].id}
    BY <1>7 DEF Notify, NotifyFails, histVars
  <2>2. approval'[a].pc = "idle" /\ \A b \in Approvers \ {a} : approval'[b] = approval[b]
    BY <2>1, DoneEffect
  <2> QED
    BY <1>1, <1>2, <1>3, <2>1, <2>2
<1> HIDE DEF Truth
<1> QED
  BY <1>4, <1>5, <1>6, <1>7
     DEF Next, PollStep, ApprovalStep, Tick, BackchannelAuth, Poll, Bump, Stamp, Issue, IssueFails, Consume,
         vars, histVars

\* A poll that passes the slow_down check comes late enough after the last one.
LEMMA NotTooFast ==
  ASSUME TypeInv, IntervalInv, NEW id \in ReqIDs, requests[id] # Nil,
         ~SlowedDown(id), requests[id].status = "pending", requests[id].lastPoll # Nil
  PROVE  Far(now, requests[id].lastPoll)
<1>1. requests[id] \in CIBARequest /\ now \in Time
  BY DEF TypeInv, TypeOK
<1>2. requests[id].lastPoll \in Time /\ requests[id].interval \in Nat
  BY <1>1 DEF CIBARequest
<1>3. ~(now - requests[id].lastPoll < Effective(id))
  BY DEF SlowedDown, TooFast
<1>4. Effective(id) = PollInterval \/ (Effective(id) = requests[id].interval /\ requests[id].interval >= Increment)
  BY <1>2, CibaAssumption DEF Effective, IntervalInv
<1> QED
  BY <1>1, <1>2, <1>3, <1>4, CibaAssumption DEF Far, Time

\* Every step keeps a stored interval zero or at least one increment.
LEMMA IntervalStep ==
  ASSUME TypeInv, IntervalInv, [Next]_vars
  PROVE  IntervalInv'
<1> USE DEF IntervalInv
<1>1. CASE requests' = requests
  BY <1>1
<1>2. ASSUME NEW id \in ReqIDs, NEW cl \in Clients, NEW m \in Modes, NEW life \in 1..Lifetime,
             BackchannelAuth(id, cl, m, life)
      PROVE  IntervalInv'
  BY <1>2 DEF BackchannelAuth, TypeInv, TypeOK
<1>3. ASSUME NEW p \in Pollers, Bump(p)
      PROVE  IntervalInv'
  <2>1. requests[poll[p].id].interval \in Nat
    BY <1>3, BumpEffect DEF TypeInv, TypeOK, CIBARequest
  <2> QED
    BY <1>3, <2>1, BumpEffect, CibaAssumption DEF Rewrites
<1>4. ASSUME NEW p \in Pollers, Stamp(p)
      PROVE  IntervalInv'
  BY <1>4, StampEffect DEF Rewrites
<1>5. ASSUME NEW p \in Pollers, Consume(p)
      PROVE  IntervalInv'
  <2>1. /\ poll[p].id \in ReqIDs /\ requests[poll[p].id] # Nil
        /\ requests' = [requests EXCEPT ![poll[p].id].status = "consumed"]
    BY <1>5 DEF Consume, TypeInv, Handlers, PollOK
  <2> QED
    BY <2>1, StatusEffect DEF Statuses, TypeInv, Rewrites
<1>6. ASSUME NEW a \in Approvers, Update(a) \/ Rewrite(a)
      PROVE  IntervalInv'
  <2>1. /\ approval[a].id \in ReqIDs /\ requests[approval[a].id] # Nil
        /\ approval[a].status \in {"approved", "denied"}
        /\ requests' = [requests EXCEPT ![approval[a].id].status = approval[a].status]
    BY <1>6, UpdateEffect, RewriteEffect
  <2> QED
    BY <2>1, StatusEffect DEF Statuses, TypeInv, Rewrites
<1> QED
  BY <1>1, <1>2, <1>3, <1>4, <1>5, <1>6
     DEF Next, PollStep, ApprovalStep, Tick, Poll, Issue, IssueFails, Review, Notify, NotifyFails, vars

\* Handlers that work on the request go on as they were, and neither the stored
\* time nor the history moves.
LEMMA SpacedKept ==
  ASSUME TypeInv, NEW id \in ReqIDs, SpacedFor(id),
         \A q \in Pollers : poll'[q].id = id =>
           /\ poll[q].id = id /\ poll'[q].at = poll[q].at
           /\ poll'[q].pc = "stamp" => poll[q].pc = "stamp",
         requests'[id] # Nil => requests[id] # Nil /\ requests'[id].lastPoll = requests[id].lastPoll,
         pendings'[id] = pendings[id]
  PROVE  SpacedFor(id)'
  BY DEF SpacedFor, Far

\* Writing a status leaves the last poll alone.
LEMMA StatusKeepsSpacing ==
  ASSUME TypeInv
  PROVE  \A id \in ReqIDs, s \in Statuses :
           requests[id] # Nil /\ requests' = [requests EXCEPT ![id].status = s] =>
             \A x \in ReqIDs : requests'[x] # Nil =>
               requests[x] # Nil /\ requests'[x].lastPoll = requests[x].lastPoll
  BY StatusEffect DEF Rewrites, TypeInv

\* Every step preserves that the pending answers of polls which do not overlap are spaced.
LEMMA SpacedStep ==
  ASSUME TypeInv, IntervalInv, SpacedInv, [Next]_vars
  PROVE  SpacedInv'
<1>0. overlapped \subseteq overlapped'
  BY DEF Next, PollStep, ApprovalStep, Tick, BackchannelAuth, Poll, Bump, Stamp, Issue, IssueFails, Consume,
         Review, Update, Rewrite, Notify, NotifyFails, vars, histVars
<1> SUFFICES ASSUME NEW id \in ReqIDs, id \notin overlapped'
             PROVE  SpacedFor(id)'
  BY DEF SpacedInv
<1>1. SpacedFor(id)
  BY <1>0 DEF SpacedInv
<1>2. CASE poll' = poll /\ pendings' = pendings /\ requests' = requests
  BY <1>1, <1>2, SpacedKept
<1>3. ASSUME NEW i \in ReqIDs, NEW cl \in Clients, NEW m \in Modes, NEW life \in 1..Lifetime,
             BackchannelAuth(i, cl, m, life)
      PROVE  SpacedFor(id)'
  <2>1. /\ poll' = poll /\ pendings' = pendings /\ requests[i] = Nil
        /\ \A x \in ReqIDs \ {i} : requests'[x] = requests[x]
        /\ requests'[i].lastPoll = Nil
    BY <1>3 DEF BackchannelAuth, histVars, TypeInv, TypeOK
  <2>2. CASE i # id
    BY <1>1, <2>1, <2>2, SpacedKept
  <2>3. CASE i = id
    <3>1. pendings[id].last = Nil
      BY <2>1, <2>3 DEF TypeInv, Handlers
    <3> QED
      BY <1>1, <2>1, <2>3, <3>1 DEF SpacedFor
  <2> QED
    BY <2>2, <2>3
<1>4. ASSUME NEW p \in Pollers, NEW i \in ReqIDs, NEW cl \in Clients, Poll(p, i, cl)
      PROVE  SpacedFor(id)'
  <2>1. /\ UNCHANGED <<requests, pendings>> /\ requests[i] # Nil
        /\ overlapped' = IF \E q \in Pollers : poll[q].id = i THEN overlapped \cup {i} ELSE overlapped
    BY <1>4 DEF Poll
  <2>2. /\ poll'[p].id = i /\ poll'[p].at = now
        /\ poll'[p].pc = "stamp" => ~SlowedDown(i) /\ requests[i].status = "pending"
        /\ \A q \in Pollers \ {p} : poll'[q] = poll[q]
    BY <1>4, PollEffect
  <2>3. CASE i # id
    BY <1>1, <2>1, <2>2, <2>3, SpacedKept
  <2>4. CASE i = id
    <3>1. \A q \in Pollers : poll[q].id # id
      BY <2>1, <2>4
    <3>2. \A q \in Pollers : poll'[q].id = id => q = p
      BY <2>2, <3>1
    <3>3. poll'[p].pc = "stamp" /\ pendings[id].last # Nil => Far(now, pendings[id].last)
      BY <1>1, <2>1, <2>2, <2>4, NotTooFast DEF SpacedFor
    <3> QED
      BY <1>1, <2>1, <2>2, <2>4, <3>2, <3>3 DEF SpacedFor, Far
  <2> QED
    BY <2>3, <2>4
<1>5. ASSUME NEW p \in Pollers, Bump(p)
      PROVE  SpacedFor(id)'
  <2>1. poll' = [poll EXCEPT ![p] = IdlePoll] /\ pendings' = pendings
    BY <1>5 DEF Bump
  <2>2. poll'[p].id = Nil /\ \A q \in Pollers \ {p} : poll'[q] = poll[q]
    BY <2>1, AnswerEffect DEF IdlePoll
  <2>3. requests'[id] # Nil => requests[id] # Nil /\ requests'[id].lastPoll = requests[id].lastPoll
    BY <1>5, BumpEffect DEF Rewrites
  <2> QED
    BY <1>1, <2>1, <2>2, <2>3, SpacedKept, CibaAssumption
<1>6. ASSUME NEW p \in Pollers, Stamp(p)
      PROVE  SpacedFor(id)'
  <2> DEFINE i == poll[p].id
             g == [last |-> poll[p].at, before |-> pendings[i].last]
  <2>1. /\ poll' = [poll EXCEPT ![p] = IdlePoll] /\ poll[p].pc = "stamp"
        /\ pendings' = [pendings EXCEPT ![i] = g]
    BY <1>6 DEF Stamp
  <2>2. poll'[p].id = Nil /\ \A q \in Pollers \ {p} : poll'[q] = poll[q]
    BY <2>1, AnswerEffect DEF IdlePoll
  <2>3. /\ i \in ReqIDs /\ Rewrites(i) /\ requests'[i].lastPoll = poll[p].at
    BY <1>6, StampEffect
  <2>4. g.last = poll[p].at /\ g.before = pendings[i].last
    OBVIOUS
  <2>5. CASE i # id
    <3>1. requests'[id] = requests[id] /\ pendings'[id] = pendings[id]
      BY <2>1, <2>3, <2>5 DEF Rewrites, TypeInv, TypeOK
    <3> QED
      BY <1>1, <2>2, <3>1, SpacedKept, CibaAssumption
  <2>6. CASE i = id
    <3>1. pendings'[id] = g
      BY <2>1, <2>6 DEF TypeInv, TypeOK
    <3>2. \A q \in Pollers : poll'[q].id # id
      BY <1>1, <2>2, <2>6, CibaAssumption DEF SpacedFor
    <3>3. pendings[id].last # Nil => Far(poll[p].at, pendings[id].last)
      BY <1>1, <2>1, <2>6 DEF SpacedFor
    <3>4. poll[p].at # Nil
      BY <2>1, CibaAssumption DEF TypeInv, Handlers, PollOK, Time
    <3> HIDE DEF g
    <3> QED
      BY <2>3, <2>4, <2>6, <3>1, <3>2, <3>3, <3>4 DEF SpacedFor, Far
  <2> QED
    BY <2>5, <2>6
<1>7. ASSUME NEW p \in Pollers, Issue(p)
      PROVE  SpacedFor(id)'
  <2>1. UNCHANGED <<requests, pendings>>
    BY <1>7 DEF Issue
  <2> QED
    BY <1>1, <1>7, <2>1, IssueEffect, SpacedKept
<1>8. ASSUME NEW p \in Pollers, IssueFails(p)
      PROVE  SpacedFor(id)'
  <2>1. poll' = [poll EXCEPT ![p] = IdlePoll] /\ UNCHANGED <<requests, pendings>>
    BY <1>8 DEF IssueFails
  <2>2. poll'[p].id = Nil /\ \A q \in Pollers \ {p} : poll'[q] = poll[q]
    BY <2>1, AnswerEffect DEF IdlePoll
  <2> QED
    BY <1>1, <2>1, <2>2, SpacedKept, CibaAssumption
<1>9. ASSUME NEW p \in Pollers, Consume(p)
      PROVE  SpacedFor(id)'
  <2>1. /\ poll' = [poll EXCEPT ![p] = IdlePoll] /\ pendings' = pendings
        /\ poll[p].id \in ReqIDs /\ requests[poll[p].id] # Nil
        /\ requests' = [requests EXCEPT ![poll[p].id].status = "consumed"]
    BY <1>9 DEF Consume, TypeInv, Handlers, PollOK, histVars
  <2>2. poll'[p].id = Nil /\ \A q \in Pollers \ {p} : poll'[q] = poll[q]
    BY <2>1, AnswerEffect DEF IdlePoll
  <2>3. requests'[id] # Nil => requests[id] # Nil /\ requests'[id].lastPoll = requests[id].lastPoll
    BY <2>1, StatusKeepsSpacing DEF Statuses
  <2> QED
    BY <1>1, <2>1, <2>2, <2>3, SpacedKept, CibaAssumption
<1>10. ASSUME NEW a \in Approvers, Update(a) \/ Rewrite(a)
       PROVE  SpacedFor(id)'
  <2>1. /\ approval[a].id \in ReqIDs /\ requests[approval[a].id] # Nil
        /\ approval[a].status \in {"approved", "denied"}
        /\ requests' = [requests EXCEPT ![approval[a].id].status = approval[a].status]
        /\ UNCHANGED <<now, poll, histVars>>
    BY <1>10, UpdateEffect, RewriteEffect
  <2>2. requests'[id] # Nil => requests[id] # Nil /\ requests'[id].lastPoll = requests[id].lastPoll
    BY <2>1, StatusKeepsSpacing DEF Statuses
  <2>3. poll' = poll /\ pendings' = pendings
    BY <2>1 DEF histVars
  <2> QED
    BY <1>1, <2>2, <2>3, SpacedKept
<1> QED
  BY <1>2, <1>3, <1>4, <1>5, <1>6, <1>7, <1>8, <1>9, <1>10
     DEF Next, PollStep, ApprovalStep, Tick, Review, Notify, NotifyFails, vars, histVars

\* The notification is truthful, and while a client's polls do not overlap it is
\* sent away no more often than the interval and the slow_down increment say.
THEOREM AnswersSoundHolds == Spec => []AnswersSound
<1>1. Init => AnswerInv
  BY CibaAssumption
     DEF Init, AnswerInv, PingInv, PingTellsTruth, IntervalInv, SpacedInv, SpacedFor, IdlePoll, IdleApproval
<1>2. TypeInv /\ TypeInv' /\ AnswerInv /\ [Next]_vars => AnswerInv'
  BY PingStep, IntervalStep, SpacedStep DEF AnswerInv
<1>3. TypeInv /\ AnswerInv => AnswersSound
  BY DEF TypeInv, AnswerInv, PingInv, SpacedInv, SpacedFor, Far, AnswersSound, PendingSpaced
<1> QED
  BY <1>1, <1>2, <1>3, TypeInvariance, PTL DEF Spec

=============================================================================
