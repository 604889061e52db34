------------------------- MODULE DeviceGrantProofs -------------------------
(***************************************************************************)
(* Theorems about DeviceGrant, for any number of codes, users, concurrent  *)
(* requests and polls, and for all intervals and lifetimes.                *)
(***************************************************************************)
EXTENDS DeviceGrant, FiniteSetTheorems, TLAPS

-----------------------------------------------------------------------------
(* Type correctness.  TypeOK is not inductive: CleanupExpired removes an   *)
(* entry together with the user code that the entry names, so the type     *)
(* invariant needs the way back, from a user code to the entry that names  *)
(* it; and a handler that is under way knows its code.                     *)

CodesLead ==
  \A uc \in UserCodes : byCode[uc] # Nil =>
    entries[byCode[uc]] # Nil /\ entries[byCode[uc]].userCode = uc

Drawn ==
  /\ \A d \in DeviceCodes : entries[d] # Nil => d \in used
  /\ \A h \in Authorizers : authorize[h].pc = "store" => authorize[h].uc \in UserCodes
  /\ \A p \in Pollers : poll[p].pc # "idle" =>
       poll[p].dc \in used /\ poll[p].at \in Time /\ poll[p].at <= now
  /\ \A p \in Pollers : poll[p].pc = "idle" => poll[p] = IdlePoll
  /\ \A d \in DeviceCodes : answered[d] # Nil => d \in used /\ answered[d] <= now
  /\ \A d \in DeviceCodes : entries[d] # Nil /\ entries[d].lastPoll # Nil =>
       entries[d].lastPoll <= now

TypeInv == TypeOK /\ CodesLead /\ Drawn

\* What a store method that writes to one entry leaves alone.
Rewrites(d) ==
  /\ entries' \in [DeviceCodes -> DeviceAuth \cup {Nil}]
  /\ \A x \in DeviceCodes \ {d} : entries'[x] = entries[x]
  /\ entries[d] = Nil => entries'[d] = Nil
  /\ entries[d] # Nil => /\ entries'[d] \in DeviceAuth
                         /\ entries'[d].userCode = entries[d].userCode
                         /\ entries'[d].expires = entries[d].expires

\* ApproveDeviceAuthorization writes the user and the decision.
LEMMA ApproveEffect ==
  ASSUME TypeInv, NEW uc \in UserCodes, NEW user \in Users, Approve(uc, user)
  PROVE  LET d == byCode[uc] IN
         /\ d \in DeviceCodes /\ entries[d] \in DeviceAuth /\ entries[d].userCode = uc
         /\ Rewrites(d)
         /\ entries'[d].done /\ entries'[d].subject = user
         /\ entries'[d].denied = entries[d].denied
         /\ entries'[d].lastPoll = entries[d].lastPoll
         /\ entries'[d].interval = entries[d].interval
<1> DEFINE d == byCode[uc]
           f == [entries[d] EXCEPT !.done = TRUE, !.subject = user]
<1>1. d \in DeviceCodes /\ entries[d] \in DeviceAuth /\ entries[d].userCode = uc
  BY DEF Approve, TypeInv, TypeOK, CodesLead
<1>2. entries' = [entries EXCEPT ![d] = f]
  <2>1. entries' = [entries EXCEPT ![d].done = TRUE, ![d].subject = user]
    BY DEF Approve
  <2>2. \A S : entries \in [DeviceCodes -> S] =>
          [entries EXCEPT ![d].done = TRUE, ![d].subject = user] = [entries EXCEPT ![d] = f]
    BY <1>1
  <2> QED
    BY <2>1, <2>2 DEF TypeInv, TypeOK
<1>3. ASSUME NEW e \in DeviceAuth
      PROVE  LET g == [e EXCEPT !.done = TRUE, !.subject = user] IN
             /\ g \in DeviceAuth /\ g.done /\ g.subject = user
             /\ g.userCode = e.userCode /\ g.expires = e.expires
             /\ g.denied = e.denied /\ g.lastPoll = e.lastPoll /\ g.interval = e.interval
  BY DEF DeviceAuth
<1>4. /\ f \in DeviceAuth /\ f.done /\ f.subject = user
      /\ f.userCode = entries[d].userCode /\ f.expires = entries[d].expires
      /\ f.denied = entries[d].denied /\ f.lastPoll = entries[d].lastPoll
      /\ f.interval = entries[d].interval
  BY <1>1, <1>3
<1> HIDE DEF f
<1>5. entries'[d] = f /\ Rewrites(d)
  BY EntryAssumption, <1>1, <1>2, <1>4 DEF Rewrites, TypeInv, TypeOK
<1> QED
  BY <1>1, <1>4, <1>5

\* DenyDeviceAuthorization writes the denial only.
LEMMA DenyEffect ==
  ASSUME TypeInv, NEW uc \in UserCodes, Deny(uc)
  PROVE  LET d == byCode[uc] IN
         /\ d \in DeviceCodes /\ entries[d] \in DeviceAuth /\ entries[d].userCode = uc
         /\ Rewrites(d)
         /\ entries'[d].denied
         /\ entries'[d].done = entries[d].done
         /\ entries'[d].subject = entries[d].subject
         /\ entries'[d].lastPoll = entries[d].lastPoll
         /\ entries'[d].interval = entries[d].interval
<1> DEFINE d == byCode[uc]
           f == [entries[d] EXCEPT !.denied = TRUE]
<1>1. d \in DeviceCodes /\ entries[d] \in DeviceAuth /\ entries[d].userCode = uc
  BY DEF Deny, TypeInv, TypeOK, CodesLead
<1>2. entries' = [entries EXCEPT ![d] = f]
  BY DEF Deny
<1>3. ASSUME NEW e \in DeviceAuth
      PROVE  LET g == [e EXCEPT !.denied = TRUE] IN
             /\ g \in DeviceAuth /\ g.denied
             /\ g.userCode = e.userCode /\ g.expires = e.expires
             /\ g.done = e.done /\ g.subject = e.subject
             /\ g.lastPoll = e.lastPoll /\ g.interval = e.interval
  BY DEF DeviceAuth
<1>4. /\ f \in DeviceAuth /\ f.denied
      /\ f.userCode = entries[d].userCode /\ f.expires = entries[d].expires
      /\ f.done = entries[d].done /\ f.subject = entries[d].subject
      /\ f.lastPoll = entries[d].lastPoll /\ f.interval = entries[d].interval
  BY <1>1, <1>3
<1> HIDE DEF f
<1>5. entries'[d] = f /\ Rewrites(d)
  BY EntryAssumption, <1>1, <1>2, <1>4 DEF Rewrites, TypeInv, TypeOK
<1> QED
  BY <1>1, <1>4, <1>5

\* A handler under way has a device code that was drawn, and a poll time.
LEMMA HandlerOf ==
  ASSUME TypeInv, NEW p \in Pollers, poll[p].pc # "idle"
  PROVE  /\ poll[p].dc \in DeviceCodes /\ poll[p].dc \in used
         /\ poll[p].at \in Time /\ poll[p].at <= now
         /\ entries[poll[p].dc] # Nil => entries[poll[p].dc] \in DeviceAuth
  BY DEF TypeInv, TypeOK, Drawn

\* UpdateDeviceAuthorizationInterval writes the interval only.
LEMMA BumpEffect ==
  ASSUME TypeInv, NEW p \in Pollers, Bump(p)
  PROVE  LET d == poll[p].dc IN
         /\ d \in DeviceCodes
         /\ Rewrites(d)
         /\ entries[d] # Nil =>
              /\ entries'[d].denied = entries[d].denied
              /\ entries'[d].done = entries[d].done
              /\ entries'[d].subject = entries[d].subject
              /\ entries'[d].lastPoll = entries[d].lastPoll
<1> DEFINE d == poll[p].dc
           f == IF entries[d] = Nil THEN Nil
                ELSE [entries[d] EXCEPT !.interval = entries[d].interval + Increment]
<1>1. d \in DeviceCodes /\ (entries[d] # Nil => entries[d] \in DeviceAuth)
  BY HandlerOf DEF Bump
<1>2. entries' = [entries EXCEPT ![d] = f]
  BY DEF Bump
<1>3. ASSUME NEW e \in DeviceAuth
      PROVE  LET g == [e EXCEPT !.interval = e.interval + Increment] IN
             /\ g \in DeviceAuth
             /\ g.userCode = e.userCode /\ g.expires = e.expires /\ g.denied = e.denied
             /\ g.done = e.done /\ g.subject = e.subject /\ g.lastPoll = e.lastPoll
  BY DeviceAssumption DEF DeviceAuth
<1>4. entries[d] # Nil =>
        /\ f \in DeviceAuth
        /\ f.userCode = entries[d].userCode /\ f.expires = entries[d].expires
        /\ f.denied = entries[d].denied /\ f.done = entries[d].done
        /\ f.subject = entries[d].subject /\ f.lastPoll = entries[d].lastPoll
  BY <1>1, <1>3
<1>5. entries[d] = Nil => f = Nil
  OBVIOUS
<1> HIDE DEF f
<1>6. entries'[d] = f /\ Rewrites(d)
  BY EntryAssumption, <1>1, <1>2, <1>4, <1>5 DEF Rewrites, TypeInv, TypeOK
<1> QED
  BY <1>1, <1>4, <1>6

PollRecord == [pc : {"idle", "bump", "stamp", "issue"}, dc : DeviceCodes \cup {Nil},
               at : Time \cup {Nil}, done : BOOLEAN, subject : Users \cup {Nil}]

\* A handler that answers is idle; the others stay where they are.
LEMMA Answers ==
  ASSUME TypeInv, NEW p \in Pollers, poll' = [poll EXCEPT ![p] = IdlePoll],
         NEW d \in used, answered' = [answered EXCEPT ![d] = now]
  PROVE  /\ poll' \in [Pollers -> PollRecord]
         /\ poll'[p] = IdlePoll
         /\ poll'[p].pc = "idle" /\ poll'[p].dc = Nil /\ ~poll'[p].done
         /\ \A q \in Pollers \ {p} : poll'[q] = poll[q]
         /\ answered' \in [DeviceCodes -> Time \cup {Nil}]
         /\ answered'[d] = now
         /\ \A x \in DeviceCodes \ {d} : answered'[x] = answered[x]
<1>1. poll \in [Pollers -> PollRecord] /\ IdlePoll \in PollRecord
  BY DEF TypeInv, TypeOK, PollRecord, IdlePoll
<1>2. IdlePoll.pc = "idle" /\ IdlePoll.dc = Nil /\ ~IdlePoll.done
  BY DEF IdlePoll
<1>3. /\ poll' \in [Pollers -> PollRecord]
      /\ poll'[p] = IdlePoll
      /\ \A q \in Pollers \ {p} : poll'[q] = poll[q]
  BY <1>1
<1>4. /\ answered' \in [DeviceCodes -> Time \cup {Nil}]
      /\ answered'[d] = now
      /\ \A x \in DeviceCodes \ {d} : answered'[x] = answered[x]
  BY DEF TypeInv, TypeOK
<1> QED
  BY <1>2, <1>3, <1>4

\* UpdateDeviceAuthorizationPoll writes the time of the poll only; the handler
\* goes on to issue, or answers.
LEMMA StampEffect ==
  ASSUME TypeInv, NEW p \in Pollers, Stamp(p)
  PROVE  LET d == poll[p].dc IN
         /\ d \in DeviceCodes
         /\ Rewrites(d)
         /\ entries[d] # Nil =>
              /\ entries'[d].denied = entries[d].denied
              /\ entries'[d].done = entries[d].done
              /\ entries'[d].subject = entries[d].subject
              /\ entries'[d].interval = entries[d].interval
              /\ entries'[d].lastPoll = poll[p].at
         /\ poll' \in [Pollers -> PollRecord]
         /\ \A q \in Pollers \ {p} : poll'[q] = poll[q]
         /\ ~poll[p].done => poll'[p] = IdlePoll
         /\ poll[p].done => /\ poll'[p].pc = "issue" /\ poll'[p].done
                            /\ poll'[p].dc = d /\ poll'[p].at = poll[p].at
                            /\ poll'[p].subject = poll[p].subject
<1> DEFINE d == poll[p].dc
           f == IF entries[d] = Nil THEN Nil
                ELSE [entries[d] EXCEPT !.lastPoll = poll[p].at]
<1>1. d \in DeviceCodes /\ (entries[d] # Nil => entries[d] \in DeviceAuth)
      /\ poll[p].at \in Time
  BY HandlerOf DEF Stamp
<1>2. entries' = [entries EXCEPT ![d] = f]
  BY DEF Stamp
<1>3. ASSUME NEW e \in DeviceAuth
      PROVE  LET g == [e EXCEPT !.lastPoll = poll[p].at] IN
             /\ g \in DeviceAuth
             /\ g.userCode = e.userCode /\ g.expires = e.expires /\ g.denied = e.denied
             /\ g.done = e.done /\ g.subject = e.subject /\ g.interval = e.interval
             /\ g.lastPoll = poll[p].at
  BY <1>1 DEF DeviceAuth
<1>4. entries[d] # Nil =>
        /\ f \in DeviceAuth
        /\ f.userCode = entries[d].userCode /\ f.expires = entries[d].expires
        /\ f.denied = entries[d].denied /\ f.done = entries[d].done
        /\ f.subject = entries[d].subject /\ f.interval = entries[d].interval
        /\ f.lastPoll = poll[p].at
  BY <1>1, <1>3
<1>5. entries[d] = Nil => f = Nil
  OBVIOUS
<1> HIDE DEF f
<1>6. entries'[d] = f /\ Rewrites(d)
  BY EntryAssumption, <1>1, <1>2, <1>4, <1>5 DEF Rewrites, TypeInv, TypeOK
<1>7. /\ poll' \in [Pollers -> PollRecord]
      /\ \A q \in Pollers \ {p} : poll'[q] = poll[q]
      /\ ~poll[p].done => poll'[p] = IdlePoll
      /\ poll[p].done => /\ poll'[p].pc = "issue" /\ poll'[p].done
                         /\ poll'[p].dc = d /\ poll'[p].at = poll[p].at
                         /\ poll'[p].subject = poll[p].subject
  <2>1. poll \in [Pollers -> PollRecord]
    BY DEF TypeInv, TypeOK, PollRecord
  <2>2. CASE poll[p].done
    <3>1. poll' = [poll EXCEPT ![p].pc = "issue"]
      BY <2>2 DEF Stamp
    <3> QED
      BY <2>1, <2>2, <3>1 DEF PollRecord
  <2>3. CASE ~poll[p].done
    <3>1. poll' = [poll EXCEPT ![p] = IdlePoll]
      BY <2>3 DEF Stamp
    <3> QED
      BY <2>1, <2>3, <3>1 DEF IdlePoll, PollRecord
  <2> QED
    BY <2>2, <2>3
<1> QED
  BY <1>1, <1>4, <1>6, <1>7

\* Initially nothing was drawn.
LEMMA TypeInit == Init => TypeInv
  BY DeviceAssumption, EntryAssumption
  DEF Init, TypeInv, TypeOK, CodesLead, Drawn, Time, IdleAuthorize, IdlePoll

\* Every step keeps types, and user codes lead to the entries that name them.
LEMMA TypeNext == TypeInv /\ [Next]_vars => TypeInv'
<1> SUFFICES ASSUME TypeInv, [Next]_vars PROVE TypeInv'
  OBVIOUS
<1> USE DeviceAssumption, EntryAssumption DEF Time
<1>0. TypeOK /\ CodesLead /\ Drawn
  BY DEF TypeInv
<1>1. CASE Tick
  <2>1. now \in Nat /\ now' = now + 1 /\ now' \in Time
        /\ UNCHANGED <<entries, byCode, authorize, poll, used, approvals, budget,
                       issued, subjects, answered, slowdowns, hasty>>
    BY <1>0, <1>1 DEF Tick, TypeOK
  <2>2. TypeOK' /\ CodesLead'
    BY <1>0, <2>1 DEF TypeOK, CodesLead
  <2>3. \A d \in DeviceCodes : entries[d] # Nil => entries[d].lastPoll \in Time \cup {Nil}
    BY <1>0 DEF TypeOK, DeviceAuth
  <2>4. Drawn'
    BY <1>0, <2>1, <2>3 DEF Drawn, TypeOK
  <2> QED
    BY <2>2, <2>4 DEF TypeInv
<1>2. CASE CleanupExpired
  <2> DEFINE old == {d \in DeviceCodes : entries[d] # Nil /\ Expired(d)}
  <2>1. /\ entries' = [d \in DeviceCodes |-> IF d \in old THEN Nil ELSE entries[d]]
        /\ byCode' = [uc \in UserCodes |->
             IF \E d \in old : entries[d].userCode = uc THEN Nil ELSE byCode[uc]]
        /\ UNCHANGED <<now, authorize, poll, used, approvals, budget, issued, subjects,
                       answered, slowdowns, hasty>>
    BY <1>2 DEF CleanupExpired
  <2>2. \A uc \in UserCodes : byCode'[uc] # Nil =>
          /\ byCode'[uc] = byCode[uc] /\ byCode[uc] \in DeviceCodes
          /\ byCode[uc] \notin old
    BY <1>0, <2>1 DEF TypeOK, CodesLead
  <2>3. entries' \in [DeviceCodes -> DeviceAuth \cup {Nil}]
        /\ byCode' \in [UserCodes -> DeviceCodes \cup {Nil}]
    BY <1>0, <2>1 DEF TypeOK
  <2>4. CodesLead'
    BY <1>0, <2>1, <2>2 DEF CodesLead
  <2>5. TypeOK'
    BY <1>0, <2>1, <2>3, <2>4 DEF TypeOK, CodesLead
  <2>6. Drawn'
    BY <1>0, <2>1 DEF Drawn
  <2> QED
    BY <2>4, <2>5, <2>6 DEF TypeInv
<1>3. ASSUME NEW h \in Authorizers, NEW uc \in UserCodes, DrawUserCode(h, uc)
      PROVE  TypeInv'
  BY <1>0, <1>3 DEF DrawUserCode, TypeInv, TypeOK, CodesLead, Drawn
<1>4. ASSUME NEW h \in Authorizers, NEW d \in DeviceCodes, StoreDeviceAuthorization(h, d)
      PROVE  TypeInv'
  <2> DEFINE e == [userCode |-> authorize[h].uc, subject |-> Nil, expires |-> now + Lifetime,
                   done |-> FALSE, denied |-> FALSE, lastPoll |-> Nil, interval |-> 0]
  <2>1. authorize[h].uc \in UserCodes /\ d \notin used
    BY <1>0, <1>4 DEF StoreDeviceAuthorization, Drawn
  <2>2. e \in DeviceAuth /\ e.userCode = authorize[h].uc /\ e.lastPoll = Nil
    BY <1>0, <2>1 DEF DeviceAuth, TypeOK
  <2>3. /\ entries' = [entries EXCEPT ![d] = e]
        /\ byCode' = [byCode EXCEPT ![authorize[h].uc] = d]
        /\ used' = used \cup {d}
        /\ authorize' = [authorize EXCEPT ![h] = IdleAuthorize]
        /\ UNCHANGED <<now, poll, approvals, budget, issued, subjects, answered,
                       slowdowns, hasty>>
    BY <1>4 DEF StoreDeviceAuthorization
  <2> HIDE DEF e
  <2>4. CodesLead'
    BY <1>0, <2>1, <2>2, <2>3 DEF CodesLead, Drawn, TypeOK
  <2>5. TypeOK'
    BY <1>0, <2>1, <2>2, <2>3, <2>4 DEF TypeOK, CodesLead, IdleAuthorize
  <2>6. Drawn'
    BY <1>0, <2>1, <2>2, <2>3 DEF TypeOK, Drawn, IdleAuthorize
  <2> QED
    BY <2>4, <2>5, <2>6 DEF TypeInv
<1>5. ASSUME NEW uc \in UserCodes, NEW user \in Users, Approve(uc, user)
      PROVE  TypeInv'
  <2>1. UNCHANGED <<now, byCode, authorize, poll, used, budget, issued, subjects,
                    answered, slowdowns, hasty>>
        /\ approvals' = [approvals EXCEPT ![byCode[uc]] = @ \cup {user}]
    BY <1>5 DEF Approve
  <2>2. CodesLead'
    BY <1>0, <1>5, <2>1, ApproveEffect DEF Rewrites, TypeOK, CodesLead
  <2>3. TypeOK'
    BY <1>0, <1>5, <2>1, <2>2, ApproveEffect DEF Rewrites, TypeOK, CodesLead
  <2>4. Drawn'
    BY <1>0, <1>5, <2>1, ApproveEffect DEF Rewrites, Drawn
  <2> QED
    BY <2>2, <2>3, <2>4 DEF TypeInv
<1>6. ASSUME NEW uc \in UserCodes, Deny(uc)
      PROVE  TypeInv'
  <2>1. UNCHANGED <<now, byCode, authorize, poll, used, approvals, issued, subjects,
                    answered, slowdowns, hasty>>
        /\ budget' = [budget EXCEPT ![byCode[uc]] =
             IF @ = Nil THEN issued[byCode[uc]] + Cardinality(InFlight(byCode[uc])) ELSE @]
    BY <1>6 DEF Deny
  <2>2. Cardinality(InFlight(byCode[uc])) \in Nat
    BY FS_Subset, FS_CardinalityType DEF InFlight
  <2>3. CodesLead'
    BY <1>0, <1>6, <2>1, DenyEffect DEF Rewrites, TypeOK, CodesLead
  <2>4. budget' \in [DeviceCodes -> Nat \cup {Nil}]
    BY <1>0, <1>6, <2>1, <2>2, DenyEffect DEF TypeOK
  <2>5. TypeOK'
    BY <1>0, <1>6, <2>1, <2>3, <2>4, DenyEffect DEF Rewrites, TypeOK, CodesLead
  <2>6. Drawn'
    BY <1>0, <1>6, <2>1, DenyEffect DEF Rewrites, Drawn
  <2> QED
    BY <2>3, <2>5, <2>6 DEF TypeInv
<1>7. ASSUME NEW p \in Pollers, NEW d \in DeviceCodes, Poll(p, d)
      PROVE  TypeInv'
  <2>1. entries[d] \in DeviceAuth /\ d \in used
    BY <1>0, <1>7 DEF Poll, TypeOK, Drawn
  <2>2. TypeOK'
    BY <1>0, <1>7, <2>1 DEF Poll, TypeOK, DeviceAuth
  <2>3. CodesLead' /\ Drawn'
    BY <1>0, <1>7, <2>1 DEF Poll, TypeOK, CodesLead, Drawn
  <2> QED
    BY <2>2, <2>3 DEF TypeInv
<1>8. ASSUME NEW p \in Pollers, Bump(p) \/ Stamp(p) \/ Issue(p) \/ IssueFails(p)
      PROVE  TypeInv'
  <2> DEFINE d == poll[p].dc
  <2>1. /\ poll[p].pc # "idle" /\ d \in used /\ d \in DeviceCodes
        /\ poll[p].at \in Time /\ poll[p].at <= now
    BY <1>8, HandlerOf DEF Bump, Stamp, Issue, IssueFails
  <2>2. CASE Bump(p)
    <3>1. /\ UNCHANGED <<now, byCode, authorize, used, approvals, budget, issued,
                         subjects, hasty>>
          /\ slowdowns[d] < MaxSlowdowns
          /\ slowdowns' = [slowdowns EXCEPT ![d] = @ + 1]
          /\ answered' = [answered EXCEPT ![d] = now]
          /\ poll' = [poll EXCEPT ![p] = IdlePoll]
      BY <2>2 DEF Bump
    <3> HIDE DEF d
    <3>2. d \in DeviceCodes /\ Rewrites(d)
          /\ (entries[d] # Nil => entries'[d].lastPoll = entries[d].lastPoll)
      BY <2>2, BumpEffect DEF d
    <3>3. CodesLead'
      BY <1>0, <3>1, <3>2 DEF Rewrites, TypeOK, CodesLead
    <3>4. slowdowns' \in [DeviceCodes -> 0..MaxSlowdowns]
      BY <1>0, <3>1, <3>2 DEF TypeOK
    <3>5. /\ poll' \in [Pollers -> PollRecord]
          /\ poll'[p] = IdlePoll /\ poll'[p].pc = "idle"
          /\ \A q \in Pollers \ {p} : poll'[q] = poll[q]
          /\ answered' \in [DeviceCodes -> Time \cup {Nil}]
          /\ answered'[d] = now
          /\ \A x \in DeviceCodes \ {d} : answered'[x] = answered[x]
      BY <2>1, <3>1, Answers DEF d
    <3>6. TypeOK'
      BY <1>0, <3>1, <3>2, <3>3, <3>4, <3>5 DEF Rewrites, TypeOK, CodesLead, PollRecord
    <3>7. Drawn'
      BY <1>0, <2>1, <3>1, <3>2, <3>5 DEF Rewrites, TypeOK, Drawn
    <3> QED
      BY <3>3, <3>6, <3>7 DEF TypeInv
  <2>3. CASE Stamp(p)
    <3>1. UNCHANGED <<now, byCode, authorize, used, approvals, budget, issued,
                      subjects, slowdowns, hasty>>
      BY <2>3 DEF Stamp
    <3>2. /\ answered' \in [DeviceCodes -> Time \cup {Nil}]
          /\ answered'[d] \in {answered[d], now}
          /\ \A x \in DeviceCodes \ {d} : answered'[x] = answered[x]
      BY <1>0, <2>1, <2>3 DEF Stamp, TypeOK
    <3> HIDE DEF d
    <3>3. /\ Rewrites(d)
          /\ entries[d] # Nil => entries'[d].lastPoll = poll[p].at
          /\ poll' \in [Pollers -> PollRecord]
          /\ \A q \in Pollers \ {p} : poll'[q] = poll[q]
          /\ poll'[p].pc = "idle" => poll'[p] = IdlePoll
          /\ poll'[p].pc # "idle" => poll'[p].dc = d /\ poll'[p].at = poll[p].at
      <4>1. IdlePoll.pc = "idle"
        BY DEF IdlePoll
      <4> QED
        BY <2>3, <4>1, StampEffect DEF d
    <3>4. CodesLead'
      BY <1>0, <2>1, <3>1, <3>3 DEF Rewrites, TypeOK, CodesLead
    <3>5. TypeOK'
      BY <1>0, <2>1, <3>1, <3>2, <3>3, <3>4 DEF Rewrites, TypeOK, CodesLead, PollRecord
    <3>6. Drawn'
      BY <1>0, <2>1, <3>1, <3>2, <3>3 DEF Rewrites, TypeOK, Drawn
    <3> QED
      BY <3>4, <3>5, <3>6 DEF TypeInv
  <2>4. CASE Issue(p) \/ IssueFails(p)
    <3>1. /\ UNCHANGED <<now, entries, byCode, authorize, used, approvals, budget,
                         slowdowns, hasty>>
          /\ poll' = [poll EXCEPT ![p] = IdlePoll]
          /\ answered' = [answered EXCEPT ![d] = now]
      BY <2>4 DEF Issue, IssueFails
    <3>2. issued' \in [DeviceCodes -> 0..MaxIssued]
      BY <1>0, <2>1, <2>4 DEF Issue, IssueFails, TypeOK
    <3>3. subjects' \in [DeviceCodes -> SUBSET (Users \cup {Nil})]
      BY <1>0, <2>1, <2>4 DEF Issue, IssueFails, TypeOK
    <3> HIDE DEF d
    <3>4. /\ poll' \in [Pollers -> PollRecord]
          /\ poll'[p] = IdlePoll /\ poll'[p].pc = "idle"
          /\ \A q \in Pollers \ {p} : poll'[q] = poll[q]
          /\ answered' \in [DeviceCodes -> Time \cup {Nil}]
          /\ answered'[d] = now
          /\ \A x \in DeviceCodes \ {d} : answered'[x] = answered[x]
      BY <2>1, <3>1, Answers
    <3>5. TypeOK' /\ CodesLead'
      BY <1>0, <3>1, <3>2, <3>3, <3>4 DEF TypeOK, CodesLead, PollRecord
    <3>6. Drawn'
      BY <1>0, <2>1, <3>1, <3>4 DEF TypeOK, Drawn
    <3> QED
      BY <3>5, <3>6 DEF TypeInv
  <2> QED
    BY <1>8, <2>2, <2>3, <2>4
<1>9. CASE UNCHANGED vars
  BY <1>0, <1>9 DEF vars, TypeInv, TypeOK, CodesLead, Drawn
<1> QED
  BY <1>1, <1>2, <1>3, <1>4, <1>5, <1>6, <1>7, <1>8, <1>9
  DEF Next, AuthorizeStep, PollStep, UserStep

\* The type invariant holds in every reachable state.
THEOREM TypeInvariance == Spec => []TypeInv
<1> QED
  BY TypeInit, TypeNext, PTL DEF Spec

\* What the steps after the lookup do to handlers: p loses its device code and
\* its copy, or goes from stamping to issuing with the same copy.
LEMMA HandlerMoves ==
  ASSUME TypeInv, NEW p \in Pollers, Bump(p) \/ Stamp(p) \/ Issue(p) \/ IssueFails(p)
  PROVE  /\ poll[p].dc \in DeviceCodes /\ poll[p].dc \in used
         /\ \A q \in Pollers \ {p} : poll'[q] = poll[q]
         /\ \/ /\ poll'[p].pc = "idle" /\ poll'[p].dc = Nil /\ ~poll'[p].done
               /\ answered'[poll[p].dc] = now
            \/ /\ Stamp(p) /\ poll'[p].pc = "issue" /\ poll[p].done /\ poll'[p].done
               /\ poll'[p].dc = poll[p].dc /\ poll'[p].subject = poll[p].subject
               /\ answered' = answered
         /\ \A x \in DeviceCodes \ {poll[p].dc} : answered'[x] = answered[x]
<1>1. poll[p].dc \in DeviceCodes /\ poll[p].dc \in used
  BY HandlerOf DEF Bump, Stamp, Issue, IssueFails
<1>2. CASE /\ poll' = [poll EXCEPT ![p] = IdlePoll]
           /\ answered' = [answered EXCEPT ![poll[p].dc] = now]
  <2>1. /\ poll'[p].pc = "idle" /\ poll'[p].dc = Nil /\ ~poll'[p].done
        /\ \A q \in Pollers \ {p} : poll'[q] = poll[q]
        /\ answered'[poll[p].dc] = now
        /\ \A x \in DeviceCodes \ {poll[p].dc} : answered'[x] = answered[x]
    BY <1>1, <1>2, Answers
  <2> QED
    BY <1>1, <2>1
<1>3. CASE Stamp(p) /\ poll[p].done
  <2>1. answered' = answered
    BY <1>3 DEF Stamp
  <2> QED
    BY <1>1, <1>3, <2>1, StampEffect
<1>4. Stamp(p) /\ ~poll[p].done =>
        /\ poll' = [poll EXCEPT ![p] = IdlePoll]
        /\ answered' = [answered EXCEPT ![poll[p].dc] = now]
  BY DEF Stamp
<1>5. Bump(p) \/ Issue(p) \/ IssueFails(p) =>
        /\ poll' = [poll EXCEPT ![p] = IdlePoll]
        /\ answered' = [answered EXCEPT ![poll[p].dc] = now]
  BY DEF Bump, Issue, IssueFails
<1> QED
  BY <1>2, <1>3, <1>4, <1>5

-----------------------------------------------------------------------------
(* Tokens need an approval.  The token's subject is the one of the copy    *)
(* that the poll read, the copy's is the entry's, and the entry's is the   *)
(* one of the last approval: each of the three is among the approvers.     *)

ApprovalInv ==
  /\ \A d \in DeviceCodes : entries[d] # Nil /\ entries[d].done =>
       entries[d].subject \in approvals[d]
  /\ \A p \in Pollers : poll[p].done => poll[p].subject \in approvals[poll[p].dc]
  /\ \A p \in Pollers : poll[p].pc = "issue" => poll[p].done
  /\ TokensNeedApproval

\* Initially there are no entries and no tokens.
LEMMA ApprovalInit == Init => ApprovalInv
  BY DEF Init, ApprovalInv, TokensNeedApproval, IdlePoll

\* No step brings a subject that has not approved.
LEMMA ApprovalStep == TypeInv /\ ApprovalInv /\ [Next]_vars => ApprovalInv'
<1> SUFFICES ASSUME TypeInv, ApprovalInv, [Next]_vars PROVE ApprovalInv'
  OBVIOUS
<1> USE DeviceAssumption, EntryAssumption
<1>0. TypeOK /\ Drawn
  BY DEF TypeInv
<1>1. CASE Tick
  BY <1>1 DEF Tick, ApprovalInv, TokensNeedApproval
<1>2. CASE CleanupExpired
  BY <1>2 DEF CleanupExpired, ApprovalInv, TokensNeedApproval
<1>3. ASSUME NEW h \in Authorizers, NEW uc \in UserCodes, DrawUserCode(h, uc)
      PROVE  ApprovalInv'
  BY <1>3 DEF DrawUserCode, ApprovalInv, TokensNeedApproval
<1>4. ASSUME NEW h \in Authorizers, NEW d \in DeviceCodes, StoreDeviceAuthorization(h, d)
      PROVE  ApprovalInv'
  <2>1. /\ entries'[d].done = FALSE
        /\ \A x \in DeviceCodes \ {d} : entries'[x] = entries[x]
        /\ UNCHANGED <<poll, approvals, subjects>>
    BY <1>0, <1>4 DEF StoreDeviceAuthorization, TypeOK
  <2> QED
    BY <2>1 DEF ApprovalInv, TokensNeedApproval
<1>5. ASSUME NEW uc \in UserCodes, NEW user \in Users, Approve(uc, user)
      PROVE  ApprovalInv'
  <2> DEFINE d == byCode[uc]
  <2>1. /\ d \in DeviceCodes
        /\ entries[d] # Nil /\ entries'[d] # Nil /\ entries'[d].subject = user
        /\ \A x \in DeviceCodes \ {d} : entries'[x] = entries[x]
    BY <1>5, ApproveEffect DEF Rewrites
  <2>2. /\ approvals' = [approvals EXCEPT ![d] = @ \cup {user}]
        /\ UNCHANGED <<poll, subjects>>
    BY <1>5 DEF Approve
  <2> HIDE DEF d
  <2>3. /\ user \in approvals'[d]
        /\ \A x \in DeviceCodes : approvals[x] \subseteq approvals'[x]
    BY <1>0, <2>1, <2>2 DEF TypeOK
  <2>4. \A p \in Pollers : poll[p].done => poll[p].dc \in DeviceCodes
    BY <1>0 DEF TypeOK, Drawn, IdlePoll
  <2> QED
    BY <2>1, <2>2, <2>3, <2>4 DEF ApprovalInv, TokensNeedApproval
<1>6. ASSUME NEW uc \in UserCodes, Deny(uc)
      PROVE  ApprovalInv'
  <2> DEFINE d == byCode[uc]
  <2>1. /\ d \in DeviceCodes
        /\ entries[d] # Nil
        /\ entries'[d].done = entries[d].done
        /\ entries'[d].subject = entries[d].subject
        /\ \A x \in DeviceCodes \ {d} : entries'[x] = entries[x]
    BY <1>6, DenyEffect DEF Rewrites
  <2>2. UNCHANGED <<approvals, poll, subjects>>
    BY <1>6 DEF Deny
  <2> HIDE DEF d
  <2> QED
    BY <2>1, <2>2 DEF ApprovalInv, TokensNeedApproval
<1>7. ASSUME NEW p \in Pollers, NEW d \in DeviceCodes, Poll(p, d)
      PROVE  ApprovalInv'
  <2>1. /\ poll'[p].dc = d
        /\ poll'[p].pc # "issue"
        /\ poll'[p].done => entries[d].done
        /\ poll'[p].subject = entries[d].subject
        /\ \A q \in Pollers \ {p} : poll'[q] = poll[q]
        /\ entries[d] # Nil
        /\ UNCHANGED <<entries, approvals, subjects>>
    BY <1>0, <1>7 DEF Poll, TypeOK
  <2> QED
    BY <2>1 DEF ApprovalInv, TokensNeedApproval
<1>8. ASSUME NEW p \in Pollers, Bump(p) \/ Stamp(p) \/ Issue(p) \/ IssueFails(p)
      PROVE  ApprovalInv'
  <2> DEFINE d == poll[p].dc
  <2>1. approvals' = approvals
    BY <1>8 DEF Bump, Stamp, Issue, IssueFails
  <2>2. \A x \in DeviceCodes : entries'[x] # Nil =>
          /\ entries[x] # Nil
          /\ entries'[x].done = entries[x].done
          /\ entries'[x].subject = entries[x].subject
    <3>1. CASE Issue(p) \/ IssueFails(p)
      BY <3>1 DEF Issue, IssueFails
    <3>2. CASE Bump(p)
      BY <3>2, BumpEffect DEF Rewrites
    <3>3. CASE Stamp(p)
      BY <3>3, StampEffect DEF Rewrites
    <3> QED
      BY <1>8, <3>1, <3>2, <3>3
  <2>3. /\ d \in DeviceCodes
        /\ \A q \in Pollers : poll'[q].done =>
             /\ poll[q].done /\ poll'[q].dc = poll[q].dc
             /\ poll'[q].subject = poll[q].subject
        /\ \A q \in Pollers : poll'[q].pc = "issue" => poll'[q].done
    <3>1. \A q \in Pollers \ {p} : poll'[q] = poll[q]
      BY <1>8, HandlerMoves
    <3>2. \/ poll'[p].pc = "idle" /\ ~poll'[p].done
          \/ /\ poll'[p].pc = "issue" /\ poll[p].done /\ poll'[p].done
             /\ poll'[p].dc = poll[p].dc /\ poll'[p].subject = poll[p].subject
      BY <1>8, HandlerMoves
    <3> QED
      BY <1>8, <3>1, <3>2, HandlerMoves DEF ApprovalInv
  <2>4. TokensNeedApproval'
    <3>1. CASE Issue(p)
      <4>1. poll[p].done
        BY <3>1 DEF Issue, ApprovalInv
      <4>2. subjects' = [subjects EXCEPT ![d] = @ \cup {poll[p].subject}]
        BY <3>1 DEF Issue
      <4> QED
        BY <1>0, <2>1, <2>3, <4>1, <4>2 DEF TypeOK, ApprovalInv, TokensNeedApproval
    <3>2. CASE ~Issue(p)
      <4>1. subjects' = subjects
        BY <1>8, <3>2 DEF Bump, Stamp, IssueFails
      <4> QED
        BY <2>1, <4>1 DEF ApprovalInv, TokensNeedApproval
    <3> QED
      BY <3>1, <3>2
  <2> QED
    BY <2>1, <2>2, <2>3, <2>4 DEF ApprovalInv
<1>9. CASE UNCHANGED vars
  BY <1>9 DEF vars, ApprovalInv, TokensNeedApproval
<1> QED
  BY <1>1, <1>2, <1>3, <1>4, <1>5, <1>6, <1>7, <1>8, <1>9
  DEF Next, AuthorizeStep, PollStep, UserStep

\* Tokens carry the subject of a user who approved under this device's user
\* code, whatever interleaves with the poll (handleDeviceCode works on a copy).
THEOREM TokensNeedApprovalHolds == Spec => []TokensNeedApproval
<1>1. ApprovalInv => TokensNeedApproval
  BY DEF ApprovalInv
<1> QED
  BY <1>1, TypeInvariance, ApprovalInit, ApprovalStep, PTL DEF Spec

-----------------------------------------------------------------------------
(* A denial is final.  The entry of a denied code stays denied until it is *)
(* cleaned up, and its code is never drawn again; so no new poll gets past *)
(* the lookup, and the polls that already have bring one token each.       *)

DenialInv ==
  \A d \in DeviceCodes : budget[d] # Nil =>
    /\ d \in used
    /\ entries[d] # Nil => entries[d].denied
    /\ issued[d] + Cardinality(InFlight(d)) <= budget[d]

\* The polls in flight are finitely many.
LEMMA InFlightFinite ==
  \A d : IsFiniteSet(InFlight(d)) /\ Cardinality(InFlight(d)) \in Nat
  BY DeviceAssumption, FS_Subset, FS_CardinalityType DEF InFlight

\* A step that issues nothing for d and lets no new poll of d through.
LEMMA DenialKept ==
  ASSUME TypeInv, TypeInv', DenialInv, NEW d \in DeviceCodes,
         budget[d] # Nil, budget'[d] = budget[d], d \in used',
         issued'[d] = issued[d], InFlight(d)' \subseteq InFlight(d)
  PROVE  issued'[d] + Cardinality(InFlight(d)') <= budget'[d]
<1>1. Cardinality(InFlight(d)') <= Cardinality(InFlight(d))
  BY InFlightFinite, FS_Subset
<1>2. Cardinality(InFlight(d)) \in Nat /\ Cardinality(InFlight(d)') \in Nat
  BY InFlightFinite, FS_Subset, FS_CardinalityType
<1> QED
  BY <1>1, <1>2, DeviceAssumption DEF DenialInv, TypeInv, TypeOK

\* Initially nothing was denied.
LEMMA DenialInit == Init => DenialInv
  BY DEF Init, DenialInv

\* No step brings more tokens for a denied code than the denial left possible.
LEMMA DenialStep ==
  TypeInv /\ TypeInv' /\ ApprovalInv /\ DenialInv /\ [Next]_vars => DenialInv'
<1> SUFFICES ASSUME TypeInv, TypeInv', ApprovalInv, DenialInv, [Next]_vars,
                    NEW x \in DeviceCodes, budget'[x] # Nil
             PROVE  /\ x \in used'
                    /\ entries'[x] # Nil => entries'[x].denied
                    /\ issued'[x] + Cardinality(InFlight(x)') <= budget'[x]
  BY DEF DenialInv
<1> USE DeviceAssumption, EntryAssumption
<1>0. TypeOK /\ Drawn
  BY DEF TypeInv
<1>1. ASSUME UNCHANGED <<entries, poll, used, budget, issued>>
      PROVE  /\ x \in used'
             /\ entries'[x] # Nil => entries'[x].denied
             /\ issued'[x] + Cardinality(InFlight(x)') <= budget'[x]
  <2>1. InFlight(x)' = InFlight(x)
    BY <1>1 DEF InFlight
  <2> QED
    BY <1>1, <2>1 DEF DenialInv
<1>2. ASSUME UNCHANGED <<budget, issued>>, budget[x] # Nil => x \in used',
             budget[x] # Nil => InFlight(x)' \subseteq InFlight(x),
             entries'[x] # Nil => entries[x] # Nil /\ entries'[x].denied = entries[x].denied
      PROVE  /\ x \in used'
             /\ entries'[x] # Nil => entries'[x].denied
             /\ issued'[x] + Cardinality(InFlight(x)') <= budget'[x]
  BY <1>2, DenialKept DEF DenialInv
<1>3. CASE CleanupExpired
  <2>1. /\ UNCHANGED <<budget, issued, poll, used>>
        /\ entries'[x] # Nil => entries'[x] = entries[x]
    BY <1>3 DEF CleanupExpired
  <2>2. InFlight(x)' = InFlight(x)
    BY <2>1 DEF InFlight
  <2> QED
    BY <1>2, <2>1, <2>2 DEF DenialInv
<1>4. ASSUME NEW h \in Authorizers, NEW d \in DeviceCodes, StoreDeviceAuthorization(h, d)
      PROVE  /\ x \in used'
             /\ entries'[x] # Nil => entries'[x].denied
             /\ issued'[x] + Cardinality(InFlight(x)') <= budget'[x]
  <2>1. /\ d \notin used /\ used' = used \cup {d}
        /\ UNCHANGED <<budget, issued, poll>>
        /\ x # d => entries'[x] = entries[x]
    BY <1>0, <1>4 DEF StoreDeviceAuthorization, TypeOK
  <2>2. x # d /\ x \in used
    BY <2>1 DEF DenialInv
  <2>3. InFlight(x)' = InFlight(x)
    BY <2>1 DEF InFlight
  <2> QED
    BY <1>2, <2>1, <2>2, <2>3
<1>5. ASSUME NEW uc \in UserCodes, NEW user \in Users, Approve(uc, user)
      PROVE  /\ x \in used'
             /\ entries'[x] # Nil => entries'[x].denied
             /\ issued'[x] + Cardinality(InFlight(x)') <= budget'[x]
  <2>1. UNCHANGED <<budget, issued, poll, used>>
    BY <1>5 DEF Approve
  <2>2. entries'[x] # Nil => entries[x] # Nil /\ entries'[x].denied = entries[x].denied
    BY <1>5, ApproveEffect DEF Rewrites
  <2>3. InFlight(x)' = InFlight(x)
    BY <2>1 DEF InFlight
  <2> QED
    BY <1>2, <2>1, <2>2, <2>3 DEF DenialInv
<1>6. ASSUME NEW uc \in UserCodes, Deny(uc)
      PROVE  /\ x \in used'
             /\ entries'[x] # Nil => entries'[x].denied
             /\ issued'[x] + Cardinality(InFlight(x)') <= budget'[x]
  <2> DEFINE d == byCode[uc]
  <2>1. /\ UNCHANGED <<issued, poll, used>>
        /\ budget' = [budget EXCEPT ![d] =
             IF @ = Nil THEN issued[d] + Cardinality(InFlight(d)) ELSE @]
    BY <1>6 DEF Deny
  <2>2. /\ d \in DeviceCodes /\ d \in used /\ entries'[d].denied
        /\ x # d => entries'[x] = entries[x]
    BY <1>0, <1>6, DenyEffect DEF Rewrites, Drawn
  <2>3. InFlight(x)' = InFlight(x)
    BY <2>1 DEF InFlight
  <2>4. CASE x = d /\ budget[d] = Nil
    <3>1. budget'[x] = issued[x] + Cardinality(InFlight(x))
      BY <1>0, <2>1, <2>2, <2>4 DEF TypeOK
    <3>2. issued[x] \in Nat /\ Cardinality(InFlight(x)) \in Nat
      BY <1>0, InFlightFinite DEF TypeOK
    <3> QED
      BY <2>1, <2>2, <2>3, <2>4, <3>1, <3>2
  <2>5. CASE ~(x = d /\ budget[d] = Nil)
    <3>1. budget'[x] = budget[x]
      BY <1>0, <2>1, <2>2, <2>5 DEF TypeOK
    <3> QED
      BY <2>1, <2>2, <2>3, <3>1 DEF DenialInv
  <2> QED
    BY <2>4, <2>5
<1>7. ASSUME NEW p \in Pollers, NEW d \in DeviceCodes, Poll(p, d)
      PROVE  /\ x \in used'
             /\ entries'[x] # Nil => entries'[x].denied
             /\ issued'[x] + Cardinality(InFlight(x)') <= budget'[x]
  <2>1. /\ UNCHANGED <<entries, budget, issued, used>>
        /\ entries[d] # Nil /\ ~entries[d].denied
        /\ poll'[p].dc = d
        /\ \A q \in Pollers \ {p} : poll'[q] = poll[q]
    BY <1>0, <1>7 DEF Poll, TypeOK
  <2>2. x # d
    BY <2>1 DEF DenialInv
  <2>3. InFlight(x)' \subseteq InFlight(x)
    BY <2>1, <2>2 DEF InFlight
  <2> QED
    BY <1>2, <2>1, <2>3 DEF DenialInv
<1>8. ASSUME NEW p \in Pollers, Bump(p) \/ Stamp(p) \/ IssueFails(p)
      PROVE  /\ x \in used'
             /\ entries'[x] # Nil => entries'[x].denied
             /\ issued'[x] + Cardinality(InFlight(x)') <= budget'[x]
  <2>1. UNCHANGED <<budget, issued, used>>
    BY <1>8 DEF Bump, Stamp, IssueFails
  <2>2. entries'[x] # Nil => entries[x] # Nil /\ entries'[x].denied = entries[x].denied
    <3>1. CASE IssueFails(p)
      BY <3>1 DEF IssueFails
    <3>2. CASE Bump(p)
      BY <3>2, BumpEffect DEF Rewrites
    <3>3. CASE Stamp(p)
      BY <3>3, StampEffect DEF Rewrites
    <3> QED
      BY <1>8, <3>1, <3>2, <3>3
  <2>3. InFlight(x)' \subseteq InFlight(x)
    <3>1. \A q \in Pollers \ {p} : poll'[q] = poll[q]
      BY <1>8, HandlerMoves
    <3>2. poll'[p].done => poll[p].done /\ poll'[p].dc = poll[p].dc
      BY <1>8, HandlerMoves
    <3> QED
      BY <3>1, <3>2 DEF InFlight
  <2> QED
    BY <1>2, <2>1, <2>2, <2>3 DEF DenialInv
<1>9. ASSUME NEW p \in Pollers, Issue(p)
      PROVE  /\ x \in used'
             /\ entries'[x] # Nil => entries'[x].denied
             /\ issued'[x] + Cardinality(InFlight(x)') <= budget'[x]
  <2> DEFINE d == poll[p].dc
  <2>1. /\ UNCHANGED <<entries, budget, used>>
        /\ issued' = [issued EXCEPT ![d] = @ + 1]
        /\ poll' = [poll EXCEPT ![p] = IdlePoll]
    BY <1>9 DEF Issue
  <2>2. /\ d \in DeviceCodes /\ poll[p].done
        /\ \A q \in Pollers \ {p} : poll'[q] = poll[q]
        /\ ~poll'[p].done
    <3>1. poll[p].done /\ d \in DeviceCodes
      BY <1>9, HandlerMoves DEF Issue, ApprovalInv
    <3>2. \A q \in Pollers \ {p} : poll'[q] = poll[q]
      BY <1>9, HandlerMoves
    <3>3. ~poll'[p].done
      BY <1>0, <2>1 DEF TypeOK, IdlePoll
    <3> QED
      BY <3>1, <3>2, <3>3
  <2>3. CASE x = d
    <3>1. p \in InFlight(x) /\ InFlight(x)' = InFlight(x) \ {p}
      BY <2>2, <2>3 DEF InFlight
    <3>2. Cardinality(InFlight(x)') = Cardinality(InFlight(x)) - 1
      BY <3>1, InFlightFinite, FS_RemoveElement
    <3>3. issued'[x] = issued[x] + 1 /\ issued[x] \in Nat
      BY <1>0, <2>1, <2>2, <2>3 DEF TypeOK
    <3>4. Cardinality(InFlight(x)) \in Nat /\ budget[x] \in Nat
      BY <1>0, <2>1, InFlightFinite DEF TypeOK
    <3> QED
      BY <2>1, <3>2, <3>3, <3>4 DEF DenialInv
  <2>4. CASE x # d
    <3>1. issued'[x] = issued[x]
      BY <1>0, <2>1, <2>2, <2>4 DEF TypeOK
    <3>2. InFlight(x)' \subseteq InFlight(x)
      BY <2>2 DEF InFlight
    <3> QED
      BY <2>1, <3>1, <3>2, DenialKept DEF DenialInv
  <2> QED
    BY <2>3, <2>4
<1>10. CASE Tick \/ UNCHANGED vars
  BY <1>1, <1>10 DEF Tick, vars
<1>11. ASSUME NEW h \in Authorizers, NEW uc \in UserCodes, DrawUserCode(h, uc)
       PROVE  UNCHANGED <<entries, poll, used, budget, issued>>
  BY <1>11 DEF DrawUserCode
<1> QED
  BY <1>1, <1>3, <1>4, <1>5, <1>6, <1>7, <1>8, <1>9, <1>10, <1>11
  DEF Next, AuthorizeStep, PollStep, UserStep

\* After a denial only the polls that had read an approval bring tokens
\* (DenyDeviceAuthorization against handleDeviceCode).
THEOREM DenialStopsHolds == Spec => []DenialStops
<1>1. TypeInv /\ DenialInv => DenialStops
  <2> SUFFICES ASSUME TypeInv, DenialInv, NEW d \in DeviceCodes, budget[d] # Nil
               PROVE  issued[d] <= budget[d]
    BY DEF DenialStops
  <2>1. issued[d] \in Nat /\ budget[d] \in Nat /\ Cardinality(InFlight(d)) \in Nat
    BY InFlightFinite, DeviceAssumption DEF TypeInv, TypeOK
  <2> QED
    BY <2>1 DEF DenialInv
<1> QED
  BY <1>1, TypeInvariance, ApprovalInit, ApprovalStep, DenialInit, DenialStep, PTL
  DEF Spec

-----------------------------------------------------------------------------
(* A patient device is never slowed down, provided that the interval it is *)
(* told is at least the one the token endpoint enforces (the program's     *)
(* defaults are equal; a client's own interval may be smaller).  Such a    *)
(* device has one poll at a time, so the time of its last poll is no later *)
(* than the last answer once no poll is under way.                         *)

Patient(d) ==
  /\ slowdowns[d] = 0
  /\ \A p \in Pollers : poll[p].dc = d => poll[p].pc # "bump"
  /\ \A p, q \in Pollers : poll[p].dc = d /\ poll[q].dc = d => p = q
  /\ entries[d] # Nil =>
       /\ entries[d].interval = 0
       /\ entries[d].lastPoll # Nil =>
            \/ \E p \in Pollers : poll[p].dc = d
            \/ answered[d] # Nil /\ entries[d].lastPoll <= answered[d]

PatientInv == \A d \in DeviceCodes \ hasty : Patient(d)

\* Initially nobody has polled.
LEMMA PatientInit == Init => PatientInv
<1> SUFFICES ASSUME Init, NEW d \in DeviceCodes
             PROVE  Patient(d)
  BY DEF PatientInv
<1>1. \A p \in Pollers : poll[p].dc = Nil /\ poll[p].pc = "idle"
  BY DEF Init, IdlePoll
<1>2. slowdowns[d] = 0 /\ entries[d] = Nil /\ d # Nil
  BY DeviceAssumption DEF Init
<1> QED
  BY <1>1, <1>2 DEF Patient

\* A step that changes neither polls nor what the polls write.
LEMMA PatientKept ==
  ASSUME NEW x \in DeviceCodes, Patient(x),
         slowdowns'[x] = slowdowns[x], answered'[x] = answered[x],
         \A p \in Pollers : poll'[p] = poll[p],
         entries'[x] # Nil => \/ entries'[x].interval = 0 /\ entries'[x].lastPoll = Nil
                             \/ /\ entries[x] # Nil
                                /\ entries'[x].interval = entries[x].interval
                                /\ entries'[x].lastPoll = entries[x].lastPoll
  PROVE  Patient(x)'
  BY DEF Patient

\* The lookup of a poll that comes neither during another one nor too soon after
\* the last answer finds that it is not too fast.
LEMMA PatientPoll ==
  ASSUME PollInterval <= Advertised, TypeInv, PatientInv,
         NEW p \in Pollers, NEW x \in DeviceCodes \ hasty, Poll(p, x), x \notin hasty'
  PROVE  Patient(x)'
<1> USE DeviceAssumption, EntryAssumption
<1>1. ~TooSoon(x) /\ entries[x] # Nil
  BY DEF Poll
<1>2. /\ entries[x] \in DeviceAuth
      /\ entries[x].lastPoll \in Time \cup {Nil}
      /\ entries[x].interval \in Nat
      /\ now \in Nat /\ answered[x] \in Time \cup {Nil}
  BY <1>1 DEF TypeInv, TypeOK, DeviceAuth, Time
<1>3. Patient(x)
  BY DEF PatientInv
<1>4. ~TooFast(entries[x])
  <2> SUFFICES ASSUME entries[x].lastPoll # Nil
               PROVE  now - entries[x].lastPoll >= PollInterval
    BY <1>1, <1>2, <1>3 DEF TooFast, Effective, Patient, Time
  <2>1. answered[x] # Nil /\ entries[x].lastPoll <= answered[x]
    BY <1>1, <1>3 DEF Patient, TooSoon
  <2>2. now - answered[x] >= Advertised
    BY <1>1, <1>2, <2>1 DEF TooSoon, Time
  <2> QED
    BY <1>2, <2>1, <2>2 DEF Time
<1>5. /\ poll'[p].dc = x /\ poll'[p].pc = "stamp"
      /\ \A q \in Pollers \ {p} : poll'[q] = poll[q]
      /\ UNCHANGED <<entries, answered, slowdowns>>
  BY <1>4 DEF Poll, TypeInv, TypeOK
<1>6. \A q \in Pollers : poll[q].dc # x
  BY <1>1 DEF TooSoon
<1> QED
  BY <1>3, <1>5, <1>6 DEF Patient

\* Every step keeps patient devices patient.
LEMMA PatientStep ==
  ASSUME PollInterval <= Advertised
  PROVE  TypeInv /\ PatientInv /\ [Next]_vars => PatientInv'
<1> SUFFICES ASSUME TypeInv, PatientInv, [Next]_vars,
                    NEW x \in DeviceCodes, x \notin hasty'
             PROVE  Patient(x)'
  BY DEF PatientInv
<1> USE DeviceAssumption, EntryAssumption
<1>0. TypeOK /\ Drawn
  BY DEF TypeInv
<1>1. x \notin hasty /\ Patient(x)
  <2>1. hasty \subseteq hasty'
    BY DEF Next, vars, Tick, CleanupExpired, AuthorizeStep, DrawUserCode,
           StoreDeviceAuthorization, PollStep, Poll, Bump, Stamp, Issue, IssueFails,
           UserStep, Approve, Deny
  <2> QED
    BY <2>1 DEF PatientInv
<1>2. CASE Tick \/ UNCHANGED vars
  BY <1>1, <1>2, PatientKept DEF Tick, vars
<1>3. CASE CleanupExpired
  <2>1. /\ UNCHANGED <<answered, slowdowns, poll>>
        /\ entries'[x] # Nil => entries'[x] = entries[x]
    BY <1>3 DEF CleanupExpired
  <2> QED
    BY <1>1, <2>1, PatientKept
<1>4. ASSUME NEW h \in Authorizers, NEW uc \in UserCodes, DrawUserCode(h, uc)
      PROVE  Patient(x)'
  BY <1>1, <1>4, PatientKept DEF DrawUserCode
<1>5. ASSUME NEW h \in Authorizers, NEW d \in DeviceCodes, StoreDeviceAuthorization(h, d)
      PROVE  Patient(x)'
  <2>1. /\ UNCHANGED <<answered, slowdowns, poll>>
        /\ entries'[d].interval = 0 /\ entries'[d].lastPoll = Nil
        /\ x # d => entries'[x] = entries[x]
    BY <1>0, <1>5 DEF StoreDeviceAuthorization, TypeOK
  <2> QED
    BY <1>1, <2>1, PatientKept
<1>6. ASSUME NEW uc \in UserCodes, NEW user \in Users, Approve(uc, user)
      PROVE  Patient(x)'
  <2>1. UNCHANGED <<answered, slowdowns, poll>>
    BY <1>6 DEF Approve
  <2>2. entries'[x] # Nil => /\ entries[x] # Nil
                            /\ entries'[x].interval = entries[x].interval
                            /\ entries'[x].lastPoll = entries[x].lastPoll
    BY <1>6, ApproveEffect DEF Rewrites
  <2> QED
    BY <1>1, <2>1, <2>2, PatientKept
<1>7. ASSUME NEW uc \in UserCodes, Deny(uc)
      PROVE  Patient(x)'
  <2>1. UNCHANGED <<answered, slowdowns, poll>>
    BY <1>7 DEF Deny
  <2>2. entries'[x] # Nil => /\ entries[x] # Nil
                            /\ entries'[x].interval = entries[x].interval
                            /\ entries'[x].lastPoll = entries[x].lastPoll
    BY <1>7, DenyEffect DEF Rewrites
  <2> QED
    BY <1>1, <2>1, <2>2, PatientKept
<1>8. ASSUME NEW p \in Pollers, NEW d \in DeviceCodes, Poll(p, d)
      PROVE  Patient(x)'
  <2>1. CASE x = d
    BY <1>1, <1>8, <2>1, PatientPoll
  <2>2. CASE x # d
    <3>1. /\ poll[p].dc = Nil /\ poll'[p].dc = d
          /\ \A q \in Pollers \ {p} : poll'[q] = poll[q]
          /\ UNCHANGED <<entries, answered, slowdowns>>
      BY <1>0, <1>8 DEF Poll, TypeOK, Drawn, IdlePoll
    <3> QED
      BY <1>1, <2>2, <3>1 DEF Patient
  <2> QED
    BY <2>1, <2>2
<1>9. ASSUME NEW p \in Pollers, Bump(p) \/ Stamp(p) \/ Issue(p) \/ IssueFails(p)
      PROVE  Patient(x)'
  <2> DEFINE d == poll[p].dc
  <2>1. d \in DeviceCodes /\ \A q \in Pollers \ {p} : poll'[q] = poll[q]
    BY <1>9, HandlerMoves
  <2>2. \/ poll'[p].dc = Nil /\ answered'[d] = now
        \/ /\ poll'[p].pc = "issue" /\ poll'[p].dc = d /\ answered' = answered
    BY <1>9, HandlerMoves
  <2>3. \A y \in DeviceCodes \ {d} :
          answered'[y] = answered[y] /\ entries'[y] = entries[y] /\ slowdowns'[y] = slowdowns[y]
    <3>1. \A y \in DeviceCodes \ {d} : answered'[y] = answered[y]
      BY <1>9, HandlerMoves
    <3>2. \A y \in DeviceCodes \ {d} : entries'[y] = entries[y]
      BY <1>9, BumpEffect, StampEffect DEF Rewrites, Issue, IssueFails
    <3>3. \A y \in DeviceCodes \ {d} : slowdowns'[y] = slowdowns[y]
      BY <1>0, <1>9 DEF Bump, Stamp, Issue, IssueFails, TypeOK
    <3> QED
      BY <3>1, <3>2, <3>3
  <2>4. CASE x # d
    BY <1>1, <2>1, <2>2, <2>3, <2>4 DEF Patient
  <2>5. CASE x = d
    <3>1. ~Bump(p)
      BY <1>1, <2>5 DEF Patient, Bump
    <3>2. slowdowns' = slowdowns
      BY <1>9, <3>1 DEF Stamp, Issue, IssueFails
    <3>3. entries'[x] # Nil =>
            /\ entries[x] # Nil /\ entries'[x] \in DeviceAuth
            /\ entries'[x].interval = entries[x].interval
            /\ entries'[x].lastPoll # Nil => entries'[x].lastPoll <= now
      <4>1. CASE Stamp(p)
        BY <2>5, <4>1, StampEffect, HandlerOf DEF Rewrites, Stamp
      <4>2. CASE Issue(p) \/ IssueFails(p)
        BY <1>0, <4>2 DEF Issue, IssueFails, TypeOK, Drawn
      <4> QED
        BY <1>9, <3>1, <4>1, <4>2
    <3>4. now # Nil
      BY <1>0 DEF TypeOK, Time
    <3>5. CASE poll'[p].dc = Nil /\ answered'[d] = now
      BY <1>1, <2>1, <2>5, <3>2, <3>3, <3>4, <3>5 DEF Patient
    <3>6. CASE poll'[p].pc = "issue" /\ poll'[p].dc = d /\ answered' = answered
      BY <1>1, <2>1, <2>5, <3>2, <3>3, <3>6 DEF Patient
    <3> QED
      BY <2>2, <3>5, <3>6
  <2> QED
    BY <2>4, <2>5
<1> QED
  BY <1>2, <1>3, <1>4, <1>5, <1>6, <1>7, <1>8, <1>9
  DEF Next, AuthorizeStep, PollStep, UserStep

\* A device that waits the advertised interval after every answer is never told
\* to slow down (handleDeviceCode, device.go's response).
THEOREM PatientNeverSlowedHolds ==
  ASSUME PollInterval <= Advertised
  PROVE  Spec => []PatientNeverSlowed
<1>1. TypeInv /\ PatientInv => PatientNeverSlowed
  BY DEF TypeInv, TypeOK, PatientInv, Patient, PatientNeverSlowed
<1>2. TypeInv /\ PatientInv /\ [Next]_vars => PatientInv'
  BY PatientStep
<1> QED
  BY <1>1, <1>2, TypeInvariance, PatientInit, PTL DEF Spec

-----------------------------------------------------------------------------
(* User codes are unique as long as one device authorization runs at a     *)
(* time: generateUniqueUserCode looks a code up and StoreDeviceAuthorization *)
(* stores it later, without a second look.  Expired entries keep their     *)
(* user code until both are cleaned up.                                    *)

SerialAuthorization == \A g, h \in Authorizers : g = h

UniqueInv ==
  /\ \A d \in DeviceCodes : entries[d] # Nil => byCode[entries[d].userCode] = d
  /\ \A h \in Authorizers : authorize[h].pc = "store" => byCode[authorize[h].uc] = Nil

\* Every step keeps user codes unique.
LEMMA UniqueStep ==
  ASSUME SerialAuthorization
  PROVE  TypeInv /\ UniqueInv /\ [Next]_vars => UniqueInv'
<1> SUFFICES ASSUME TypeInv, UniqueInv, [Next]_vars PROVE UniqueInv'
  OBVIOUS
<1> USE DeviceAssumption, EntryAssumption
<1>0. TypeOK /\ CodesLead /\ Drawn
  BY DEF TypeInv
<1>1. ASSUME UNCHANGED <<byCode, authorize>>,
             \A d \in DeviceCodes : entries'[d] # Nil =>
               entries[d] # Nil /\ entries'[d].userCode = entries[d].userCode
      PROVE  UniqueInv'
  BY <1>1 DEF UniqueInv
<1>2. CASE Tick \/ UNCHANGED vars
  BY <1>1, <1>2 DEF Tick, vars
<1>3. CASE CleanupExpired
  <2> DEFINE old == {d \in DeviceCodes : entries[d] # Nil /\ Expired(d)}
  <2>1. /\ entries' = [d \in DeviceCodes |-> IF d \in old THEN Nil ELSE entries[d]]
        /\ byCode' = [uc \in UserCodes |->
             IF \E d \in old : entries[d].userCode = uc THEN Nil ELSE byCode[uc]]
        /\ authorize' = authorize
    BY <1>3 DEF CleanupExpired
  <2>2. ASSUME NEW d \in DeviceCodes, entries'[d] # Nil
        PROVE  byCode'[entries'[d].userCode] = d
    <3>1. d \notin old /\ entries'[d] = entries[d] /\ entries[d].userCode \in UserCodes
      BY <1>0, <2>1, <2>2 DEF TypeOK, DeviceAuth
    <3>2. \A x \in old : entries[x].userCode # entries[d].userCode
      BY <2>2, <3>1 DEF UniqueInv
    <3> QED
      BY <2>1, <2>2, <3>1, <3>2 DEF UniqueInv
  <2>3. \A h \in Authorizers : authorize[h].pc = "store" => byCode'[authorize[h].uc] = Nil
    BY <1>0, <2>1 DEF UniqueInv, Drawn
  <2> QED
    BY <2>1, <2>2, <2>3 DEF UniqueInv
<1>4. ASSUME NEW h \in Authorizers, NEW uc \in UserCodes, DrawUserCode(h, uc)
      PROVE  UniqueInv'
  BY <1>0, <1>4 DEF DrawUserCode, UserCodeFree, UniqueInv, TypeOK
<1>5. ASSUME NEW h \in Authorizers, NEW d \in DeviceCodes, StoreDeviceAuthorization(h, d)
      PROVE  UniqueInv'
  <2> DEFINE uc == authorize[h].uc
  <2>1. uc \in UserCodes /\ byCode[uc] = Nil
    BY <1>0, <1>5 DEF StoreDeviceAuthorization, Drawn, UniqueInv
  <2>2. /\ entries'[d].userCode = uc
        /\ \A x \in DeviceCodes \ {d} : entries'[x] = entries[x]
        /\ byCode'[uc] = d
        /\ \A y \in UserCodes \ {uc} : byCode'[y] = byCode[y]
    BY <1>0, <1>5, <2>1 DEF StoreDeviceAuthorization, TypeOK
  <2>3. \A g \in Authorizers : authorize'[g].pc = "idle"
    BY <1>0, <1>5 DEF StoreDeviceAuthorization, TypeOK, IdleAuthorize, SerialAuthorization
  <2>4. \A x \in DeviceCodes \ {d} : entries[x] # Nil =>
          entries[x].userCode \in UserCodes /\ entries[x].userCode # uc
    BY <1>0, <2>1 DEF UniqueInv, TypeOK, DeviceAuth
  <2> HIDE DEF uc
  <2> QED
    BY <2>2, <2>3, <2>4 DEF UniqueInv
<1>6. ASSUME NEW uc \in UserCodes, NEW user \in Users, Approve(uc, user)
      PROVE  UniqueInv'
  <2>1. UNCHANGED <<byCode, authorize>>
    BY <1>6 DEF Approve
  <2> QED
    BY <1>1, <1>6, <2>1, ApproveEffect DEF Rewrites
<1>7. ASSUME NEW uc \in UserCodes, Deny(uc)
      PROVE  UniqueInv'
  <2>1. UNCHANGED <<byCode, authorize>>
    BY <1>7 DEF Deny
  <2> QED
    BY <1>1, <1>7, <2>1, DenyEffect DEF Rewrites
<1>8. ASSUME NEW p \in Pollers, PollStep(p)
      PROVE  UniqueInv'
  <2>1. UNCHANGED <<byCode, authorize>>
    BY <1>8 DEF PollStep, Poll, Bump, Stamp, Issue, IssueFails
  <2>2. CASE Bump(p)
    BY <1>1, <2>1, <2>2, BumpEffect DEF Rewrites
  <2>3. CASE Stamp(p)
    BY <1>1, <2>1, <2>3, StampEffect DEF Rewrites
  <2>4. CASE ~Bump(p) /\ ~Stamp(p)
    BY <1>1, <1>8, <2>1, <2>4 DEF PollStep, Poll, Issue, IssueFails
  <2> QED
    BY <2>2, <2>3, <2>4
<1> QED
  BY <1>2, <1>3, <1>4, <1>5, <1>6, <1>7, <1>8 DEF Next, AuthorizeStep, UserStep

\* Initially no user code is in use.
LEMMA UniqueInit == Init => UniqueInv
  BY DEF Init, UniqueInv, IdleAuthorize

\* An approval reaches the device that shows the user code and no other, when
\* device authorizations do not overlap (generateUniqueUserCode).
THEOREM ApprovalIsOwnHolds ==
  ASSUME SerialAuthorization
  PROVE  Spec => []ApprovalIsOwn
<1>1. TypeInv /\ UniqueInv /\ ApprovalInv => ApprovalIsOwn
  BY DEF TypeInv, UniqueInv, ApprovalInv, ApprovalIsOwn, UserCodesUnique
<1>2. TypeInv /\ UniqueInv /\ [Next]_vars => UniqueInv'
  BY UniqueStep
<1> QED
  BY <1>1, <1>2, TypeInvariance, ApprovalInit, ApprovalStep, UniqueInit, PTL DEF Spec
=============================================================================
