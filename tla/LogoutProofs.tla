---------------------------- MODULE LogoutProofs ----------------------------
(***************************************************************************)
(* Theorems about Logout, for any number of users, clients, logins and     *)
(* end_session requests, and whatever the delay of a logout token.         *)
(***************************************************************************)
EXTENDS Logout, FiniteSetTheorems, TLAPS

LoginRec == [pc : {"none", "started", "completed", "accessStored", "stored", "recorded", "done"},
             client : Clients \cup {NoUser}, user : Users \cup {NoUser}, sid : Sids, refreshing : BOOLEAN]

EndRec == [pc : {"none", "refused", "valid", "pushed", "done"}, client : Clients \cup {NoUser},
           user : Users \cup {NoUser}, sid : Sids, before : SUBSET Logins]

SessionRec == [sid : Logins, user : Users, client : Clients, since : Nat]

MailRec == [to : BackChannelLogoutURI, user : Users, sid : Sids]

-----------------------------------------------------------------------------
(* The invariant.                                                          *)

\* The state components; logouts are counted in their own invariant.
Shape ==
    /\ login \in [Logins -> LoginRec]
    /\ sessions \subseteq SessionRec
    /\ clientSessions \in [Users -> [Clients -> Sids]]
    /\ tokens \subseteq Logins /\ refreshTokens \subseteq Logins /\ local \subseteq Logins
    /\ end \in [Ends -> EndRec]
    /\ mail \subseteq MailRec
    /\ undelivered \subseteq BackChannelLogoutURI
    /\ logouts \in [Users -> Nat]

\* What a login has got at each stage.
LoginOK(l) ==
    /\ login[l].pc \in {"none", "started"} <=> login[l].user = NoUser
    /\ login[l].pc = "none" <=> login[l].client = NoUser
    /\ login[l].pc = "started" => login[l].sid = l
    /\ login[l].refreshing => login[l].pc = "done"
    /\ l \in local => login[l].pc = "done"

\* The session id of (u, c) is that of a login of theirs.
KnownSid(u, c, sid) == \E l \in Owned(u, c) : login[l].sid = sid

\* An end_session request that names a user was hinted by one of his ID tokens,
\* and the logins it found settled are past their token requests.
EndOK(e) ==
    /\ end[e].pc \in {"valid", "pushed", "done"} /\ end[e].user # NoUser =>
           \E l \in Owned(end[e].user, end[e].client) : login[l].pc = "done" /\ login[l].sid = end[e].sid
    /\ \A l \in end[e].before : login[l].pc = "done" /\ login[l].user = end[e].user

Recorded ==
    \A u \in Users, c \in Clients : clientSessions[u][c] # 0 =>
        c \in BackChannelLogoutURI /\ KnownSid(u, c, clientSessions[u][c])

\* A logout token has an end_session request behind it.
MailOK(m) ==
    /\ \E l \in Owned(m.user, m.to) : m.sid \in {0, login[l].sid}
    /\ \E e \in Ends : /\ end[e].pc \in {"pushed", "done"}
                       /\ end[e].user = m.user
                       /\ end[e].sid = m.sid

BaseInv ==
    /\ Shape
    /\ \A l \in Logins : LoginOK(l)
    /\ \A e \in Ends : EndOK(e)
    /\ Recorded
    /\ \A m \in mail : MailOK(m)

\* Completed logouts are counted by the requests that are done.
Finished == {e \in Ends : end[e].pc = "done"}

CountInv ==
    /\ \A u \in Users : logouts[u] <= Cardinality(Finished)
    /\ SilentOnlyAfterLogin

\* A login that a logout found settled has no token and gets none: to get one it
\* would have to be refreshing, and to start refreshing it would need a token.
DeadInv ==
    \A e \in Ends : end[e].pc = "done" =>
        \A l \in Owned(end[e].user, end[e].client) :
            l \in end[e].before => ~login[l].refreshing /\ l \notin tokens /\ l \notin refreshTokens

\* The only login of its user at its client, which has a back channel.
Sole(l) ==
    /\ login[l].client \in BackChannelLogoutURI
    /\ login[l].sid # 0
    /\ Owned(login[l].user, login[l].client) = {l}

\* The relying party of l has been told, is being told, or could not be reached.
Told(l) ==
    \/ l \notin local
    \/ \E m \in mail : /\ m.to = login[l].client /\ m.user = login[l].user
                       /\ m.sid \in {0, login[l].sid}
    \/ login[l].client \in undelivered

\* The login is one that request e is about: it was settled when e came in, or it
\* is of the user and the client that e names.
Asked(e, l) ==
    /\ login[l].user = end[e].user
    /\ l \in end[e].before \/ login[l].client = end[e].client
    /\ end[e].sid \in {0, login[l].sid}

\* The record of a sole login lasts until a logout has read it.
TellInv ==
    /\ \A l \in Logins : Sole(l) /\ login[l].pc \in {"recorded", "done"} =>
           \/ clientSessions[login[l].user][login[l].client] = login[l].sid
           \/ login[l].pc = "done" /\ Told(l)
    /\ \A e \in Ends, l \in Logins :
           end[e].pc \in {"pushed", "done"} /\ Sole(l) /\ Asked(e, l) => Told(l)

-----------------------------------------------------------------------------
(* What the actions do to the records of logins and requests.              *)

\* Only the record of l changes.
LoginMoves(l) ==
    login' \in [Logins -> LoginRec] /\ \A x \in Logins \ {l} : login'[x] = login[x]

EndMoves(e) ==
    end' \in [Ends -> EndRec] /\ \A x \in Ends \ {e} : end'[x] = end[x]

\* Who logged in where, under which session id.
SameIdentity(l) ==
    login'[l].client = login[l].client /\ login'[l].user = login[l].user /\ login'[l].sid = login[l].sid

\* Starting a login.
LEMMA AuthorizeEffect ==
  ASSUME BaseInv, NEW l \in Logins, NEW c \in Clients, Authorize(l, c)
  PROVE  /\ LoginMoves(l)
         /\ login[l].pc = "none"
         /\ login'[l].pc = "started" /\ login'[l].client = c /\ login'[l].sid = l
         /\ login'[l].user = login[l].user /\ login'[l].refreshing = login[l].refreshing
         /\ UNCHANGED <<sessions, clientSessions, tokens, refreshTokens, local, end, mail, undelivered, logouts>>
<1>1. login \in [Logins -> LoginRec]
  BY DEF BaseInv, Shape
<1>2. login' = [login EXCEPT ![l].pc = "started", ![l].client = c, ![l].sid = l] /\ login[l].pc = "none"
  BY DEF Authorize
<1>3. LoginMoves(l)
  <2>1. ASSUME NEW sid \in Sids, NEW pc \in {"none", "started"}
        PROVE  [login EXCEPT ![l].pc = pc, ![l].client = c, ![l].sid = sid] \in [Logins -> LoginRec]
    BY <1>1 DEF LoginRec
  <2>2. l \in Sids
    BY DEF Sids
  <2>3. login' \in [Logins -> LoginRec]
    BY <1>2, <2>1, <2>2
  <2> QED
    BY <1>1, <1>2, <2>3 DEF LoginMoves
<1>4. /\ login'[l].pc = "started" /\ login'[l].client = c /\ login'[l].sid = l
      /\ login'[l].user = login[l].user /\ login'[l].refreshing = login[l].refreshing
  BY <1>1, <1>2 DEF LoginRec
<1> QED
  BY <1>2, <1>3, <1>4 DEF Authorize

\* Completing a login.
LEMMA CompleteEffect ==
  ASSUME BaseInv
  PROVE  \A l \in Logins, u \in Users, sid \in Sids : Complete(l, u, sid) =>
           /\ LoginMoves(l)
           /\ login'[l].pc = "completed" /\ login'[l].user = u /\ login'[l].sid = sid
           /\ login'[l].client = login[l].client /\ login'[l].refreshing = login[l].refreshing
<1> SUFFICES ASSUME NEW l \in Logins, NEW u \in Users, NEW sid \in Sids, Complete(l, u, sid)
             PROVE  /\ LoginMoves(l)
                    /\ login'[l].pc = "completed" /\ login'[l].user = u /\ login'[l].sid = sid
                    /\ login'[l].client = login[l].client /\ login'[l].refreshing = login[l].refreshing
  OBVIOUS
<1>1. login \in [Logins -> LoginRec]
  BY DEF BaseInv, Shape
<1> QED
  BY <1>1 DEF LoginRec, LoginMoves, Complete

\* The steps of the token request.
LEMMA StageEffect ==
  ASSUME BaseInv
  PROVE  \A l \in Logins, pc \in {"accessStored", "stored", "recorded", "done"} :
           login' = [login EXCEPT ![l].pc = pc] =>
             /\ LoginMoves(l) /\ SameIdentity(l)
             /\ login'[l].pc = pc /\ login'[l].refreshing = login[l].refreshing
<1>1. login \in [Logins -> LoginRec]
  BY DEF BaseInv, Shape
<1> QED
  BY <1>1 DEF LoginRec, LoginMoves, SameIdentity

\* The begin and the end of a refresh.
LEMMA RefreshEffect ==
  ASSUME BaseInv
  PROVE  \A l \in Logins, b \in BOOLEAN :
           login' = [login EXCEPT ![l].refreshing = b] =>
             /\ LoginMoves(l) /\ SameIdentity(l)
             /\ login'[l].pc = login[l].pc /\ login'[l].refreshing = b
<1>1. login \in [Logins -> LoginRec]
  BY DEF BaseInv, Shape
<1> QED
  BY <1>1 DEF LoginRec, LoginMoves, SameIdentity

\* The three ways a login request is completed.
LEMMA LoginCompletes ==
  ASSUME BaseInv, NEW l \in Logins,
         \/ \E u \in Users : CheckUsernamePassword(l, u) \/ \E sid \in 0..l : Accept(l, u, sid)
         \/ SilentLogin(l)
  PROVE  /\ login[l].pc = "started"
         /\ \E u \in Users, sid \in Sids : Complete(l, u, sid)
         /\ UNCHANGED <<clientSessions, tokens, refreshTokens, local, end, mail, undelivered, logouts>>
<1>1. ASSUME NEW u \in Users, CheckUsernamePassword(l, u)
      PROVE  login[l].sid \in Sids /\ Complete(l, u, login[l].sid)
  BY <1>1 DEF CheckUsernamePassword, BaseInv, Shape, LoginRec
<1>2. ASSUME NEW u \in Users, NEW sid \in 0..l, Accept(l, u, sid)
      PROVE  sid \in Sids /\ Complete(l, u, sid)
  <2>1. Cardinality(Logins) \in Nat
    BY LogoutAssumption, FS_CardinalityType
  <2>2. sid \in Sids
    BY <2>1, LogoutAssumption DEF Sids
  <2> QED
    BY <1>2, <2>2 DEF Accept
<1>3. ASSUME SilentLogin(l)
      PROVE  \E u \in Users, sid \in Sids : Complete(l, u, sid)
  <2>1. PICK s \in sessions : Complete(l, s.user, s.sid)
    BY <1>3 DEF SilentLogin
  <2>2. s.user \in Users /\ s.sid \in Sids
    BY DEF BaseInv, Shape, SessionRec, Sids
  <2> QED
    BY <2>1, <2>2
<1> QED
  BY <1>1, <1>2, <1>3 DEF CheckUsernamePassword, Accept, SilentLogin

\* What an end_session request has to say.
SameRequest(e) ==
    end'[e].client = end[e].client /\ end'[e].user = end[e].user /\ end'[e].sid = end[e].sid

\* The ID tokens that may be presented are those of logins that are done.
LEMMA HintKinds ==
  ASSUME BaseInv, NEW hint \in Hints
  PROVE  /\ hint \in [client : Clients \cup {NoUser}, user : Users \cup {NoUser}, sid : Sids]
         /\ hint.user # NoUser =>
              /\ hint.client # NoUser
              /\ \E l \in Owned(hint.user, hint.client) : login[l].pc = "done" /\ login[l].sid = hint.sid
<1>1. CASE hint = NoHint
  BY <1>1 DEF NoHint, Sids
<1>2. ASSUME NEW l \in Logins, login[l].pc = "done", hint = Hint(l)
      PROVE  /\ hint \in [client : Clients \cup {NoUser}, user : Users \cup {NoUser}, sid : Sids]
             /\ hint.client # NoUser
             /\ l \in Owned(hint.user, hint.client) /\ login[l].pc = "done" /\ login[l].sid = hint.sid
  <2>1. login[l] \in LoginRec /\ LoginOK(l)
    BY DEF BaseInv, Shape
  <2>2. hint.client = login[l].client /\ hint.user = login[l].user /\ hint.sid = login[l].sid
    BY <1>2 DEF Hint
  <2>3. hint \in [client : Clients \cup {NoUser}, user : Users \cup {NoUser}, sid : Sids]
    BY <1>2, <2>1 DEF Hint, LoginRec
  <2> QED
    BY <1>2, <2>1, <2>2, <2>3 DEF LoginOK, Owned
<1> QED
  BY <1>1, <1>2 DEF Hints

\* What a validated end_session request remembers.
LEMMA EndSessionEffect ==
  ASSUME BaseInv, NEW e \in Ends, NEW hint \in Hints, NEW clientID \in Clients \cup {NoUser}, NEW redirect,
         EndSession(e, hint, clientID, redirect)
  PROVE  /\ EndMoves(e)
         /\ end[e].pc = "none"
         /\ \/ end'[e].pc = "refused" /\ end'[e].before = {}
            \/ /\ end'[e].pc = "valid" /\ end'[e].user = hint.user /\ end'[e].sid = hint.sid
               /\ end'[e].before = Settled(hint.user)
               /\ hint.user # NoUser => end'[e].client = hint.client
         /\ UNCHANGED <<login, sessions, clientSessions, tokens, refreshTokens, local, mail, undelivered, logouts>>
<1> DEFINE valid == [pc |-> "valid", client |-> SessionClient(hint, clientID), user |-> hint.user,
                     sid |-> hint.sid, before |-> Settled(hint.user)]
           refused == [NoEnd EXCEPT !.pc = "refused"]
           ok == validateEndSessionRequest(hint, clientID, redirect)
           r == IF ok THEN valid ELSE refused
<1>1. /\ hint.client \in Clients \cup {NoUser} /\ hint.user \in Users \cup {NoUser} /\ hint.sid \in Sids
      /\ hint.user # NoUser => hint.client # NoUser
  BY HintKinds
<1>2. SessionClient(hint, clientID) \in Clients \cup {NoUser} /\ Settled(hint.user) \subseteq Logins
  BY <1>1 DEF SessionClient, Settled
<1>3. /\ valid \in EndRec /\ valid.pc = "valid" /\ valid.user = hint.user /\ valid.sid = hint.sid
      /\ valid.before = Settled(hint.user) /\ valid.client = SessionClient(hint, clientID)
  BY <1>1, <1>2 DEF EndRec
<1>4. refused \in EndRec /\ refused.pc = "refused" /\ refused.before = {}
  BY DEF NoEnd, EndRec, Sids
<1>5. ok /\ hint.user # NoUser => SessionClient(hint, clientID) = hint.client
  BY <1>1 DEF validateEndSessionRequest, SessionClient
<1>6. end' = [end EXCEPT ![e] = r] /\ end[e].pc = "none"
  BY DEF EndSession
<1> HIDE DEF valid, refused, ok
<1>7. r \in EndRec
  BY <1>3, <1>4
<1>8. EndMoves(e) /\ end'[e] = r
  BY <1>6, <1>7 DEF EndMoves, BaseInv, Shape
<1> QED
  BY <1>3, <1>4, <1>5, <1>6, <1>8 DEF EndSession

\* What the back-channel push sends, and to whom.
LEMMA PostLogoutEffect ==
  ASSUME BaseInv, NEW e \in Ends, PostLogout(e)
  PROVE  /\ EndMoves(e) /\ SameRequest(e)
         /\ end[e].pc = "valid" /\ end'[e].pc = "pushed" /\ end'[e].before = end[e].before
         /\ mail' = mail \cup {createLogoutToken(end[e].user, c, end[e].sid) :
                              c \in ClientsForSession(end[e].user, end[e].sid)}
         /\ UNCHANGED <<login, sessions, clientSessions, tokens, refreshTokens, local, undelivered, logouts>>
<1>1. end' = [end EXCEPT ![e].pc = "pushed"] /\ end \in [Ends -> EndRec]
  BY DEF PostLogout, BaseInv, Shape
<1>2. EndMoves(e) /\ SameRequest(e) /\ end'[e].pc = "pushed" /\ end'[e].before = end[e].before
  BY <1>1 DEF EndMoves, SameRequest, EndRec
<1> QED
  BY <1>2 DEF PostLogout

\* What terminating a session removes.
LEMMA TerminateEffect ==
  ASSUME BaseInv, NEW e \in Ends, TerminateSession(e)
  PROVE  /\ EndMoves(e) /\ SameRequest(e)
         /\ end[e].pc = "pushed" /\ end'[e].pc = "done"
         /\ end'[e].before = end[e].before \cap Settled(end[e].user)
         /\ UNCHANGED <<login, local, mail, undelivered>>
<1> DEFINE b == end[e].before \cap Settled(end[e].user)
<1>1. end[e].pc = "pushed" /\ end' = [end EXCEPT ![e].pc = "done", ![e].before = b]
  BY DEF TerminateSession
<1>2. end \in [Ends -> EndRec]
  BY DEF BaseInv, Shape
<1>3. b \in SUBSET Logins
  BY DEF Settled
<1> HIDE DEF b
<1>4. EndMoves(e) /\ SameRequest(e) /\ end'[e].pc = "done" /\ end'[e].before = b
  BY <1>1, <1>2, <1>3 DEF EndMoves, SameRequest, EndRec
<1> QED
  BY <1>1, <1>4 DEF TerminateSession, b

\* A logout token arrives and ends sessions, or it does not.
LEMMA DeliveryKinds ==
  ASSUME NEW m \in mail, BackChannelLogout(m) \/ SendFails(m)
  PROVE  /\ mail' = mail \ {m}
         /\ \/ local' = local \ OnLogout(m) /\ undelivered' = undelivered
            \/ local' = local /\ undelivered' = undelivered \cup {m.to}
         /\ UNCHANGED <<login, sessions, clientSessions, tokens, refreshTokens, end, logouts>>
  BY DEF BackChannelLogout, SendFails

\* Storing tokens, recording the session and handing the tokens over.
TokenStep(l) ==
    CreateAccessToken(l) \/ CreateRefreshToken(l) \/ RecordClientSession(l) \/ ReceiveTokens(l)

\* The steps of the token endpoint move one login along.
LEMMA TokenStepEffect ==
  ASSUME BaseInv, NEW l \in Logins, TokenStep(l)
  PROVE  /\ LoginMoves(l) /\ SameIdentity(l) /\ login'[l].refreshing = login[l].refreshing
         /\ \/ login[l].pc = "completed" /\ login'[l].pc \in {"accessStored", "stored"} /\ local' = local
            \/ login[l].pc = "accessStored" /\ login'[l].pc = "stored" /\ local' = local
            \/ login[l].pc = "stored" /\ login'[l].pc = "recorded" /\ local' = local
            \/ login[l].pc = "recorded" /\ login'[l].pc = "done" /\ local' = local \cup {l}
         /\ \A x \in Logins \ {l} : /\ x \in tokens' <=> x \in tokens
                                    /\ x \in refreshTokens' <=> x \in refreshTokens
         /\ tokens' \subseteq Logins /\ refreshTokens' \subseteq Logins
         /\ UNCHANGED <<sessions, end, mail, undelivered, logouts>>
<1>1. CASE CreateAccessToken(l)
  <2>1. PICK next \in {"accessStored", "stored"} : login' = [login EXCEPT ![l].pc = next]
    BY <1>1 DEF CreateAccessToken
  <2>2. LoginMoves(l) /\ SameIdentity(l) /\ login'[l].pc = next /\ login'[l].refreshing = login[l].refreshing
    BY <2>1, StageEffect
  <2> QED
    BY <1>1, <2>2 DEF CreateAccessToken, BaseInv, Shape
<1>2. CASE CreateRefreshToken(l) \/ RecordClientSession(l) \/ ReceiveTokens(l)
  <2>1. PICK next \in {"stored", "recorded", "done"} : login' = [login EXCEPT ![l].pc = next]
    BY <1>2 DEF CreateRefreshToken, RecordClientSession, ReceiveTokens
  <2>2. LoginMoves(l) /\ SameIdentity(l) /\ login'[l].pc = next /\ login'[l].refreshing = login[l].refreshing
    BY <2>1, StageEffect
  <2>3. CASE CreateRefreshToken(l)
    <3>1. login' = [login EXCEPT ![l].pc = "stored"]
      BY <2>3 DEF CreateRefreshToken
    <3>2. login'[l].pc = "stored"
      BY <3>1, StageEffect
    <3> QED
      BY <2>2, <2>3, <3>2 DEF CreateRefreshToken, BaseInv, Shape
  <2>4. CASE RecordClientSession(l)
    <3>1. login' = [login EXCEPT ![l].pc = "recorded"]
      BY <2>4 DEF RecordClientSession
    <3>2. login'[l].pc = "recorded"
      BY <3>1, StageEffect
    <3> QED
      BY <2>2, <2>4, <3>2 DEF RecordClientSession, BaseInv, Shape
  <2>5. CASE ReceiveTokens(l)
    <3>1. login' = [login EXCEPT ![l].pc = "done"]
      BY <2>5 DEF ReceiveTokens
    <3>2. login'[l].pc = "done"
      BY <3>1, StageEffect
    <3> QED
      BY <2>2, <2>5, <3>2 DEF ReceiveTokens, BaseInv, Shape
  <2> QED
    BY <1>2, <2>3, <2>4, <2>5
<1> QED
  BY <1>1, <1>2 DEF TokenStep

RefreshStep(l) == RefreshLookup(l) \/ RefreshStore(l)

\* A refresh touches its own login only.
LEMMA RefreshStepEffect ==
  ASSUME BaseInv, NEW l \in Logins, RefreshStep(l)
  PROVE  /\ LoginMoves(l) /\ SameIdentity(l) /\ login[l].pc = "done" /\ login'[l].pc = "done"
         /\ login[l].refreshing \/ l \in refreshTokens
         /\ \A x \in Logins \ {l} : /\ x \in tokens' <=> x \in tokens
                                    /\ x \in refreshTokens' <=> x \in refreshTokens
         /\ tokens' \subseteq Logins /\ refreshTokens' \subseteq Logins
         /\ UNCHANGED <<sessions, clientSessions, local, end, mail, undelivered, logouts>>
<1>1. PICK b \in BOOLEAN : login' = [login EXCEPT ![l].refreshing = b]
  BY DEF RefreshStep, RefreshLookup, RefreshStore
<1>2. LoginMoves(l) /\ SameIdentity(l) /\ login'[l].pc = login[l].pc
  BY <1>1, RefreshEffect
<1>3. login[l].pc = "done"
  BY DEF RefreshStep, RefreshLookup, RefreshStore, BaseInv, LoginOK
<1> QED
  BY <1>2, <1>3 DEF RefreshStep, RefreshLookup, RefreshStore, BaseInv, Shape

\* Every step is one of these.
LEMMA StepKinds ==
  ASSUME [Next]_vars
  PROVE  \/ \E l \in Logins, c \in Clients : Authorize(l, c)
         \/ \E l \in Logins :
              \/ \E u \in Users : CheckUsernamePassword(l, u) \/ \E sid \in 0..l : Accept(l, u, sid)
              \/ SilentLogin(l)
         \/ \E l \in Logins : TokenStep(l)
         \/ \E l \in Logins : RefreshStep(l)
         \/ \E e \in Ends, hint \in Hints, clientID \in Clients \cup {NoUser},
                redirect \in {"none", "registered", "foreign"} : EndSession(e, hint, clientID, redirect)
         \/ \E e \in Ends : PostLogout(e)
         \/ \E e \in Ends : TerminateSession(e)
         \/ \E m \in mail : BackChannelLogout(m) \/ SendFails(m)
         \/ UNCHANGED vars
  BY DEF Next, TokenStep, RefreshStep

-----------------------------------------------------------------------------
(* The base invariant is preserved.                                        *)

\* Once a user has logged in, who he is and where stays; a login that is done
\* stays done.
Lasting(l) ==
    /\ login[l].user # NoUser => SameIdentity(l)
    /\ login[l].pc = "done" => login'[l].pc = "done"

\* Every step keeps the logins well-formed and their identities for good.
LEMMA LoginStep ==
  ASSUME BaseInv, [Next]_vars
  PROVE  /\ login' \in [Logins -> LoginRec] /\ local' \subseteq Logins
         /\ \A l \in Logins : LoginOK(l)' /\ Lasting(l)
<1> DEFINE Goal == /\ login' \in [Logins -> LoginRec] /\ local' \subseteq Logins
                   /\ \A l \in Logins : LoginOK(l)' /\ Lasting(l)
<1> SUFFICES Goal
  OBVIOUS
<1>0. /\ login \in [Logins -> LoginRec] /\ local \subseteq Logins
      /\ \A l \in Logins : LoginOK(l)
  BY DEF BaseInv, Shape
<1>1. ASSUME NEW l \in Logins, NEW c \in Clients, Authorize(l, c)
      PROVE  Goal
  <2>1. \A x \in Logins \ {l} : LoginOK(x)' /\ Lasting(x)
    BY <1>0, <1>1, AuthorizeEffect DEF LoginMoves, LoginOK, Lasting, SameIdentity
  <2>2. LoginOK(l)' /\ Lasting(l)
    BY <1>0, <1>1, AuthorizeEffect, LogoutAssumption DEF LoginOK, Lasting
  <2> QED
    BY <1>0, <1>1, <2>1, <2>2, AuthorizeEffect DEF LoginMoves
<1>2. ASSUME NEW l \in Logins,
             \/ \E u \in Users : CheckUsernamePassword(l, u) \/ \E sid \in 0..l : Accept(l, u, sid)
             \/ SilentLogin(l)
      PROVE  Goal
  <2>1. PICK u \in Users, sid \in Sids : Complete(l, u, sid)
    BY <1>2, LoginCompletes
  <2>2. /\ LoginMoves(l)
        /\ login'[l].pc = "completed" /\ login'[l].user = u /\ login'[l].sid = sid
        /\ login'[l].client = login[l].client /\ login'[l].refreshing = login[l].refreshing
    BY <2>1, CompleteEffect
  <2>3. login[l].pc = "started" /\ local' = local
    BY <1>2, LoginCompletes
  <2>4. \A x \in Logins \ {l} : LoginOK(x)' /\ Lasting(x)
    BY <1>0, <2>2, <2>3 DEF LoginMoves, LoginOK, Lasting, SameIdentity
  <2>5. LoginOK(l)' /\ Lasting(l)
    BY <1>0, <2>2, <2>3, LogoutAssumption DEF LoginOK, Lasting
  <2> QED
    BY <1>0, <2>2, <2>3, <2>4, <2>5 DEF LoginMoves
<1>3. ASSUME NEW l \in Logins, TokenStep(l)
      PROVE  Goal
  <2>1. local' \subseteq local \cup {l}
    BY <1>3, TokenStepEffect
  <2>2. \A x \in Logins \ {l} : LoginOK(x)' /\ Lasting(x)
    BY <1>0, <1>3, <2>1, TokenStepEffect DEF LoginMoves, LoginOK, Lasting, SameIdentity
  <2>3. LoginOK(l)' /\ Lasting(l)
    BY <1>0, <1>3, TokenStepEffect DEF LoginOK, Lasting, SameIdentity
  <2> QED
    BY <1>0, <1>3, <2>1, <2>2, <2>3, TokenStepEffect DEF LoginMoves
<1>4. ASSUME NEW l \in Logins, RefreshStep(l)
      PROVE  Goal
  <2>1. \A x \in Logins \ {l} : LoginOK(x)' /\ Lasting(x)
    BY <1>0, <1>4, RefreshStepEffect DEF LoginMoves, LoginOK, Lasting, SameIdentity
  <2>2. LoginOK(l)' /\ Lasting(l)
    BY <1>0, <1>4, RefreshStepEffect DEF LoginOK, Lasting, SameIdentity
  <2> QED
    BY <1>0, <1>4, <2>1, <2>2, RefreshStepEffect DEF LoginMoves
<1>5. CASE login' = login /\ local' \subseteq local
  BY <1>0, <1>5 DEF LoginOK, Lasting, SameIdentity
<1>6. ASSUME NEW m \in mail, BackChannelLogout(m) \/ SendFails(m)
      PROVE  login' = login /\ local' \subseteq local
  BY <1>6, DeliveryKinds
<1> HIDE DEF Goal
<1> QED
  BY <1>1, <1>2, <1>3, <1>4, <1>5, <1>6, StepKinds DEF EndSession, PostLogout, TerminateSession, vars

\* Owners keep what they own.
LEMMA OwnedGrows ==
  ASSUME BaseInv, [Next]_vars
  PROVE  \A u, c : u # NoUser => \A l \in Owned(u, c) :
           /\ l \in Owned(u, c)' /\ login'[l].sid = login[l].sid
           /\ login[l].pc = "done" => login'[l].pc = "done"
  BY LoginStep DEF Owned, Lasting, SameIdentity

\* Every step keeps the end_session requests well-formed.
LEMMA EndStep ==
  ASSUME BaseInv, [Next]_vars
  PROVE  end' \in [Ends -> EndRec] /\ \A e \in Ends : EndOK(e)'
<1>0. end \in [Ends -> EndRec] /\ \A e \in Ends : EndOK(e)
  BY DEF BaseInv, Shape
<1>1. ASSUME NEW e \in Ends, SameRequest(e), end'[e].before \subseteq end[e].before,
             end'[e].pc \in {"valid", "pushed", "done"} => end[e].pc \in {"valid", "pushed", "done"}
      PROVE  EndOK(e)'
  <2>1. EndOK(e) /\ end[e].before \subseteq Logins
    BY <1>0 DEF EndRec
  <2>2. ASSUME NEW l \in end'[e].before
        PROVE  login'[l].pc = "done" /\ login'[l].user = end'[e].user
    <3>1. l \in Logins /\ login[l].pc = "done" /\ login[l].user = end[e].user
      BY <1>1, <2>1, <2>2 DEF EndOK
    <3>2. login[l].user # NoUser
      BY <3>1 DEF BaseInv, LoginOK
    <3> QED
      BY <1>1, <3>1, <3>2, LoginStep DEF Lasting, SameIdentity, SameRequest
  <2>3. ASSUME end'[e].pc \in {"valid", "pushed", "done"}, end'[e].user # NoUser
        PROVE  \E l \in Logins : /\ login'[l].user = end'[e].user /\ login'[l].client = end'[e].client
                                 /\ login'[l].pc = "done" /\ login'[l].sid = end'[e].sid
    <3>1. PICK l \in Owned(end[e].user, end[e].client) : login[l].pc = "done" /\ login[l].sid = end[e].sid
      BY <1>1, <2>1, <2>3 DEF EndOK, SameRequest
    <3>2. end[e].user # NoUser
      BY <1>1, <2>3 DEF SameRequest
    <3> QED
      BY <1>1, <3>1, <3>2, LoginStep DEF Owned, Lasting, SameIdentity, SameRequest
  <2> QED
    BY <2>2, <2>3 DEF EndOK, Owned
<1>2. CASE end' = end
  BY <1>0, <1>1, <1>2 DEF SameRequest
<1>3. ASSUME NEW e \in Ends, NEW hint \in Hints, NEW clientID \in Clients \cup {NoUser}, NEW redirect,
             EndSession(e, hint, clientID, redirect)
      PROVE  end' \in [Ends -> EndRec] /\ \A x \in Ends : EndOK(x)'
  <2>1. \A x \in Ends \ {e} : EndOK(x)'
    BY <1>1, <1>3, EndSessionEffect DEF EndMoves, SameRequest
  <2>2. login' = login
    BY <1>3 DEF EndSession
  <2>3. EndOK(e)'
    BY <1>3, <2>2, EndSessionEffect, HintKinds DEF EndOK, Settled, Owned
  <2> QED
    BY <1>3, <2>1, <2>3, EndSessionEffect DEF EndMoves
<1>4. ASSUME NEW e \in Ends, PostLogout(e) \/ TerminateSession(e)
      PROVE  end' \in [Ends -> EndRec] /\ \A x \in Ends : EndOK(x)'
  <2>1. \A x \in Ends \ {e} : EndOK(x)'
    BY <1>1, <1>4, PostLogoutEffect, TerminateEffect DEF EndMoves, SameRequest
  <2>2. EndOK(e)'
    BY <1>1, <1>4, PostLogoutEffect, TerminateEffect
  <2> QED
    BY <1>4, <2>1, <2>2, PostLogoutEffect, TerminateEffect DEF EndMoves
<1>5. ASSUME NEW l \in Logins,
             \/ \E c \in Clients : Authorize(l, c)
             \/ \E u \in Users : CheckUsernamePassword(l, u) \/ \E sid \in 0..l : Accept(l, u, sid)
             \/ SilentLogin(l)
             \/ TokenStep(l) \/ RefreshStep(l)
      PROVE  end' = end
  BY <1>5, LoginCompletes, TokenStepEffect, RefreshStepEffect DEF Authorize
<1>6. ASSUME NEW m \in mail, BackChannelLogout(m) \/ SendFails(m)
      PROVE  end' = end
  BY <1>6, DeliveryKinds
<1> QED
  BY <1>2, <1>3, <1>4, <1>5, <1>6, StepKinds DEF vars

\* RecordClientSession writes one entry, the latest session id.
LEMMA RecordEffect ==
  ASSUME BaseInv, NEW l \in Logins, RecordClientSession(l)
  PROVE  /\ login[l].pc = "stored" /\ login[l].user \in Users /\ login[l].client \in Clients
         /\ clientSessions' \in [Users -> [Clients -> Sids]]
         /\ \A u \in Users, c \in Clients :
              clientSessions'[u][c] =
                IF u = login[l].user /\ c = login[l].client /\ login[l].sid # 0 /\ c \in BackChannelLogoutURI
                THEN login[l].sid ELSE clientSessions[u][c]
<1> DEFINE lu == login[l].user
           lc == login[l].client
           ls == login[l].sid
<1>1. login[l].pc = "stored" /\ lu \in Users /\ lc \in Clients /\ ls \in Sids
  BY DEF RecordClientSession, BaseInv, Shape, LoginOK, LoginRec
<1>2. clientSessions \in [Users -> [Clients -> Sids]]
  BY DEF BaseInv, Shape
<1>3. clientSessions' = IF ls # 0 /\ lc \in BackChannelLogoutURI
                        THEN [clientSessions EXCEPT ![lu][lc] = ls] ELSE clientSessions
  BY DEF RecordClientSession
<1> HIDE DEF lu, lc, ls
<1>4. /\ clientSessions' \in [Users -> [Clients -> Sids]]
      /\ \A u \in Users, c \in Clients :
            clientSessions'[u][c] = IF u = lu /\ c = lc /\ ls # 0 /\ c \in BackChannelLogoutURI
                                    THEN ls ELSE clientSessions[u][c]
  BY <1>1, <1>2, <1>3
<1> QED
  BY <1>1, <1>4 DEF lu, lc, ls

\* TerminateSession clears one.
LEMMA ClearEffect ==
  ASSUME BaseInv, NEW e \in Ends, TerminateSession(e)
  PROVE  /\ clientSessions' \in [Users -> [Clients -> Sids]]
         /\ \A u \in Users, c \in Clients :
              clientSessions'[u][c] =
                IF u = end[e].user /\ c = end[e].client THEN 0 ELSE clientSessions[u][c]
<1>1. clientSessions \in [Users -> [Clients -> Sids]] /\ 0 \in Sids
  BY DEF BaseInv, Shape, Sids
<1>2. clientSessions' = [x \in Users |-> [y \in Clients |->
                            IF x = end[e].user /\ y = end[e].client THEN 0 ELSE clientSessions[x][y]]]
  BY DEF TerminateSession
<1> QED
  BY <1>1, <1>2

\* Only two operations write the client sessions.
LEMMA ClientSessionsElsewhere ==
  ASSUME BaseInv, [Next]_vars
  PROVE  \/ clientSessions' = clientSessions
         \/ \E l \in Logins : RecordClientSession(l)
         \/ \E e \in Ends : TerminateSession(e)
<1>1. ASSUME NEW l \in Logins, TokenStep(l)
      PROVE  clientSessions' = clientSessions \/ RecordClientSession(l)
  BY <1>1 DEF TokenStep, CreateAccessToken, CreateRefreshToken, ReceiveTokens
<1>2. ASSUME NEW l \in Logins,
             \/ \E c \in Clients : Authorize(l, c)
             \/ \E u \in Users : CheckUsernamePassword(l, u) \/ \E sid \in 0..l : Accept(l, u, sid)
             \/ SilentLogin(l)
             \/ RefreshStep(l)
      PROVE  clientSessions' = clientSessions
  BY <1>2, LoginCompletes, RefreshStepEffect DEF Authorize
<1>3. ASSUME NEW m \in mail, BackChannelLogout(m) \/ SendFails(m)
      PROVE  clientSessions' = clientSessions
  BY <1>3, DeliveryKinds
<1> QED
  BY <1>1, <1>2, <1>3, StepKinds DEF EndSession, PostLogout, vars

\* A recorded client session belongs to a login of that user and client.
LEMMA RecordedStep ==
  ASSUME BaseInv, [Next]_vars
  PROVE  clientSessions' \in [Users -> [Clients -> Sids]] /\ Recorded'
<1>0. clientSessions \in [Users -> [Clients -> Sids]] /\ Recorded
  BY DEF BaseInv, Shape
<1>1. ASSUME NEW u \in Users, NEW c \in Clients, clientSessions'[u][c] # 0,
             clientSessions'[u][c] = clientSessions[u][c]
      PROVE  c \in BackChannelLogoutURI /\ KnownSid(u, c, clientSessions[u][c])'
  <2>1. c \in BackChannelLogoutURI /\ KnownSid(u, c, clientSessions[u][c])
    BY <1>0, <1>1 DEF Recorded
  <2>2. PICK l \in Owned(u, c) : login[l].sid = clientSessions[u][c]
    BY <2>1 DEF KnownSid
  <2>3. u # NoUser
    BY LogoutAssumption
  <2>4. l \in Owned(u, c)' /\ login'[l].sid = login[l].sid
    BY <2>3, OwnedGrows
  <2> QED
    BY <1>1, <2>1, <2>2, <2>4 DEF KnownSid
<1>2. CASE clientSessions' = clientSessions
  BY <1>0, <1>1, <1>2 DEF Recorded
<1>3. ASSUME NEW l \in Logins, RecordClientSession(l)
      PROVE  clientSessions' \in [Users -> [Clients -> Sids]] /\ Recorded'
  <2>1. ASSUME NEW u \in Users, NEW c \in Clients, clientSessions'[u][c] # 0
        PROVE  c \in BackChannelLogoutURI /\ KnownSid(u, c, clientSessions[u][c])'
    <3>1. CASE clientSessions'[u][c] = clientSessions[u][c]
      BY <1>1, <2>1, <3>1
    <3>2. CASE clientSessions'[u][c] # clientSessions[u][c]
      <4>1. /\ u = login[l].user /\ c = login[l].client /\ c \in BackChannelLogoutURI
            /\ clientSessions'[u][c] = login[l].sid
        BY <1>3, <3>2, RecordEffect
      <4>2. u # NoUser /\ l \in Owned(u, c)
        BY <4>1, LogoutAssumption DEF Owned
      <4>3. l \in Owned(u, c)' /\ login'[l].sid = login[l].sid
        BY <4>2, OwnedGrows
      <4> QED
        BY <4>1, <4>3 DEF KnownSid
    <3> QED
      BY <3>1, <3>2
  <2> QED
    BY <1>3, <2>1, RecordEffect DEF Recorded
<1>4. ASSUME NEW e \in Ends, TerminateSession(e)
      PROVE  clientSessions' \in [Users -> [Clients -> Sids]] /\ Recorded'
  <2>1. \A u \in Users, c \in Clients :
          clientSessions'[u][c] # 0 => clientSessions'[u][c] = clientSessions[u][c]
    BY <1>4, ClearEffect
  <2> QED
    BY <1>1, <1>4, <2>1, ClearEffect DEF Recorded
<1> QED
  BY <1>2, <1>3, <1>4, ClientSessionsElsewhere

\* A request that has come in goes forward, and is about the same session.
LEMMA EndProgress ==
  ASSUME BaseInv, [Next]_vars
  PROVE  \A e \in Ends : end[e].pc # "none" =>
           /\ SameRequest(e) /\ end'[e].before \subseteq end[e].before
           /\ end[e].pc \in {"pushed", "done"} => end'[e].pc \in {"pushed", "done"}
           /\ end[e].pc = "done" => end'[e] = end[e]
<1>1. CASE end' = end
  BY <1>1 DEF SameRequest
<1>2. ASSUME NEW e \in Ends, NEW hint \in Hints, NEW clientID \in Clients \cup {NoUser}, NEW redirect,
             EndSession(e, hint, clientID, redirect)
      PROVE  \A x \in Ends : end[x].pc # "none" => end'[x] = end[x]
  BY <1>2, EndSessionEffect DEF EndMoves
<1>3. ASSUME NEW e \in Ends, PostLogout(e) \/ TerminateSession(e)
      PROVE  /\ \A x \in Ends \ {e} : end'[x] = end[x]
             /\ end[e].pc \in {"valid", "pushed"} /\ SameRequest(e) /\ end'[e].before \subseteq end[e].before
             /\ end'[e].pc \in {"pushed", "done"}
  BY <1>3, PostLogoutEffect, TerminateEffect DEF EndMoves
<1>4. ASSUME NEW l \in Logins,
             \/ \E c \in Clients : Authorize(l, c)
             \/ \E u \in Users : CheckUsernamePassword(l, u) \/ \E sid \in 0..l : Accept(l, u, sid)
             \/ SilentLogin(l)
             \/ TokenStep(l) \/ RefreshStep(l)
      PROVE  end' = end
  BY <1>4, LoginCompletes, TokenStepEffect, RefreshStepEffect DEF Authorize
<1>5. ASSUME NEW m \in mail, BackChannelLogout(m) \/ SendFails(m)
      PROVE  end' = end
  BY <1>5, DeliveryKinds
<1> QED
  BY <1>1, <1>2, <1>3, <1>4, <1>5, StepKinds DEF vars, SameRequest

\* Where logout tokens come from and go to.
LEMMA MailElsewhere ==
  ASSUME BaseInv, [Next]_vars
  PROVE  \/ mail' = mail /\ undelivered' = undelivered /\ (local' = local \/ \E l \in Logins : ReceiveTokens(l))
         \/ \E e \in Ends : PostLogout(e)
         \/ \E m \in mail : BackChannelLogout(m) \/ SendFails(m)
<1>1. ASSUME NEW l \in Logins,
             \/ \E c \in Clients : Authorize(l, c)
             \/ \E u \in Users : CheckUsernamePassword(l, u) \/ \E sid \in 0..l : Accept(l, u, sid)
             \/ SilentLogin(l)
             \/ RefreshStep(l)
      PROVE  UNCHANGED <<mail, undelivered, local>>
  BY <1>1, LoginCompletes, RefreshStepEffect DEF Authorize
<1>2. ASSUME NEW l \in Logins, TokenStep(l)
      PROVE  UNCHANGED <<mail, undelivered>> /\ (local' = local \/ ReceiveTokens(l))
  BY <1>2 DEF TokenStep, CreateAccessToken, CreateRefreshToken, RecordClientSession, ReceiveTokens
<1>3. ASSUME NEW e \in Ends, TerminateSession(e)
      PROVE  UNCHANGED <<mail, undelivered, local>>
  BY <1>3, TerminateEffect
<1> QED
  BY <1>1, <1>2, <1>3, StepKinds DEF EndSession, vars

\* Every logout token in the mail belongs to a login of its user and client.
LEMMA MailStep ==
  ASSUME BaseInv, [Next]_vars
  PROVE  mail' \subseteq MailRec /\ undelivered' \subseteq BackChannelLogoutURI /\ \A m \in mail' : MailOK(m)'
<1>0. mail \subseteq MailRec /\ undelivered \subseteq BackChannelLogoutURI /\ \A m \in mail : MailOK(m)
  BY DEF BaseInv, Shape
<1>1. \A m \in mail : MailOK(m)'
  <2> SUFFICES ASSUME NEW m \in mail
               PROVE  MailOK(m)'
    OBVIOUS
  <2>1. PICK l \in Owned(m.user, m.to) : m.sid \in {0, login[l].sid}
    BY <1>0 DEF MailOK
  <2>2. m.user # NoUser
    BY <1>0, LogoutAssumption DEF MailRec
  <2>3. l \in Owned(m.user, m.to)' /\ login'[l].sid = login[l].sid
    BY <2>2, OwnedGrows
  <2>4. PICK e \in Ends : end[e].pc \in {"pushed", "done"} /\ end[e].user = m.user /\ end[e].sid = m.sid
    BY <1>0 DEF MailOK
  <2>5. end'[e].pc \in {"pushed", "done"} /\ end'[e].user = m.user /\ end'[e].sid = m.sid
    BY <2>4, EndProgress DEF SameRequest
  <2> QED
    BY <2>1, <2>3, <2>5 DEF MailOK
<1>2. CASE mail' = mail /\ undelivered' = undelivered
  BY <1>0, <1>1, <1>2
<1>3. ASSUME NEW e \in Ends, PostLogout(e)
      PROVE  mail' \subseteq MailRec /\ undelivered' \subseteq BackChannelLogoutURI /\ \A m \in mail' : MailOK(m)'
  <2> DEFINE u == end[e].user
             sid == end[e].sid
  <2>1. ASSUME NEW c \in ClientsForSession(u, sid), NEW m, m = createLogoutToken(u, c, sid)
        PROVE  m \in MailRec /\ MailOK(m)'
    <3>1. u \in Users /\ sid \in Sids
      BY <2>1 DEF ClientsForSession, BaseInv, Shape, EndRec
    <3>2. c \in Clients /\ clientSessions[u][c] # 0 /\ sid \in {0, clientSessions[u][c]}
      BY <2>1 DEF ClientsForSession
    <3>3. c \in BackChannelLogoutURI /\ KnownSid(u, c, clientSessions[u][c])
      BY <3>1, <3>2 DEF BaseInv, Recorded
    <3>4. m \in MailRec /\ m.to = c /\ m.user = u /\ m.sid = sid
      BY <2>1, <3>1, <3>3 DEF MailRec, createLogoutToken
    <3>5. PICK l \in Owned(u, c) : sid \in {0, login[l].sid}
      BY <3>2, <3>3 DEF KnownSid
    <3>6. login' = login /\ l \in Logins /\ login[l].user = u /\ login[l].client = c
      BY <1>3 DEF PostLogout, Owned
    <3>7. end'[e].pc = "pushed" /\ end'[e].user = u /\ end'[e].sid = sid
      BY <1>3, PostLogoutEffect DEF SameRequest
    <3> HIDE DEF u, sid
    <3>8. MailOK(m)'
      BY <3>4, <3>5, <3>6, <3>7 DEF MailOK, Owned
    <3> QED
      BY <3>4, <3>8
  <2>2. mail' = mail \cup {createLogoutToken(u, c, sid) : c \in ClientsForSession(u, sid)}
        /\ undelivered' = undelivered
    BY <1>3, PostLogoutEffect
  <2> HIDE DEF u, sid
  <2>3. \A m \in mail' : m \in mail \/ \E c \in ClientsForSession(u, sid) : m = createLogoutToken(u, c, sid)
    BY <2>2
  <2>4. \A m \in mail' : m \in MailRec /\ MailOK(m)'
    BY <1>0, <1>1, <2>1, <2>3
  <2> QED
    BY <1>0, <2>2, <2>4
<1>4. ASSUME NEW m \in mail, BackChannelLogout(m) \/ SendFails(m)
      PROVE  mail' \subseteq MailRec /\ undelivered' \subseteq BackChannelLogoutURI /\ \A x \in mail' : MailOK(x)'
  <2>1. mail' \subseteq mail /\ undelivered' \subseteq undelivered \cup {m.to}
    BY <1>4, DeliveryKinds
  <2>2. m.to \in BackChannelLogoutURI
    BY <1>0 DEF MailRec
  <2> QED
    BY <1>0, <1>1, <2>1, <2>2
<1> QED
  BY <1>2, <1>3, <1>4, MailElsewhere

\* TerminateSession counts the logout of its user and takes all his sessions.
LEMMA EndsSessions ==
  ASSUME BaseInv, NEW e \in Ends, TerminateSession(e)
  PROVE  /\ sessions' = {s \in sessions : s.user # end[e].user}
         /\ logouts' \in [Users -> Nat]
         /\ \A u \in Users : logouts'[u] = IF u = end[e].user THEN logouts[u] + 1 ELSE logouts[u]
         /\ tokens' = tokens \ Owned(end[e].user, end[e].client)
         /\ refreshTokens' = refreshTokens \ Owned(end[e].user, end[e].client)
<1>1. logouts' = [x \in Users |-> IF x = end[e].user THEN logouts[x] + 1 ELSE logouts[x]]
  BY DEF TerminateSession
<1>2. logouts \in [Users -> Nat]
  BY DEF BaseInv, Shape
<1> QED
  BY <1>1, <1>2 DEF TerminateSession, RemainingSessions, RemainingRefreshTokens

\* The login form adds a session of the present; elsewhere sessions stay.
LEMMA SessionsElsewhere ==
  ASSUME BaseInv, [Next]_vars
  PROVE  \/ sessions' = sessions /\ logouts' = logouts
         \/ /\ logouts' = logouts
            /\ \E s \in SessionRec : s.since = logouts[s.user] /\ sessions' \subseteq sessions \cup {s}
         \/ \E e \in Ends : TerminateSession(e)
<1>1. ASSUME NEW l \in Logins, NEW u \in Users, CheckUsernamePassword(l, u)
      PROVE  /\ logouts' = logouts
             /\ \E s \in SessionRec : s.since = logouts[s.user] /\ sessions' \subseteq sessions \cup {s}
  <2> DEFINE s == [sid |-> login[l].sid, user |-> u, client |-> login[l].client, since |-> logouts[u]]
  <2>1. login[l].sid \in Logins /\ login[l].client \in Clients /\ logouts[u] \in Nat
    BY <1>1 DEF CheckUsernamePassword, BaseInv, Shape, LoginOK, LoginRec
  <2>2. s \in SessionRec /\ s.since = logouts[s.user]
    BY <2>1 DEF SessionRec
  <2>3. sessions' \subseteq sessions \cup {s} /\ logouts' = logouts
    BY <1>1 DEF CheckUsernamePassword
  <2> QED
    BY <2>2, <2>3
<1>2. ASSUME NEW l \in Logins,
             \/ \E c \in Clients : Authorize(l, c)
             \/ \E u \in Users, sid \in 0..l : Accept(l, u, sid)
             \/ SilentLogin(l)
             \/ TokenStep(l) \/ RefreshStep(l)
      PROVE  sessions' = sessions /\ logouts' = logouts
  BY <1>2, TokenStepEffect, RefreshStepEffect DEF Authorize, Accept, SilentLogin
<1>3. ASSUME NEW m \in mail, BackChannelLogout(m) \/ SendFails(m)
      PROVE  sessions' = sessions /\ logouts' = logouts
  BY <1>3, DeliveryKinds
<1> QED
  BY <1>1, <1>2, <1>3, StepKinds DEF EndSession, PostLogout, vars

\* Tokens come only from the token requests of the login they belong to.
LEMMA TokensElsewhere ==
  ASSUME BaseInv, [Next]_vars
  PROVE  /\ tokens' \subseteq Logins /\ refreshTokens' \subseteq Logins
         /\ \A l \in Logins : login[l].pc = "done" /\ ~login[l].refreshing /\ l \notin refreshTokens =>
              /\ l \in tokens' => l \in tokens
              /\ l \notin refreshTokens' /\ ~login'[l].refreshing
<1> DEFINE Goal == /\ tokens' \subseteq Logins /\ refreshTokens' \subseteq Logins
                   /\ \A l \in Logins : login[l].pc = "done" /\ ~login[l].refreshing /\ l \notin refreshTokens =>
                        /\ l \in tokens' => l \in tokens
                        /\ l \notin refreshTokens' /\ ~login'[l].refreshing
<1> SUFFICES Goal
  OBVIOUS
<1>0. tokens \subseteq Logins /\ refreshTokens \subseteq Logins
  BY DEF BaseInv, Shape
<1>1. ASSUME NEW l \in Logins,
             \/ \E c \in Clients : Authorize(l, c)
             \/ \E u \in Users : CheckUsernamePassword(l, u) \/ \E sid \in 0..l : Accept(l, u, sid)
             \/ SilentLogin(l)
      PROVE  Goal
  <2>1. login[l].pc # "done" /\ tokens' = tokens /\ refreshTokens' = refreshTokens
    BY <1>1, LoginCompletes, AuthorizeEffect
  <2>2. \A x \in Logins \ {l} : login'[x] = login[x]
    BY <1>1, LoginCompletes, AuthorizeEffect, CompleteEffect DEF LoginMoves
  <2> QED
    BY <1>0, <2>1, <2>2
<1>2. ASSUME NEW l \in Logins, TokenStep(l)
      PROVE  Goal
  BY <1>2, TokenStepEffect DEF LoginMoves
<1>3. ASSUME NEW l \in Logins, RefreshStep(l)
      PROVE  Goal
  BY <1>3, RefreshStepEffect DEF LoginMoves
<1>4. ASSUME NEW e \in Ends, TerminateSession(e)
      PROVE  Goal
  BY <1>0, <1>4, EndsSessions, TerminateEffect
<1>5. ASSUME NEW m \in mail, BackChannelLogout(m) \/ SendFails(m)
      PROVE  Goal
  BY <1>0, <1>5, DeliveryKinds
<1>6. CASE tokens' = tokens /\ refreshTokens' = refreshTokens /\ login' = login
  BY <1>0, <1>6
<1>7. ASSUME \/ \E e \in Ends, hint \in Hints, clientID \in Clients \cup {NoUser},
                   redirect \in {"none", "registered", "foreign"} : EndSession(e, hint, clientID, redirect)
             \/ \E e \in Ends : PostLogout(e)
             \/ UNCHANGED vars
      PROVE  Goal
  <2>1. tokens' = tokens /\ refreshTokens' = refreshTokens /\ login' = login
    BY <1>7 DEF EndSession, PostLogout, vars
  <2> HIDE DEF Goal
  <2> QED
    BY <1>6, <2>1
<1> HIDE DEF Goal
<1> QED
  BY <1>1, <1>2, <1>3, <1>4, <1>5, <1>7, StepKinds

\* Every step preserves the base invariant.
LEMMA BaseStep ==
  ASSUME BaseInv, [Next]_vars
  PROVE  BaseInv'
<1>0. sessions \subseteq SessionRec /\ logouts \in [Users -> Nat]
  BY DEF BaseInv, Shape
<1>1. sessions' \subseteq SessionRec /\ logouts' \in [Users -> Nat]
  <2>1. ASSUME NEW e \in Ends, TerminateSession(e)
        PROVE  sessions' \subseteq sessions /\ logouts' \in [Users -> Nat]
    BY <2>1, EndsSessions
  <2>2. \/ sessions' = sessions /\ logouts' = logouts
        \/ logouts' = logouts /\ \E s \in SessionRec : sessions' \subseteq sessions \cup {s}
        \/ sessions' \subseteq sessions /\ logouts' \in [Users -> Nat]
    BY <2>1, SessionsElsewhere
  <2> QED
    BY <1>0, <2>2
<1>2. tokens' \subseteq Logins /\ refreshTokens' \subseteq Logins
  BY TokensElsewhere
<1> QED
  BY <1>1, <1>2, LoginStep, EndStep, RecordedStep, MailStep DEF BaseInv, Shape

\* The base invariant holds in every reachable state.
LEMMA BaseInvariance == Spec => []BaseInv
<1>1. Init => BaseInv
  <2> SUFFICES ASSUME Init
               PROVE  BaseInv
    OBVIOUS
  <2>1. /\ NoLogin \in LoginRec /\ NoLogin.pc = "none" /\ NoLogin.user = NoUser
        /\ NoLogin.client = NoUser /\ NoLogin.refreshing = FALSE
    BY DEF NoLogin, LoginRec, Sids
  <2>2. NoEnd \in EndRec /\ NoEnd.pc = "none" /\ NoEnd.before = {}
    BY DEF NoEnd, EndRec, Sids
  <2>3. Shape
    BY <2>1, <2>2 DEF Init, Shape, Sids
  <2>4. \A l \in Logins : LoginOK(l)
    BY <2>1 DEF Init, LoginOK
  <2>5. \A e \in Ends : EndOK(e)
    BY <2>2 DEF Init, EndOK
  <2>6. Recorded /\ \A m \in mail : MailOK(m)
    BY DEF Init, Recorded
  <2> QED
    BY <2>3, <2>4, <2>5, <2>6 DEF BaseInv
<1>2. BaseInv /\ [Next]_vars => BaseInv'
  BY BaseStep
<1> QED
  BY <1>1, <1>2, PTL DEF Spec

-----------------------------------------------------------------------------
(* After a logout.                                                         *)

\* What makes a request done or pushed, and a login recorded or done.
LEMMA StageChanges ==
  ASSUME BaseInv, [Next]_vars
  PROVE  /\ \A e \in Ends : end'[e].pc = "done" /\ end[e].pc # "done" => TerminateSession(e)
         /\ \A e \in Ends : end'[e].pc \in {"pushed", "done"} /\ end[e].pc \notin {"pushed", "done"} => PostLogout(e)
         /\ \A l \in Logins : login'[l].pc \in {"recorded", "done"} /\ login[l].pc \notin {"recorded", "done"} =>
              RecordClientSession(l)
<1> DEFINE Goal == /\ \A e \in Ends : end'[e].pc = "done" /\ end[e].pc # "done" => TerminateSession(e)
                   /\ \A e \in Ends : end'[e].pc \in {"pushed", "done"} /\ end[e].pc \notin {"pushed", "done"} =>
                        PostLogout(e)
                   /\ \A l \in Logins :
                        login'[l].pc \in {"recorded", "done"} /\ login[l].pc \notin {"recorded", "done"} =>
                          RecordClientSession(l)
<1> SUFFICES Goal
  OBVIOUS
<1>1. ASSUME NEW l \in Logins,
             \/ \E c \in Clients : Authorize(l, c)
             \/ \E u \in Users : CheckUsernamePassword(l, u) \/ \E sid \in 0..l : Accept(l, u, sid)
             \/ SilentLogin(l)
             \/ RefreshStep(l)
      PROVE  Goal
  <2>1. LoginMoves(l) /\ (login'[l].pc \in {"started", "completed"} \/ login[l].pc = "done")
    BY <1>1, LoginCompletes, AuthorizeEffect, CompleteEffect, RefreshStepEffect
  <2>2. end' = end
    BY <1>1, LoginCompletes, AuthorizeEffect, RefreshStepEffect
  <2> QED
    BY <2>1, <2>2 DEF LoginMoves
<1>2. ASSUME NEW l \in Logins, TokenStep(l)
      PROVE  Goal
  <2>1. LoginMoves(l) /\ end' = end
    BY <1>2, TokenStepEffect
  <2>2. CASE RecordClientSession(l)
    BY <2>1, <2>2 DEF LoginMoves
  <2>3. CASE ReceiveTokens(l)
    BY <2>1, <2>3 DEF LoginMoves, ReceiveTokens
  <2>4. CASE CreateAccessToken(l) \/ CreateRefreshToken(l)
    <3>1. login[l].pc \in {"completed", "accessStored"}
      BY <2>4 DEF CreateAccessToken, CreateRefreshToken
    <3>2. login'[l].pc \notin {"recorded", "done"}
      BY <1>2, <3>1, TokenStepEffect
    <3> QED
      BY <2>1, <3>2 DEF LoginMoves
  <2> QED
    BY <1>2, <2>2, <2>3, <2>4 DEF TokenStep
<1>3. ASSUME NEW e \in Ends, NEW hint \in Hints, NEW clientID \in Clients \cup {NoUser}, NEW redirect,
             EndSession(e, hint, clientID, redirect)
      PROVE  Goal
  BY <1>3, EndSessionEffect DEF EndMoves
<1>4. ASSUME NEW e \in Ends, PostLogout(e)
      PROVE  Goal
  BY <1>4, PostLogoutEffect DEF EndMoves
<1>5. ASSUME NEW e \in Ends, TerminateSession(e)
      PROVE  Goal
  BY <1>5, TerminateEffect DEF EndMoves
<1>6. ASSUME (\E m \in mail : BackChannelLogout(m) \/ SendFails(m)) \/ UNCHANGED vars
      PROVE  Goal
  <2>1. end' = end /\ login' = login
    BY <1>6, DeliveryKinds DEF vars
  <2> QED
    BY <2>1
<1> HIDE DEF Goal
<1> QED
  BY <1>1, <1>2, <1>3, <1>4, <1>5, <1>6, StepKinds

\* No more logouts finish than were asked for.
LEMMA FinishedCount ==
  ASSUME BaseInv
  PROVE  Cardinality(Finished) \in Nat /\ Cardinality(Finished) <= Cardinality(Ends) /\ IsFiniteSet(Finished)
  BY LogoutAssumption, FS_Subset, FS_CardinalityType DEF Finished

\* The logouts that are counted are those that have finished.
LEMMA CountStep ==
  ASSUME BaseInv, BaseInv', CountInv, [Next]_vars
  PROVE  CountInv'
<1>0. logouts \in [Users -> Nat] /\ sessions \subseteq SessionRec
  BY DEF BaseInv, Shape
<1>1. Cardinality(Finished) \in Nat /\ IsFiniteSet(Finished)
  BY FinishedCount
<1>2. IsFiniteSet(Finished') /\ Finished \subseteq Finished'
  BY LogoutAssumption, FS_Subset, EndProgress DEF Finished
<1>3. Cardinality(Finished) <= Cardinality(Finished') /\ Cardinality(Finished') \in Nat
  BY <1>2, FS_Subset, FS_CardinalityType
<1>4. CASE sessions' = sessions /\ logouts' = logouts
  BY <1>0, <1>1, <1>3, <1>4 DEF CountInv, SilentOnlyAfterLogin
<1>5. ASSUME logouts' = logouts, NEW s \in SessionRec, s.since = logouts[s.user],
             sessions' \subseteq sessions \cup {s}
      PROVE  CountInv'
  BY <1>0, <1>1, <1>3, <1>5 DEF CountInv, SilentOnlyAfterLogin
<1>6. ASSUME NEW e \in Ends, TerminateSession(e)
      PROVE  CountInv'
  <2>1. Finished' = Finished \cup {e} /\ e \notin Finished
    BY <1>6, TerminateEffect DEF EndMoves, Finished
  <2>2. Cardinality(Finished') = Cardinality(Finished) + 1
    BY <1>1, <2>1, FS_AddElement
  <2>3. \A u \in Users : logouts'[u] <= Cardinality(Finished')
    BY <1>0, <1>1, <1>6, <2>2, EndsSessions DEF CountInv
  <2>4. SilentOnlyAfterLogin'
    BY <1>0, <1>6, EndsSessions DEF CountInv, SilentOnlyAfterLogin, SessionRec
  <2> QED
    BY <2>3, <2>4 DEF CountInv, Finished
<1> QED
  BY <1>4, <1>5, <1>6, SessionsElsewhere

\* What a finished logout has ended stays ended.
LEMMA DeadStep ==
  ASSUME BaseInv, DeadInv, [Next]_vars
  PROVE  DeadInv'
<1> SUFFICES ASSUME NEW e \in Ends, end'[e].pc = "done", NEW l \in Logins,
                    login'[l].user = end'[e].user, login'[l].client = end'[e].client, l \in end'[e].before
             PROVE  ~login'[l].refreshing /\ l \notin tokens' /\ l \notin refreshTokens'
  BY DEF DeadInv, Owned
<1>1. CASE end[e].pc = "done"
  <2>1. end'[e] = end[e] /\ EndOK(e)
    BY <1>1, EndProgress DEF BaseInv
  <2>2. login[l].pc = "done" /\ login[l].user = end[e].user /\ login[l].user # NoUser
    BY <2>1 DEF EndOK, BaseInv, LoginOK
  <2>3. login'[l].client = login[l].client
    BY <2>2, LoginStep DEF Lasting, SameIdentity
  <2>4. ~login[l].refreshing /\ l \notin tokens /\ l \notin refreshTokens
    BY <1>1, <2>1, <2>2, <2>3 DEF DeadInv, Owned
  <2> QED
    BY <2>2, <2>4, TokensElsewhere
<1>2. CASE end[e].pc # "done"
  <2>1. TerminateSession(e)
    BY <1>2, StageChanges
  <2>2. login' = login /\ SameRequest(e) /\ l \in Settled(end[e].user)
    BY <2>1, TerminateEffect
  <2>3. ~login[l].refreshing /\ l \in Owned(end[e].user, end[e].client)
    BY <2>2 DEF Settled, Owned, SameRequest
  <2> QED
    BY <2>1, <2>2, <2>3, EndsSessions
<1> QED
  BY <1>1, <1>2

\* After a logout of its user no session is left that prompt=none would use, and
\* no token of the client that asked would be called active, whatever logins,
\* refreshes and other logouts run at the same time.
THEOREM LoggedOutIsOverHolds == Spec => []LoggedOutIsOver
<1>1. Init => CountInv /\ DeadInv
  <2> SUFFICES ASSUME Init
               PROVE  CountInv /\ DeadInv
    OBVIOUS
  <2>1. NoEnd.pc = "none"
    BY DEF NoEnd
  <2>2. Finished = {}
    BY <2>1 DEF Init, Finished
  <2>3. Cardinality(Finished) = 0
    BY <2>2, FS_EmptySet
  <2> QED
    BY <2>1, <2>3 DEF Init, CountInv, SilentOnlyAfterLogin, DeadInv
<1>2. BaseInv /\ BaseInv' /\ CountInv /\ DeadInv /\ [Next]_vars => CountInv' /\ DeadInv'
  BY CountStep, DeadStep
<1>3. BaseInv /\ CountInv /\ DeadInv => LoggedOutIsOver
  <2> SUFFICES ASSUME BaseInv, CountInv, DeadInv
               PROVE  LoggedOutIsOver
    OBVIOUS
  <2>1. ASSUME NEW s \in sessions
        PROVE  s \in [sid : Logins, user : Users, client : Clients, since : 0..Cardinality(Ends)]
    <3>1. s \in SessionRec
      BY DEF BaseInv, Shape
    <3>2. s.since = logouts[s.user] /\ s.user \in Users /\ s.since \in Nat
      BY <3>1 DEF CountInv, SilentOnlyAfterLogin, SessionRec
    <3>3. s.since \in 0..Cardinality(Ends)
      BY <3>2, FinishedCount, LogoutAssumption, FS_CardinalityType DEF CountInv
    <3> QED
      BY <3>1, <3>3 DEF SessionRec
  <2>2. TypeOK
    <3>1. \A e \in Ends : end[e].pc \in {"none", "refused", "valid", "pushed", "done"}
      BY DEF BaseInv, Shape, EndRec
    <3>2. login \in [Logins -> [pc : {"none", "started", "completed", "accessStored", "stored", "recorded", "done"},
                                client : Clients \cup {NoUser}, user : Users \cup {NoUser}, sid : Sids,
                                refreshing : BOOLEAN]]
      BY DEF BaseInv, Shape, LoginRec
    <3>3. \A u \in Users, c \in Clients : clientSessions[u][c] # 0 =>
             c \in BackChannelLogoutURI /\ \E l \in Owned(u, c) : login[l].sid = clientSessions[u][c]
      BY DEF BaseInv, Recorded, KnownSid
    <3> QED
      BY <2>1, <3>1, <3>2, <3>3 DEF BaseInv, Shape, TypeOK, MailRec
  <2>3. LoggedOutTokensDead
    BY DEF DeadInv, LoggedOutTokensDead, Active
  <2> QED
    BY <2>2, <2>3 DEF LoggedOutIsOver, CountInv
<1> QED
  BY <1>1, <1>2, <1>3, BaseInvariance, PTL DEF Spec

-----------------------------------------------------------------------------
(* Logout tokens find their way.                                           *)

\* A login that is alone of its user and client after a step was alone before it.
LEMMA SoleBefore ==
  ASSUME BaseInv, [Next]_vars, NEW l \in Logins, login[l].user # NoUser, Sole(l)'
  PROVE  Sole(l) /\ SameIdentity(l)
<1>1. SameIdentity(l)
  BY LoginStep DEF Lasting
<1>2. ASSUME NEW x \in Logins, login[x].user = login[l].user, login[x].client = login[l].client
      PROVE  x = l
  <2>1. login'[x].user = login'[l].user /\ login'[x].client = login'[l].client
    BY <1>1, <1>2, LoginStep DEF Lasting, SameIdentity
  <2> QED
    BY <2>1 DEF Sole, Owned
<1>3. Owned(login[l].user, login[l].client) = {l}
  BY <1>2 DEF Owned
<1> QED
  BY <1>1, <1>3 DEF Sole, SameIdentity

\* A relying party that has been told stays told.
LEMMA ToldStays ==
  ASSUME BaseInv, [Next]_vars, NEW l \in Logins, login[l].pc = "done", Told(l)
  PROVE  Told(l)'
<1>1. SameIdentity(l)
  BY LoginStep DEF Lasting, BaseInv, LoginOK
<1>2. CASE UNCHANGED <<mail, undelivered, local>>
  BY <1>1, <1>2 DEF Told, SameIdentity
<1>3. ASSUME NEW x \in Logins, ReceiveTokens(x), mail' = mail, undelivered' = undelivered
      PROVE  Told(l)'
  <2>1. x # l /\ local' = local \cup {x}
    BY <1>3 DEF ReceiveTokens
  <2> QED
    BY <1>1, <1>3, <2>1 DEF Told, SameIdentity
<1>4. ASSUME NEW e \in Ends, PostLogout(e)
      PROVE  Told(l)'
  <2>1. mail \subseteq mail' /\ local' = local /\ undelivered' = undelivered
    BY <1>4, PostLogoutEffect
  <2> QED
    BY <1>1, <2>1 DEF Told, SameIdentity
<1>5. ASSUME NEW m \in mail, BackChannelLogout(m) \/ SendFails(m)
      PROVE  Told(l)'
  <2>1. /\ mail' = mail \ {m} /\ local' \subseteq local /\ undelivered \subseteq undelivered'
        /\ local' = local \ OnLogout(m) \/ m.to \in undelivered'
    BY <1>5, DeliveryKinds
  <2>2. CASE l \notin local \/ login[l].client \in undelivered
    BY <1>1, <2>1, <2>2 DEF Told, SameIdentity
  <2>3. ASSUME l \in local, NEW n \in mail, n.to = login[l].client, n.user = login[l].user,
               n.sid \in {0, login[l].sid}
        PROVE  Told(l)'
    <3>1. CASE n # m
      BY <1>1, <2>1, <2>3, <3>1 DEF Told, SameIdentity
    <3>2. CASE n = m
      <4>1. l \in OnLogout(m)
        BY <2>3, <3>2 DEF OnLogout
      <4> QED
        BY <1>1, <2>1, <2>3, <3>2, <4>1 DEF Told, SameIdentity
    <3> QED
      BY <3>1, <3>2
  <2> QED
    BY <2>2, <2>3 DEF Told
<1> QED
  BY <1>2, <1>3, <1>4, <1>5, MailElsewhere

\* A request about a sole login was hinted by that login's own ID token, or found
\* it settled: either way the login was done.
LEMMA AskedIsDone ==
  ASSUME BaseInv, NEW e \in Ends, NEW l \in Logins, end[e].pc \in {"valid", "pushed", "done"},
         login[l].user # NoUser, Sole(l), Asked(e, l)
  PROVE  login[l].pc = "done"
<1>1. EndOK(e)
  BY DEF BaseInv
<1>2. CASE l \in end[e].before
  BY <1>1, <1>2 DEF EndOK
<1>3. CASE login[l].client = end[e].client
  <2>1. PICK h \in Owned(end[e].user, end[e].client) : login[h].pc = "done"
    BY <1>1 DEF EndOK, Asked
  <2>2. h = l
    BY <1>3, <2>1 DEF Asked, Sole
  <2> QED
    BY <2>1, <2>2
<1> QED
  BY <1>2, <1>3 DEF Asked

\* The record of a sole login goes only when its relying party has been told.
LEMMA RecordLasts ==
  ASSUME BaseInv, TellInv, [Next]_vars, NEW l \in Logins, Sole(l)', login'[l].pc \in {"recorded", "done"}
  PROVE  \/ clientSessions'[login'[l].user][login'[l].client] = login'[l].sid
         \/ login'[l].pc = "done" /\ Told(l)'
<1> DEFINE u == login[l].user
           c == login[l].client
           sid == login[l].sid
           Goal == \/ clientSessions'[login'[l].user][login'[l].client] = login'[l].sid
                   \/ login'[l].pc = "done" /\ Told(l)'
<1> SUFFICES Goal
  OBVIOUS
<1>1. login[l].pc \in {"recorded", "done"} \/ RecordClientSession(l)
  BY StageChanges
<1>2. login[l].user # NoUser
  BY <1>1 DEF RecordClientSession, BaseInv, LoginOK
<1>3. Sole(l) /\ SameIdentity(l)
  BY <1>2, SoleBefore
<1>4. u \in Users /\ c \in Clients
  BY <1>2, <1>3, LogoutAssumption DEF BaseInv, Shape, LoginRec, Sole
<1>5. ASSUME NEW x \in Logins, RecordClientSession(x)
      PROVE  x = l \/ clientSessions'[u][c] = clientSessions[u][c]
  <2>1. login[x].user = u /\ login[x].client = c => x = l
    BY <1>3 DEF Sole, Owned
  <2> QED
    BY <1>4, <1>5, <2>1, RecordEffect
<1>6. CASE RecordClientSession(l)
  <2>1. clientSessions'[u][c] = sid
    BY <1>3, <1>4, <1>6, RecordEffect DEF Sole
  <2> QED
    BY <1>3, <2>1 DEF SameIdentity
<1>7. CASE login[l].pc \in {"recorded", "done"} /\ clientSessions'[u][c] = clientSessions[u][c]
  <2>1. clientSessions[u][c] = sid \/ (login[l].pc = "done" /\ Told(l))
    BY <1>3, <1>7 DEF TellInv
  <2>2. CASE clientSessions[u][c] = sid
    BY <1>3, <1>7, <2>2 DEF SameIdentity
  <2>3. CASE login[l].pc = "done" /\ Told(l)
    BY <2>3, ToldStays, LoginStep DEF Lasting
  <2> QED
    BY <2>1, <2>2, <2>3
<1>8. ASSUME NEW e \in Ends, TerminateSession(e), clientSessions'[u][c] # clientSessions[u][c]
      PROVE  login'[l].pc = "done" /\ Told(l)'
  <2>1. u = end[e].user /\ c = end[e].client
    BY <1>4, <1>8, ClearEffect
  <2>2. end[e].pc = "pushed" /\ EndOK(e)
    BY <1>8, TerminateEffect DEF BaseInv
  <2>3. PICK h \in Owned(u, c) : login[h].pc = "done" /\ login[h].sid = end[e].sid
    BY <1>2, <2>1, <2>2 DEF EndOK
  <2>4. h = l
    BY <1>3, <2>3 DEF Sole
  <2>5. Asked(e, l)
    BY <2>1, <2>3, <2>4 DEF Asked
  <2>6. Told(l)
    BY <1>3, <2>2, <2>5 DEF TellInv
  <2> QED
    BY <2>3, <2>4, <2>6, ToldStays, LoginStep DEF Lasting
<1>9. \/ clientSessions'[u][c] = clientSessions[u][c]
      \/ RecordClientSession(l)
      \/ \E e \in Ends : TerminateSession(e)
  BY <1>5, ClientSessionsElsewhere
<1> HIDE DEF u, c, sid
<1> QED
  BY <1>1, <1>6, <1>7, <1>8, <1>9

\* Every step preserves that the sole login of a logged-out client has been told.
LEMMA TellStep ==
  ASSUME BaseInv, BaseInv', TellInv, [Next]_vars
  PROVE  TellInv'
<1>1. ASSUME NEW e \in Ends, NEW l \in Logins, end'[e].pc \in {"pushed", "done"}, Sole(l)', Asked(e, l)'
      PROVE  Told(l)'
  <2>1. CASE login'[l].pc # "done"
    BY <2>1 DEF BaseInv, LoginOK, Told
  <2>2. CASE login'[l].pc = "done"
    <3>1. login[l].pc \in {"recorded", "done"} \/ RecordClientSession(l)
      BY <2>2, StageChanges
    <3>2. login[l].user # NoUser
      BY <3>1 DEF RecordClientSession, BaseInv, LoginOK
    <3>3. Sole(l) /\ SameIdentity(l)
      BY <1>1, <3>2, SoleBefore
    <3>4. CASE end[e].pc \in {"pushed", "done"}
      <4>1. SameRequest(e) /\ end'[e].before \subseteq end[e].before
        BY <3>4, EndProgress
      <4>2. Asked(e, l)
        BY <1>1, <3>3, <4>1 DEF Asked, SameRequest, SameIdentity
      <4>3. Told(l)
        BY <3>3, <3>4, <4>2 DEF TellInv
      <4> QED
        BY <3>2, <3>3, <3>4, <4>2, <4>3, AskedIsDone, ToldStays
    <3>5. CASE end[e].pc \notin {"pushed", "done"}
      <4> DEFINE u == login[l].user
                 c == login[l].client
                 sid == end[e].sid
      <4>1. PostLogout(e)
        BY <1>1, <3>5, StageChanges
      <4>2. /\ SameRequest(e) /\ end'[e].before = end[e].before /\ login' = login
            /\ mail' = mail \cup {createLogoutToken(end[e].user, d, end[e].sid) :
                                   d \in ClientsForSession(end[e].user, end[e].sid)}
        BY <4>1, PostLogoutEffect
      <4>3. Asked(e, l) /\ login[l].pc = "done"
        BY <1>1, <2>2, <4>2 DEF Asked, SameRequest
      <4>4. clientSessions[u][c] = login[l].sid \/ Told(l)
        BY <3>3, <4>3 DEF TellInv
      <4>5. CASE Told(l)
        BY <4>3, <4>5, ToldStays
      <4>6. CASE clientSessions[u][c] = login[l].sid
        <5>1. u = end[e].user /\ sid \in {0, login[l].sid} /\ login[l].sid # 0 /\ c \in Clients
          BY <3>3, <4>3, LogoutAssumption DEF Asked, Sole
        <5>2. c \in ClientsForSession(u, sid)
          BY <3>2, <4>6, <5>1 DEF ClientsForSession
        <5>3. PICK m \in mail' : m = createLogoutToken(u, c, sid)
          BY <4>2, <5>1, <5>2
        <5>4. m.to = c /\ m.user = u /\ m.sid = sid
          BY <5>3 DEF createLogoutToken
        <5> QED
          BY <4>2, <5>1, <5>4 DEF Told
      <4> QED
        BY <4>4, <4>5, <4>6
    <3> QED
      BY <3>4, <3>5
  <2> QED
    BY <2>1, <2>2
<1> QED
  BY <1>1, RecordLasts DEF TellInv

\* A session at a relying party whose user logged out is told of it, unless the
\* logout token was lost or came too late, however many logouts run at once; and
\* no logout token goes to a client without such a session.
THEOREM LogoutTokensFindTheirWayHolds == Spec => []LogoutTokensFindTheirWay
<1>1. Init => TellInv
  BY DEF Init, TellInv, NoLogin, NoEnd
<1>2. BaseInv /\ BaseInv' /\ TellInv /\ [Next]_vars => TellInv'
  BY TellStep
<1>3. BaseInv /\ TellInv => LogoutTokensFindTheirWay
  <2> SUFFICES ASSUME BaseInv, TellInv
               PROVE  LogoutTokensFindTheirWay
    OBVIOUS
  <2>1. MailIsAddressed
    BY DEF BaseInv, MailOK, MailIsAddressed
  <2>2. ASSUME NEW e \in Ends, NEW l \in end[e].before,
               end[e].pc = "done", login[l].user = end[e].user, login[l].client \in BackChannelLogoutURI,
               login[l].sid # 0, end[e].sid \in {0, login[l].sid},
               Owned(login[l].user, login[l].client) = {l}
        PROVE  l \notin local \/ (\E m \in mail : m.to = login[l].client) \/ login[l].client \in undelivered
    <3>1. l \in Logins
      BY DEF BaseInv, Shape, EndRec
    <3>2. Sole(l) /\ Asked(e, l)
      BY <2>2 DEF Sole, Asked
    <3> QED
      BY <2>2, <3>1, <3>2 DEF TellInv, Told
  <2>3. LogoutReachesClient
    BY <2>2 DEF LogoutReachesClient
  <2> QED
    BY <2>1, <2>3 DEF LogoutTokensFindTheirWay
<1> QED
  BY <1>1, <1>2, <1>3, BaseInvariance, PTL DEF Spec

\* A relying party ends a session only because that session's user asked for the
\* end of it, or of all his sessions.
THEOREM NoStrayLogoutHolds == Spec => NoStrayLogout
<1> DEFINE OnlyAsked == \A l \in local \ local' :
                          \E e \in Ends : /\ end[e].pc \in {"pushed", "done"}
                                          /\ end[e].user = login[l].user
                                          /\ end[e].sid \in {0, login[l].sid}
<1>1. BaseInv /\ [Next]_vars => OnlyAsked
  <2> SUFFICES ASSUME BaseInv, [Next]_vars, NEW l \in local, l \notin local'
               PROVE  \E e \in Ends : /\ end[e].pc \in {"pushed", "done"}
                                      /\ end[e].user = login[l].user
                                      /\ end[e].sid \in {0, login[l].sid}
    OBVIOUS
  <2>1. PICK m \in mail : BackChannelLogout(m) \/ SendFails(m)
    BY MailElsewhere DEF ReceiveTokens, PostLogout
  <2>2. l \in OnLogout(m)
    BY <2>1, DeliveryKinds
  <2>3. MailOK(m)
    BY DEF BaseInv
  <2> QED
    BY <2>2, <2>3 DEF OnLogout, MailOK
<1>2. BaseInv /\ [Next]_vars => [OnlyAsked]_vars
  BY <1>1
<1> QED
  BY <1>2, BaseInvariance, PTL DEF Spec, NoStrayLogout

=============================================================================
