------------------------------- MODULE Logout -------------------------------
(***************************************************************************)
(* Sessions and their end: login sessions at the provider, the record of   *)
(* which client has a session for which user, the end_session endpoint,    *)
(* logout tokens pushed to the clients' back channels, and the handler     *)
(* that receives them at a relying party.                                  *)
(*                                                                         *)
(* Every section under the storage lock is a step, so logouts run between  *)
(* the steps of token requests.  The session id that login l brings with   *)
(* its request is written l; 0 is an absent one.  Each login gets at most  *)
(* one access and one refresh token at a time, also written l.             *)
(***************************************************************************)
EXTENDS Verifier

CONSTANTS Users, Clients,
          BackChannelLogoutURI,  \* the clients that have registered one
          Logins,                \* 1..n, numbered in the order in which they start
          Ends,                  \* 1..n, end_session requests
          Travel                 \* half seconds from creating a logout token to its verification

VARIABLES login,           \* Logins -> the request and how far it has come
          sessions,        \* Storage.sessions
          clientSessions,  \* Storage.clientSessions: user -> client -> sid
          tokens,          \* logins whose access token is stored
          refreshTokens,   \* logins whose refresh token is stored
          local,           \* logins that are sessions at their relying party
          end,             \* Ends -> the request and how far it has come
          mail,            \* logout tokens on their way
          undelivered,     \* clients for which one was lost or came too late
          logouts          \* user -> number of completed logouts

vars == <<login, sessions, clientSessions, tokens, refreshTokens, local, end, mail, undelivered, logouts>>

Sids == {0} \cup Logins

-----------------------------------------------------------------------------
(* Logging in and getting tokens.                                            *)

NoUser == "none"

\* Logins and end_session requests are numbered from 1 on, and the absent user
\* or client is none of them.
ASSUME LogoutAssumption ==
    /\ NoUser \notin Users \cup Clients
    /\ BackChannelLogoutURI \subseteq Clients
    /\ IsFiniteSet(Logins) /\ Logins = 1..Cardinality(Logins)
    /\ IsFiniteSet(Ends) /\ Ends = 1..Cardinality(Ends)

NoLogin == [pc |-> "none", client |-> NoUser, user |-> NoUser, sid |-> 0, refreshing |-> FALSE]

Authorize(l, c) ==
    /\ login[l].pc = "none"
    /\ \A x \in Logins : x < l => login[x].pc # "none"
    /\ login' = [login EXCEPT ![l].pc = "started", ![l].client = c, ![l].sid = l]
    /\ UNCHANGED <<sessions, clientSessions, tokens, refreshTokens, local, end, mail, undelivered, logouts>>

Complete(l, u, sid) == login' = [login EXCEPT ![l].pc = "completed", ![l].user = u, ![l].sid = sid]

CheckUsernamePassword(l, u) ==
    /\ login[l].pc = "started"
    /\ Complete(l, u, login[l].sid)
    /\ sessions' = {s \in sessions : s.sid # login[l].sid}
                       \cup {[sid |-> login[l].sid, user |-> u, client |-> login[l].client, since |-> logouts[u]]}
    /\ UNCHANGED <<clientSessions, tokens, refreshTokens, local, end, mail, undelivered, logouts>>

\* The accept page names the session id, perhaps one it has used before, and leaves sessions alone.
Accept(l, u, sid) ==
    /\ login[l].pc = "started"
    /\ Complete(l, u, sid)
    /\ UNCHANGED <<sessions, clientSessions, tokens, refreshTokens, local, end, mail, undelivered, logouts>>

\* prompt=none with the cookie of a session of the same client.
SilentLogin(l) ==
    /\ login[l].pc = "started"
    /\ \E s \in sessions : s.client = login[l].client /\ Complete(l, s.user, s.sid)
    /\ UNCHANGED <<sessions, clientSessions, tokens, refreshTokens, local, end, mail, undelivered, logouts>>

\* The code is exchanged, or the callback of an implicit request creates the token.
CreateAccessToken(l) ==
    /\ login[l].pc = "completed"
    /\ tokens' = tokens \cup {l}
    /\ \E next \in {"accessStored", "stored"} : login' = [login EXCEPT ![l].pc = next]
    /\ UNCHANGED <<sessions, clientSessions, refreshTokens, local, end, mail, undelivered, logouts>>

CreateRefreshToken(l) ==
    /\ login[l].pc = "accessStored"
    /\ refreshTokens' = refreshTokens \cup {l}
    /\ login' = [login EXCEPT ![l].pc = "stored"]
    /\ UNCHANGED <<sessions, clientSessions, tokens, local, end, mail, undelivered, logouts>>

\* One entry per user and client: the latest session id.
RecordClientSession(l) ==
    /\ login[l].pc = "stored"
    /\ clientSessions' =
           IF login[l].sid # 0 /\ login[l].client \in BackChannelLogoutURI
           THEN [clientSessions EXCEPT ![login[l].user][login[l].client] = login[l].sid]
           ELSE clientSessions
    /\ login' = [login EXCEPT ![l].pc = "recorded"]
    /\ UNCHANGED <<sessions, tokens, refreshTokens, local, end, mail, undelivered, logouts>>

\* External: the relying party receives the tokens and starts its own session.
ReceiveTokens(l) ==
    /\ login[l].pc = "recorded"
    /\ login' = [login EXCEPT ![l].pc = "done"]
    /\ local' = local \cup {l}
    /\ UNCHANGED <<sessions, clientSessions, tokens, refreshTokens, end, mail, undelivered, logouts>>

\* A refresh reads the refresh token first and stores the new tokens later.
RefreshLookup(l) ==
    /\ login[l].pc = "done"
    /\ l \in refreshTokens
    /\ ~login[l].refreshing
    /\ login' = [login EXCEPT ![l].refreshing = TRUE]
    /\ UNCHANGED <<sessions, clientSessions, tokens, refreshTokens, local, end, mail, undelivered, logouts>>

RefreshStore(l) ==
    /\ login[l].refreshing
    /\ tokens' = tokens \cup {l}
    /\ refreshTokens' = refreshTokens \cup {l}
    /\ login' = [login EXCEPT ![l].refreshing = FALSE]
    /\ UNCHANGED <<sessions, clientSessions, local, end, mail, undelivered, logouts>>

\* What userinfo and introspection answer: a refresh token vouches for its access token.
Active(l) == l \in tokens \/ l \in refreshTokens

-----------------------------------------------------------------------------
(* The end_session endpoint.                                                 *)

NoEnd == [pc |-> "none", client |-> NoUser, user |-> NoUser, sid |-> 0, before |-> {}]

NoHint == [client |-> NoUser, user |-> NoUser, sid |-> 0]

Hint(l) == [client |-> login[l].client, user |-> login[l].user, sid |-> login[l].sid]

\* ID tokens the user may present, expired ones included.
Hints == {NoHint} \cup {Hint(l) : l \in {x \in Logins : login[x].pc = "done"}}

SessionClient(hint, clientID) == IF clientID # NoUser THEN clientID ELSE hint.client

validateEndSessionRequest(hint, clientID, redirect) ==
    /\ clientID # NoUser /\ hint.client # NoUser => clientID = hint.client
    /\ redirect = "foreign" => SessionClient(hint, clientID) = NoUser

(* Logins of a user whose token requests are over; "before" is the set of    *)
(* those that are over when a logout begins and when it ends the session.    *)
Settled(u) == {l \in Logins : login[l].pc = "done" /\ login[l].user = u /\ ~login[l].refreshing}

EndSession(e, hint, clientID, redirect) ==
    /\ end[e].pc = "none"
    /\ \A x \in Ends : x < e => end[x].pc # "none"
    /\ end' = [end EXCEPT ![e] =
           IF validateEndSessionRequest(hint, clientID, redirect)
           THEN [pc |-> "valid", client |-> SessionClient(hint, clientID), user |-> hint.user, sid |-> hint.sid,
                 before |-> Settled(hint.user)]
           ELSE [NoEnd EXCEPT !.pc = "refused"]]
    /\ UNCHANGED <<login, sessions, clientSessions, tokens, refreshTokens, local, mail, undelivered, logouts>>

\* Every client of the user, whatever the session.
MutClientsForSession(u, sid) ==
    {c \in Clients : u # NoUser /\ clientSessions[u][c] # 0}

ClientsForSession(u, sid) ==
    {c \in Clients : u # NoUser /\ clientSessions[u][c] # 0 /\ (sid # 0 => clientSessions[u][c] = sid)}

\* The token names the user only.
MutcreateLogoutToken(u, c, sid) ==
    [to |-> c, user |-> u, sid |-> 0]

createLogoutToken(u, c, sid) ==
    [to |-> c, user |-> u, sid |-> sid]

\* Client sessions are looked up after the one of this client was removed.
MutPostLogout(e) ==
    /\ end[e].pc = "valid"
    /\ mail' = mail \cup {createLogoutToken(end[e].user, c, end[e].sid) :
                              c \in ClientsForSession(end[e].user, end[e].sid) \ {end[e].client}}
    /\ end' = [end EXCEPT ![e].pc = "pushed"]
    /\ UNCHANGED <<login, sessions, clientSessions, tokens, refreshTokens, local, undelivered, logouts>>

PostLogout(e) ==
    /\ end[e].pc = "valid"
    /\ mail' = mail \cup {createLogoutToken(end[e].user, c, end[e].sid) :
                              c \in ClientsForSession(end[e].user, end[e].sid)}
    /\ end' = [end EXCEPT ![e].pc = "pushed"]
    /\ UNCHANGED <<login, sessions, clientSessions, tokens, refreshTokens, local, undelivered, logouts>>

Owned(u, c) == {l \in Logins : login[l].user = u /\ login[l].client = c}

\* Only the sessions of the client that asked are removed.
MutRemainingSessions(u, c) == {s \in sessions : s.user # u \/ s.client # c}

\* All sessions of the user go, whichever client they belong to.
RemainingSessions(u, c) == {s \in sessions : s.user # u}

\* Refresh tokens are left to expire.
MutRemainingRefreshTokens(u, c) == refreshTokens

RemainingRefreshTokens(u, c) == refreshTokens \ Owned(u, c)

TerminateSession(e) ==
    LET u == end[e].user
        c == end[e].client
    IN /\ end[e].pc = "pushed"
       /\ sessions' = RemainingSessions(u, c)
       /\ tokens' = tokens \ Owned(u, c)
       /\ refreshTokens' = RemainingRefreshTokens(u, c)
       /\ clientSessions' = [x \in Users |-> [y \in Clients |->
                                 IF x = u /\ y = c THEN 0 ELSE clientSessions[x][y]]]
       /\ logouts' = [x \in Users |-> IF x = u THEN logouts[x] + 1 ELSE logouts[x]]
       /\ end' = [end EXCEPT ![e].pc = "done", ![e].before = @ \cap Settled(u)]
       /\ UNCHANGED <<login, local, mail, undelivered>>

-----------------------------------------------------------------------------
(* The back channel.                                                         *)

\* createLogoutToken's claims, created at time 20 with a lifetime of 5 (minutes, there).
LogoutToken(m) ==
    [parts |-> 3, jwe |-> FALSE, iss |-> "op", aud |-> {m.to}, sub |-> m.user,
     sid |-> IF m.sid = 0 THEN Absent ELSE "sid", iat |-> FromTime(20), exp |-> FromTime(20 + 5 * Second),
     alg |-> "RS256", key |-> "k", event |-> TRUE, nonce |-> Absent]

LogoutVerifier(c) == [issuer |-> "op", client |-> c, keySet |-> {"k"}, algs |-> {}]

\* External: the application's callback ends the sessions the token is about.
OnLogout(m) ==
    {l \in local : login[l].client = m.to /\ login[l].user = m.user /\ m.sid \in {0, login[l].sid}}

BackChannelLogout(m) ==
    /\ mail' = mail \ {m}
    /\ \E t \in Travel :
          IF VerifyLogoutToken(LogoutToken(m), LogoutVerifier(m.to), 20 + t)
          THEN local' = local \ OnLogout(m) /\ UNCHANGED undelivered
          ELSE undelivered' = undelivered \cup {m.to} /\ UNCHANGED local
    /\ UNCHANGED <<login, sessions, clientSessions, tokens, refreshTokens, end, logouts>>

\* sendLogoutToken tries once.
SendFails(m) ==
    /\ mail' = mail \ {m}
    /\ undelivered' = undelivered \cup {m.to}
    /\ UNCHANGED <<login, sessions, clientSessions, tokens, refreshTokens, local, end, logouts>>

Init ==
    /\ login = [l \in Logins |-> NoLogin]
    /\ sessions = {}
    /\ clientSessions = [u \in Users |-> [c \in Clients |-> 0]]
    /\ tokens = {} /\ refreshTokens = {}
    /\ local = {}
    /\ end = [e \in Ends |-> NoEnd]
    /\ mail = {}
    /\ undelivered = {}
    /\ logouts = [u \in Users |-> 0]

Next ==
    \/ \E l \in Logins :
          \/ \E c \in Clients : Authorize(l, c)
          \/ \E u \in Users : CheckUsernamePassword(l, u) \/ \E sid \in 0..l : Accept(l, u, sid)
          \/ SilentLogin(l) \/ CreateAccessToken(l) \/ CreateRefreshToken(l) \/ RecordClientSession(l)
          \/ ReceiveTokens(l) \/ RefreshLookup(l) \/ RefreshStore(l)
    \/ \E e \in Ends :
          \/ \E hint \in Hints, clientID \in Clients \cup {NoUser}, redirect \in {"none", "registered", "foreign"} :
                EndSession(e, hint, clientID, redirect)
          \/ PostLogout(e) \/ TerminateSession(e)
    \/ \E m \in mail : BackChannelLogout(m) \/ SendFails(m)

Spec == Init /\ [][Next]_vars

-----------------------------------------------------------------------------
(* The state components, and: the provider remembers client sessions only    *)
(* for clients with a back channel and under a session id of theirs.         *)
TypeOK ==
    /\ login \in [Logins -> [pc : {"none", "started", "completed", "accessStored", "stored", "recorded", "done"},
                             client : Clients \cup {NoUser}, user : Users \cup {NoUser}, sid : Sids,
                             refreshing : BOOLEAN]]
    /\ sessions \subseteq [sid : Logins, user : Users, client : Clients, since : 0..Cardinality(Ends)]
    /\ clientSessions \in [Users -> [Clients -> Sids]]
    /\ \A u \in Users, c \in Clients : clientSessions[u][c] # 0 =>
          c \in BackChannelLogoutURI /\ \E l \in Owned(u, c) : login[l].sid = clientSessions[u][c]
    /\ tokens \subseteq Logins /\ refreshTokens \subseteq Logins /\ local \subseteq Logins
    /\ \A e \in Ends : end[e].pc \in {"none", "refused", "valid", "pushed", "done"}
    /\ mail \subseteq [to : BackChannelLogoutURI, user : Users, sid : Sids]
    /\ undelivered \subseteq BackChannelLogoutURI

(* The session of a relying party that was recorded before its user logged    *)
(* out is told: it is over, or its logout token is on the way or was lost.    *)
(* PostLogout must read the client sessions before TerminateSession removes   *)
(* them, also when several logouts run.  Logins of the same user at the same  *)
(* client overwrite each other's record and are left out.                     *)
LogoutReachesClient ==
    \A e \in Ends : \A l \in end[e].before :
        /\ end[e].pc = "done"
        /\ login[l].user = end[e].user
        /\ login[l].client \in BackChannelLogoutURI
        /\ login[l].sid # 0 /\ end[e].sid \in {0, login[l].sid}
        /\ Owned(login[l].user, login[l].client) = {l}
        => \/ l \notin local
           \/ \E m \in mail : m.to = login[l].client
           \/ login[l].client \in undelivered

(* A relying party ends a session only if that user asked for the end of      *)
(* that session, or of all of them: a logout token names the hint's session.  *)
NoStrayLogout ==
    [][\A l \in local \ local' :
          \E e \in Ends : /\ end[e].pc \in {"pushed", "done"}
                          /\ end[e].user = login[l].user
                          /\ end[e].sid \in {0, login[l].sid}]_vars

(* Logout tokens go to clients that have a session under the hint's id; the   *)
(* record of another session does not attract one.                            *)
MailIsAddressed ==
    \A m \in mail : \E l \in Owned(m.user, m.to) : m.sid \in {0, login[l].sid}

(* prompt=none finds no session from before the user's last logout, at        *)
(* whichever client that was (TerminateSession, session.go).                  *)
SilentOnlyAfterLogin == \A s \in sessions : s.since = logouts[s.user]

(* An access token that was issued before a logout of its user at its client, *)
(* and not refreshed while the logout ran, is not active afterwards; the      *)
(* refresh token through which introspection would still find it is gone too. *)
LoggedOutTokensDead ==
    \A e \in Ends :
        end[e].pc = "done" =>
            \A l \in Owned(end[e].user, end[e].client) : l \in end[e].before => ~Active(l)

(* Logout tokens find the client whose session ends and nobody else.          *)
LogoutTokensFindTheirWay == LogoutReachesClient /\ MailIsAddressed

(* After a logout nothing of it lives on at the provider: no session that     *)
(* prompt=none would use, no token that introspection would call active.      *)
LoggedOutIsOver == TypeOK /\ SilentOnlyAfterLogin /\ LoggedOutTokensDead
=============================================================================
