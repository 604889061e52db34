--------------------------- MODULE TokenEndpoint ---------------------------
(***************************************************************************)
(* The life of an authorization code and of the tokens that descend from   *)
(* it: the authorization plugin completes a request and mints codes, the   *)
(* token plugin exchanges codes and refresh tokens, the revocation plugin  *)
(* revokes, all against one OPStorage.                                      *)
(*                                                                         *)
(* net/http runs every request in a goroutine of its own.  Procs are those *)
(* goroutines, for the handlers that call the storage more than once: a    *)
(* token request moves through program counters, one per storage call that *)
(* changes state, and any other request may run between two of them.  The  *)
(* handlers whose last storage call alone decides what changes are single  *)
(* actions.  A goroutine that has answered is idle and serves again.       *)
(***************************************************************************)
EXTENDS OPStorage

CONSTANTS
  Procs,                  \* concurrent token-endpoint requests
  RefreshClients,         \* clients with the refresh_token grant type
  PublicClients,          \* clients with AuthMethod none
  PairwiseClients,        \* clients for which IsPairwiseClient holds
  ResourceClients,        \* clients that send resource indicators (RFC 8707)
  Hints,                  \* token_type_hint values sent with access tokens
  LoginForm,              \* the example's username/password form is mounted
  InvalidateRefreshOnUse  \* token.Config.InvalidateRefreshOnUse

ASSUME EndpointAssumption ==
  /\ Nil \notin Procs
  /\ RefreshClients \subseteq Clients
  /\ PublicClients \subseteq Clients
  /\ PairwiseClients \subseteq Clients
  /\ ResourceClients \subseteq Clients
  /\ Hints \subseteq {"access_token", "none"}
  /\ LoginForm \in BOOLEAN
  /\ InvalidateRefreshOnUse \in BOOLEAN

VARIABLES
  proc,       \* what each token request is doing, with its local variables
  delivered,  \* history: access tokens a client has received in a response
  tracked,    \* history: access tokens TrackTokenForAuthRequest was called for
  doomed,     \* history: tracked tokens of a code at the time of its replay
  rotated,    \* history: refresh tokens exchanged to the end with rotation on
  revoked,    \* history: refresh tokens revoked at the revocation endpoint
  ackRevoked  \* history: access tokens whose revocation was answered with 200

histVars == <<delivered, tracked, doomed, rotated, revoked, ackRevoked>>
vars == <<storeVars, proc, histVars>>

-----------------------------------------------------------------------------
(* Goroutines *)

\* Where a token request stands: the next storage call it makes.
\*   revoke     RevokeTokensForUsedCode, after AuthRequestByCode failed
\*   narrow     SetCurrentScopes, a refresh request with a scope parameter
\*   createAT   createAccessToken          createRT  createRefreshToken
\*   rotate     deletion of the old refresh token
\*   respond    ID token, response, RecordClientSession
\*   track      TrackTokenForAuthRequest   delete    DeleteAuthRequest
PCs == {"idle", "revoke", "narrow", "createAT", "createRT", "rotate",
        "respond", "track", "delete"}

Proc == [pc : PCs, code : Codes \cup {Nil}, req : ReqIDs \cup {Nil},
         rt : RTs \cup {Nil}, client : Clients \cup {Nil},
         jkt : Keys \cup {Nil}, scopes : SUBSET Scopes, at : ATs \cup {Nil}]

Idle == [pc |-> "idle", code |-> Nil, req |-> Nil, rt |-> Nil, client |-> Nil,
         jkt |-> Nil, scopes |-> {}, at |-> Nil]

TypeOK ==
  /\ StorageTypeOK
  /\ proc \in [Procs -> Proc]
  /\ delivered \subseteq ATs
  /\ tracked \subseteq ATs
  /\ doomed \subseteq ATs
  /\ rotated \subseteq RTs
  /\ revoked \subseteq RTs
  /\ ackRevoked \subseteq ATs

Init ==
  /\ StorageInit
  /\ proc = [p \in Procs |-> Idle]
  /\ delivered = {}
  /\ tracked = {}
  /\ doomed = {}
  /\ rotated = {}
  /\ revoked = {}
  /\ ackRevoked = {}

At(p, pc) == proc[p].pc = pc
Goto(p, pc) == proc' = [proc EXCEPT ![p].pc = pc]
Answer(p) == proc' = [proc EXCEPT ![p] = Idle]

\* Bound of the model, not of the program: the pools ATs and RTs are finite, so
\* a request is taken on only if the ones under way leave identifiers for it.
Room(cl) ==
  LET due(pcs) == {p \in Procs : proc[p].pc \in pcs} IN
  /\ Cardinality(FreshATs) > Cardinality(due({"narrow", "createAT"}))
  /\ cl \in RefreshClients =>
       Cardinality(FreshRTs) > Cardinality(due({"narrow", "createAT", "createRT"}))

-----------------------------------------------------------------------------
(* Authorization endpoint and login *)

\* handleAuthorize once every check has passed: the request is stored with its
\* DPoP binding (k = Nil: no dpop_jkt parameter).
Authorize(r, c, s, k) ==
  /\ r \in FreshReqs
  /\ CreateAuthRequest(r, c, s, k)
  /\ UNCHANGED <<codeVars, tokenVars, rtVars, codeTokens, clientSessions,
                 proc, histVars>>

\* handleAccept: the login UI reports the user.  Its Done check is repeated by
\* CompleteAuthRequest under the lock.  The UI may pass an empty sid.
Accept(r, u, hasSid) ==
  /\ CompleteAuthRequest(r, u, hasSid)
  /\ UNCHANGED <<codeVars, tokenVars, rtVars, codeTokens, clientSessions,
                 proc, histVars>>

\* loginHandler's POST /username with correct credentials.
Login(r, u) ==
  /\ LoginForm
  /\ CheckUsernamePassword(r, u)
  /\ UNCHANGED <<codeVars, tokenVars, rtVars, codeTokens, clientSessions,
                 proc, histVars>>

\* handleCallback for a completed request with response_type code: each visit
\* mints another code (a request deleted meanwhile makes SaveAuthCode fail).
Callback(r, c) ==
  /\ c \in FreshCodes
  /\ r \in authRequests
  /\ reqData[r].done
  /\ SaveAuthCode(r, c)
  /\ UNCHANGED <<reqVars, tokenVars, rtVars, codeTokens, clientSessions,
                 proc, histVars>>

\* authCodeTTL elapses for a live code.
CodeAges(c) ==
  /\ codeToAuthReq[c] # Nil
  /\ c \notin staleCodes
  /\ staleCodes' = staleCodes \cup {c}
  /\ UNCHANGED <<authCodes, codeToAuthReq, usedCodes, codeUser, reqVars,
                 tokenVars, rtVars, codeTokens, clientSessions, proc, histVars>>

-----------------------------------------------------------------------------
(* handleAuthorizationCode up to the first token *)

\* AuthRequestByCode finds no usable code (first two) or an expired one.
RedeemUnknown(p, c) ==
  /\ At(p, "idle")
  /\ c \notin FreshCodes
  /\ CodeUnknown(c) \/ CodeOrphaned(c)
  /\ proc' = [proc EXCEPT ![p] = [Idle EXCEPT !.pc = "revoke", !.code = c]]
  /\ UNCHANGED <<storeVars, histVars>>

RedeemExpired(p, c) ==
  /\ At(p, "idle")
  /\ CodeExpired(c)
  /\ DropExpiredCode(c)
  /\ proc' = [proc EXCEPT ![p] = [Idle EXCEPT !.pc = "revoke", !.code = c]]
  /\ UNCHANGED <<reqVars, tokenVars, rtVars, codeTokens, clientSessions, histVars>>

\* The code is consumed and a later check fails: client authentication, rate
\* limit, client id, grant type, redirect_uri, PKCE or DPoP.
RedeemRejected(p, c) ==
  /\ At(p, "idle")
  /\ CodeRedeemable(c)
  /\ ConsumeCode(c)
  /\ UNCHANGED <<reqVars, tokenVars, rtVars, codeTokens, clientSessions,
                 proc, histVars>>

\* verifyDPoPCodeBinding: a bound code needs a proof of the same key.
\* Mutant: any DPoP proof satisfies the binding.
MutCodeBindingAccepts(r, k) == dpopJKTs[r] # Nil => k # Nil

CodeBindingAccepts(r, k) == dpopJKTs[r] # Nil => k = dpopJKTs[r]

\* Mutant: the authenticated client is not compared with the code's client.
MutRedeemAccepted(p, c, cl, k) ==
  /\ At(p, "idle")
  /\ Room(cl)
  /\ CodeRedeemable(c)
  /\ ConsumeCode(c)
  /\ LET r == codeToAuthReq[c] IN
       /\ CodeBindingAccepts(r, k)
       /\ proc' = [proc EXCEPT ![p] = [Idle EXCEPT !.pc = "createAT",
                     !.code = c, !.req = r, !.client = cl, !.jkt = k]]
  /\ UNCHANGED <<reqVars, tokenVars, rtVars, codeTokens, clientSessions, histVars>>

\* The code is consumed and every check passes for client cl, which presents a
\* DPoP proof of key k (Nil: none).
RedeemAccepted(p, c, cl, k) ==
  /\ At(p, "idle")
  /\ Room(cl)
  /\ CodeRedeemable(c)
  /\ ConsumeCode(c)
  /\ LET r == codeToAuthReq[c] IN
       /\ cl = reqData[r].client
       /\ CodeBindingAccepts(r, k)
       /\ proc' = [proc EXCEPT ![p] = [Idle EXCEPT !.pc = "createAT",
                     !.code = c, !.req = r, !.client = cl, !.jkt = k]]
  /\ UNCHANGED <<reqVars, tokenVars, rtVars, codeTokens, clientSessions, histVars>>

\* The error path of a failed lookup: tokens of a used code are revoked.
DetectReplay(p) ==
  LET c == proc[p].code IN
  /\ At(p, "revoke")
  /\ RevokeTokensForUsedCode(c)
  /\ doomed' = IF usedCodes[c] # Nil
                 THEN doomed \cup {t \in tracked : /\ tokData[t].code = c
                                                   /\ tokData[t].rt = Nil}
                 ELSE doomed
  /\ Answer(p)
  /\ UNCHANGED <<codeVars, reqVars, clientSessions, delivered, tracked, rotated,
                 revoked, ackRevoked>>

-----------------------------------------------------------------------------
(* handleRefreshToken up to the first token *)

\* Proof of possession for a DPoP-bound refresh token: a public client must
\* prove the same key, a confidential client any key.
RefreshBindingAccepts(f, cl, k) ==
  rtData[f].jkt # Nil => /\ k # Nil
                         /\ cl \in PublicClients => k = rtData[f].jkt

\* Mutant: any registered scope may be asked for.
MutScopesAllowed(f, s) == s \subseteq Scopes

\* validateRefreshScopes: a refresh may only narrow.
ScopesAllowed(f, s) == s \subseteq rtData[f].scopes

\* A client presents a refresh token it has received, that is, one issued
\* together with an access token it has received.  The request passes the
\* checks that come before the scope parameter (client authentication,
\* grant type, client id) and asks for scopes s (empty: none given, so the
\* proof of possession is checked at once).
PresentRefreshToken(p, f, cl, k, s) ==
  /\ At(p, "idle")
  /\ Room(cl)
  /\ f \in refreshTokens
  /\ rtData[f].at \in delivered
  /\ cl = rtData[f].client
  /\ cl \in RefreshClients
  /\ ScopesAllowed(f, s)
  /\ s = {} => RefreshBindingAccepts(f, cl, k)
  /\ proc' = [proc EXCEPT ![p] =
       [Idle EXCEPT !.pc = IF s = {} THEN "createAT" ELSE "narrow",
                    !.code = rtData[f].code, !.rt = f, !.client = cl,
                    !.jkt = k, !.scopes = s]]
  /\ UNCHANGED <<storeVars, histVars>>

\* validateRefreshScopes stores the requested scopes in place of the old ones.
\* The write is not under s.lock and precedes the proof-of-possession check.
NarrowScopes(p) ==
  LET f == proc[p].rt IN
  /\ At(p, "narrow")
  /\ SetCurrentScopes(f, proc[p].scopes)
  /\ IF RefreshBindingAccepts(f, proc[p].client, proc[p].jkt)
       THEN Goto(p, "createAT")
       ELSE Answer(p)
  /\ UNCHANGED <<codeVars, reqVars, tokenVars, codeTokens, clientSessions, histVars>>

-----------------------------------------------------------------------------
(* createTokenResponseFromTokenRequest *)

\* applyPairwise: one application of the client's HMAC.
applyPairwise(cl, sub) ==
  IF cl \in PairwiseClients THEN [sub EXCEPT !.hops = @ + 1] ELSE sub

\* What GetClientID, GetSubject and GetScopes of the request object return now:
\* the object is the stored AuthRequest or RefreshToken, read through a pointer.
GrantClient(p) ==
  IF proc[p].rt = Nil THEN reqData[proc[p].req].client ELSE rtData[proc[p].rt].client
GrantSubject(p) ==
  IF proc[p].rt = Nil THEN [user |-> reqData[proc[p].req].user, hops |-> 0]
                      ELSE rtData[proc[p].rt].subject
GrantScopes(p) ==
  IF proc[p].rt = Nil THEN reqData[proc[p].req].scopes ELSE rtData[proc[p].rt].scopes

\* Mutant: the storage call may be repeated after it has succeeded.
MutCreateAccessToken(p, t) ==
  /\ At(p, "createAT")
  /\ t \in FreshATs
  /\ PutToken(t, [client |-> GrantClient(p),
                  subject |-> applyPairwise(proc[p].client, GrantSubject(p)),
                  scopes |-> GrantScopes(p), jkt |-> proc[p].jkt,
                  by |-> proc[p].client, code |-> proc[p].code,
                  rt |-> proc[p].rt])
  /\ \E pc \in {"createAT", "respond"} : proc' = [proc EXCEPT ![p].at = t, ![p].pc = pc]
  /\ UNCHANGED <<codeVars, reqVars, rtVars, codeTokens, clientSessions, histVars>>

CreateAccessToken(p, t) ==
  /\ At(p, "createAT")
  /\ t \in FreshATs
  /\ PutToken(t, [client |-> GrantClient(p),
                  subject |-> applyPairwise(proc[p].client, GrantSubject(p)),
                  scopes |-> GrantScopes(p), jkt |-> proc[p].jkt,
                  by |-> proc[p].client, code |-> proc[p].code,
                  rt |-> proc[p].rt])
  /\ proc' = [proc EXCEPT ![p].at = t,
                ![p].pc = IF proc[p].client \in RefreshClients THEN "createRT"
                                                               ELSE "respond"]
  /\ UNCHANGED <<codeVars, reqVars, rtVars, codeTokens, clientSessions, histVars>>

\* Mutant: the old refresh token is deleted even when none was given.
MutCreateRefreshToken(p, f) ==
  /\ At(p, "createRT")
  /\ f \in FreshRTs
  /\ PutRefreshToken(f, [client |-> GrantClient(p), subject |-> GrantSubject(p),
                         scopes |-> GrantScopes(p), jkt |-> proc[p].jkt,
                         at |-> proc[p].at, code |-> proc[p].code])
  /\ Goto(p, IF InvalidateRefreshOnUse THEN "rotate" ELSE "respond")
  /\ UNCHANGED <<codeVars, reqVars, tokenVars, codeTokens, clientSessions, histVars>>

\* The pairwise wrapper fixed its subject before the access token was created;
\* otherwise the request object is read a second time.
CreateRefreshToken(p, f) ==
  /\ At(p, "createRT")
  /\ f \in FreshRTs
  /\ PutRefreshToken(f, [client |-> GrantClient(p),
                         subject |-> IF proc[p].client \in PairwiseClients
                                       THEN tokData[proc[p].at].subject
                                       ELSE GrantSubject(p),
                         scopes |-> GrantScopes(p), jkt |-> proc[p].jkt,
                         at |-> proc[p].at, code |-> proc[p].code])
  /\ Goto(p, IF proc[p].rt # Nil /\ InvalidateRefreshOnUse THEN "rotate"
                                                           ELSE "respond")
  /\ UNCHANGED <<codeVars, reqVars, tokenVars, codeTokens, clientSessions, histVars>>

\* Mutant: the old refresh token is not deleted.
MutRotate(p) ==
  /\ At(p, "rotate")
  /\ rotated' = rotated \cup {proc[p].rt}
  /\ Goto(p, "respond")
  /\ UNCHANGED <<storeVars, delivered, tracked, doomed, revoked, ackRevoked>>

\* The third lock section of CreateAccessAndRefreshTokens.
Rotate(p) ==
  /\ At(p, "rotate")
  /\ DropRefreshToken(proc[p].rt)
  /\ rotated' = rotated \cup {proc[p].rt}
  /\ Goto(p, "respond")
  /\ UNCHANGED <<codeVars, reqVars, tokenVars, codeTokens, clientSessions,
                 delivered, tracked, doomed, revoked, ackRevoked>>

\* A code exchange records the client's session when the request object is
\* still an AuthRequest (neither wrapper was applied) with a sid.
Respond(p) ==
  LET r == proc[p].req IN
  /\ At(p, "respond")
  /\ IF proc[p].rt = Nil
       THEN /\ IF reqData[r].sid /\ proc[p].client \notin PairwiseClients \cup ResourceClients
                 THEN RecordClientSession(reqData[r].user, proc[p].client, r)
                 ELSE UNCHANGED clientSessions
            /\ Goto(p, "track")
            /\ UNCHANGED delivered
       ELSE /\ Answer(p)
            /\ delivered' = delivered \cup {proc[p].at}
            /\ UNCHANGED clientSessions
  /\ UNCHANGED <<codeVars, reqVars, tokenVars, rtVars, codeTokens,
                 tracked, doomed, rotated, revoked, ackRevoked>>

\* Encrypting the access token or signing the ID token fails after the tokens
\* were stored: the request is answered with an error and nothing is undone.
RespondFails(p) ==
  /\ At(p, "respond")
  /\ Answer(p)
  /\ UNCHANGED <<storeVars, histVars>>

-----------------------------------------------------------------------------
(* The end of handleAuthorizationCode *)

TrackToken(p) ==
  /\ At(p, "track")
  /\ TrackTokenForAuthRequest(proc[p].req, proc[p].at)
  /\ tracked' = tracked \cup {proc[p].at}
  /\ Goto(p, "delete")
  /\ UNCHANGED <<codeVars, reqVars, tokenVars, rtVars, clientSessions,
                 delivered, doomed, rotated, revoked, ackRevoked>>

\* DeleteAuthRequest and the response.
FinishExchange(p) ==
  /\ At(p, "delete")
  /\ DeleteAuthRequest(proc[p].req)
  /\ Answer(p)
  /\ delivered' = delivered \cup {proc[p].at}
  /\ UNCHANGED <<tokenVars, rtVars, codeTokens, clientSessions,
                 tracked, doomed, rotated, revoked, ackRevoked>>

-----------------------------------------------------------------------------
(* Revocation endpoint *)

\* The access token string a client holds: base64url over the ciphertext of
\* "tokenID:subject".
OpaqueToken(t) == <<"base64url", <<"cipher", t>>>>

\* Decrypt authenticates (AES-GCM): only a ciphertext opens.
Decrypt(x) == IF x[1] = "cipher" THEN x[2] ELSE Nil

\* resolveTokenForRevocation hands the string to Decrypt without decoding it;
\* opaque tokens are no JWTs, so the fallback finds nothing either.
resolveTokenForRevocation(x) == Decrypt(x)

\* Mutant: the access token issued with the refresh token survives.
MutRevokeRefresh(f, cl) ==
  /\ f \in refreshTokens
  /\ rtData[f].at \in delivered
  /\ cl = rtData[f].client
  /\ DropRefreshToken(f)
  /\ revoked' = revoked \cup {f}
  /\ UNCHANGED <<codeVars, reqVars, tokenVars, codeTokens, clientSessions, proc,
                 delivered, tracked, doomed, rotated, ackRevoked>>

\* handle with a refresh token of the authenticated client cl (another
\* client's token is refused, an unknown one changes nothing).
RevokeRefresh(f, cl) ==
  /\ f \in refreshTokens
  /\ rtData[f].at \in delivered
  /\ cl = rtData[f].client
  /\ RevokeRefreshToken(f)
  /\ revoked' = revoked \cup {f}
  /\ UNCHANGED <<codeVars, reqVars, codeTokens, clientSessions, proc,
                 delivered, tracked, doomed, rotated, ackRevoked>>

\* handle with the access token string of t and token_type_hint=access_token,
\* answered with 200.  Without the hint GetRefreshTokenInfo's error is not
\* ErrInvalidRefreshToken and the request ends in server_error.
RevokeAccess(t, cl) ==
  /\ "access_token" \in Hints
  /\ t \in delivered
  /\ cl = tokData[t].client
  /\ RevokeAccessToken(resolveTokenForRevocation(OpaqueToken(t)))
  /\ ackRevoked' = ackRevoked \cup {t}
  /\ UNCHANGED <<codeVars, reqVars, codeTokens, clientSessions, proc,
                 delivered, tracked, doomed, rotated, revoked>>

-----------------------------------------------------------------------------
AuthorizationStep ==
  \/ \E r \in ReqIDs, c \in Clients, s \in SUBSET Scopes, k \in Keys \cup {Nil} :
       Authorize(r, c, s, k)
  \/ \E r \in ReqIDs, u \in Users, hasSid \in BOOLEAN : Accept(r, u, hasSid)
  \/ \E r \in ReqIDs, u \in Users : Login(r, u)
  \/ \E r \in ReqIDs, c \in Codes : Callback(r, c)
  \/ \E c \in Codes : CodeAges(c)

CodeExchangeStep(p) ==
  \/ \E c \in Codes : RedeemUnknown(p, c)
  \/ \E c \in Codes : RedeemExpired(p, c)
  \/ \E c \in Codes : RedeemRejected(p, c)
  \/ \E c \in Codes, cl \in Clients, k \in Keys \cup {Nil} : RedeemAccepted(p, c, cl, k)
  \/ DetectReplay(p)
  \/ TrackToken(p)
  \/ FinishExchange(p)

RefreshStep(p) ==
  \/ \E f \in RTs, cl \in Clients, k \in Keys \cup {Nil}, s \in SUBSET Scopes :
       PresentRefreshToken(p, f, cl, k, s)
  \/ NarrowScopes(p)
  \/ Rotate(p)

IssueStep(p) ==
  \/ \E t \in ATs : CreateAccessToken(p, t)
  \/ \E f \in RTs : CreateRefreshToken(p, f)
  \/ Respond(p)
  \/ RespondFails(p)

RevocationStep ==
  \/ \E f \in RTs, cl \in Clients : RevokeRefresh(f, cl)
  \/ \E t \in ATs, cl \in Clients : RevokeAccess(t, cl)

Next ==
  \/ AuthorizationStep
  \/ \E p \in Procs : CodeExchangeStep(p) \/ RefreshStep(p) \/ IssueStep(p)
  \/ RevocationStep

Spec == Init /\ [][Next]_vars

-----------------------------------------------------------------------------
(* Safety *)

Issued == {t \in ATs : tokData[t] # Nil}

\* An authorization code buys at most one access token, however many requests
\* present it at the same time (AuthRequestByCode consumes it under the lock).
CodeSingleUse ==
  \A t1, t2 \in Issued :
    /\ tokData[t1].rt = Nil
    /\ tokData[t2].rt = Nil
    /\ tokData[t1].code = tokData[t2].code
    => t1 = t2

\* The authorization request a code was minted for: a code is in exactly one of
\* the two maps until it expires.
RequestOfCode(c) == IF codeToAuthReq[c] # Nil THEN codeToAuthReq[c] ELSE usedCodes[c]

\* A whole lineage stays with the client and within the scopes of the
\* authorization request at its root, through refreshes, narrowing races and
\* deletion of the request: each token was issued to the authenticated client
\* that the request named, and carries no scope the request did not have.
LineageFaithful ==
  \A t \in Issued :
    LET r == RequestOfCode(tokData[t].code) IN
      /\ r # Nil
      /\ tokData[t].client = reqData[r].client
      /\ tokData[t].by = reqData[r].client
      /\ tokData[t].scopes \subseteq reqData[r].scopes

\* Every token of a lineage names the user for whom the code was minted, with
\* one and the same sub value per client: the bare identifier, or one pairwise
\* transformation of it.
SubjectStable ==
  \A t \in Issued :
    tokData[t].subject =
      [user |-> codeUser[tokData[t].code],
       hops |-> IF tokData[t].client \in PairwiseClients THEN 1 ELSE 0]

\* A public client that started with a DPoP-bound code never holds a token of
\* that lineage bound to another key, or to none.
DPoPContinuity ==
  \A t \in Issued :
    LET k == dpopJKTs[RequestOfCode(tokData[t].code)] IN
      k # Nil /\ tokData[t].client \in PublicClients => tokData[t].jkt = k

\* Once the replay of a code has been detected, the tokens its exchange had
\* recorded by then, and the refresh tokens issued with them, are gone for good.
ReplayRevokesTracked ==
  \A t \in doomed : ~Active(t)

\* With rotation on, a refresh token that has been exchanged to the end is
\* never accepted again.
RotatedIsDead == rotated \cap refreshTokens = {}

\* A revoked refresh token and the access token issued with it stay inactive.
RevokedStaysInactive ==
  \A f \in revoked : f \notin refreshTokens /\ ~Active(rtData[f].at)

-----------------------------------------------------------------------------
(* The abstract specification *)

CodeStatus(c) ==
  CASE c \in FreshCodes       -> "unknown"
    [] codeToAuthReq[c] # Nil -> "live"
    [] usedCodes[c] # Nil     -> "spent"
    [] OTHER                  -> "lapsed"

CodeHolder(c) == IF RequestOfCode(c) = Nil THEN Nil ELSE reqData[RequestOfCode(c)].client

GrantOf(t) ==
  IF tokData[t] = Nil THEN Nil
  ELSE [code |-> tokData[t].code, client |-> tokData[t].by, root |-> tokData[t].rt = Nil]

\* No record is Go's nil.
ASSUME GrantAssumption ==
  \A c \in Codes, cl \in Clients, root \in BOOLEAN :
    [code |-> c, client |-> cl, root |-> root] # Nil

CodeGrantSpec == INSTANCE CodeGrant WITH
  status <- [c \in Codes |-> CodeStatus(c)],
  holder <- [c \in Codes |-> CodeHolder(c)],
  grants <- [t \in ATs |-> GrantOf(t)]

\* The endpoints and the storage, with all their requests in flight, implement
\* the code grant: whatever two requests do to the maps codeToAuthReq,
\* usedCodes and authCodes between them, a code leaves circulation once, only
\* a spent code brings a first token, it brings one, and the token's client is
\* the one the code was minted for (storage/auth.go:49-151).
ImplementsCodeGrant == CodeGrantSpec!Spec
=============================================================================
