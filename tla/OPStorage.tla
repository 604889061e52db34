----------------------------- MODULE OPStorage -----------------------------
(***************************************************************************)
(* The provider's storage as the token, authorization, revocation and      *)
(* introspection plugins see it: example/storm-server/storage, the         *)
(* repository's implementation of AuthStore, TokenStore, RevocationStore,  *)
(* CodeReuseDetector and DPoPCodeBindingStore.                              *)
(*                                                                         *)
(* Every method takes the one mutex s.lock for its whole body, so every    *)
(* method is one atomic operator here.  Methods that lock more than once   *)
(* (CreateAccessAndRefreshTokens) are several operators, and the callers   *)
(* in TokenEndpoint take them in separate steps.                           *)
(*                                                                         *)
(* A Go map of pointers is modelled as the set of its keys together with a *)
(* function from key to the object: deleting a key leaves the object       *)
(* alive for a request that still holds the pointer, and an object that    *)
(* exists is never allocated again (uuid.NewString).                       *)
(***************************************************************************)
EXTENDS Naturals, FiniteSets

CONSTANTS
  ReqIDs,           \* authorization request ids
  Codes,            \* authorization codes (ciphertexts of a request id)
  ATs,              \* access token ids
  RTs,              \* refresh token ids
  Clients,          \* registered clients
  Users,            \* end users
  Keys,             \* DPoP key thumbprints (jkt)
  Scopes,           \* scopes a request may carry
  LogoutClients,    \* clients with a backchannel_logout_uri
  Nil               \* Go's nil, "" and a missing map key

ASSUME StorageAssumption ==
  /\ Nil \notin ReqIDs \cup Codes \cup ATs \cup RTs \cup Clients
               \cup Users \cup Keys
  /\ LogoutClients \subseteq Clients

VARIABLES
  authRequests,     \* keys of s.authRequests
  reqData,          \* the *AuthRequest objects
  authCodes,        \* s.authCodes: request id -> its latest code
  codeToAuthReq,    \* s.codeToAuthReq: code -> request id
  usedCodes,        \* s.usedCodes: code -> request id
  staleCodes,       \* codes whose s.codeCreatedAt is older than authCodeTTL
  codeTokens,       \* s.codeTokens: request id -> access tokens issued for it
  dpopJKTs,         \* s.dpopJKTs: request id -> key the code is bound to
  tokens,           \* keys of s.tokens
  tokData,          \* the *Token objects
  refreshTokens,    \* keys of s.refreshTokens
  rtData,           \* the *RefreshToken objects
  clientSessions,   \* s.clientSessions: subject, client -> sid
  codeUser          \* history: the user for whom each code was minted

codeVars  == <<authCodes, codeToAuthReq, usedCodes, staleCodes, codeUser>>
reqVars   == <<authRequests, reqData, dpopJKTs>>
tokenVars == <<tokens, tokData>>
rtVars    == <<refreshTokens, rtData>>
storeVars == <<codeVars, reqVars, tokenVars, rtVars, codeTokens, clientSessions>>

-----------------------------------------------------------------------------
(* Objects *)

\* A subject claim: the user, and how often the pairwise HMAC has been applied
\* to the identifier.  Distinct hop counts are distinct sub values.
Subject == [user : Users \cup {Nil}, hops : Nat]

\* storage.AuthRequest, the fields the token endpoint reads.
AuthRequest == [client : Clients, user : Users \cup {Nil}, done : BOOLEAN,
                sid : BOOLEAN, scopes : SUBSET Scopes]

\* storage.Token.  The last three fields are history: the client that
\* authenticated, the code at the root of the token's lineage, and the refresh
\* token it was obtained with (Nil: the code itself).
Token == [client : Clients, subject : Subject, scopes : SUBSET Scopes,
          jkt : Keys \cup {Nil}, by : Clients, code : Codes,
          rt : RTs \cup {Nil}]

\* storage.RefreshToken; at is its AccessToken (and Token) field, code is
\* history.
RefreshToken == [client : Clients, subject : Subject, scopes : SUBSET Scopes,
                 jkt : Keys \cup {Nil}, at : ATs, code : Codes]

\* No object is Go's nil.
ASSUME ObjectAssumption == Nil \notin AuthRequest \cup Token \cup RefreshToken

StorageTypeOK ==
  /\ authRequests \subseteq ReqIDs
  /\ reqData \in [ReqIDs -> AuthRequest \cup {Nil}]
  /\ authCodes \in [ReqIDs -> Codes \cup {Nil}]
  /\ codeToAuthReq \in [Codes -> ReqIDs \cup {Nil}]
  /\ usedCodes \in [Codes -> ReqIDs \cup {Nil}]
  /\ staleCodes \subseteq Codes
  /\ codeTokens \in [ReqIDs -> SUBSET ATs]
  /\ dpopJKTs \in [ReqIDs -> Keys \cup {Nil}]
  /\ tokens \subseteq ATs
  /\ tokData \in [ATs -> Token \cup {Nil}]
  /\ refreshTokens \subseteq RTs
  /\ rtData \in [RTs -> RefreshToken \cup {Nil}]
  /\ clientSessions \in [Users \X Clients -> ReqIDs \cup {Nil}]
  /\ codeUser \in [Codes -> Users \cup {Nil}]

StorageInit ==
  /\ authRequests = {}
  /\ reqData = [r \in ReqIDs |-> Nil]
  /\ authCodes = [r \in ReqIDs |-> Nil]
  /\ codeToAuthReq = [c \in Codes |-> Nil]
  /\ usedCodes = [c \in Codes |-> Nil]
  /\ staleCodes = {}
  /\ codeTokens = [r \in ReqIDs |-> {}]
  /\ dpopJKTs = [r \in ReqIDs |-> Nil]
  /\ tokens = {}
  /\ tokData = [t \in ATs |-> Nil]
  /\ refreshTokens = {}
  /\ rtData = [f \in RTs |-> Nil]
  /\ clientSessions = [uc \in Users \X Clients |-> Nil]
  /\ codeUser = [c \in Codes |-> Nil]

\* Identifiers nobody has been given yet.
FreshReqs  == {r \in ReqIDs : reqData[r] = Nil}
FreshCodes == {c \in Codes : codeUser[c] = Nil}
FreshATs   == {t \in ATs : tokData[t] = Nil}
FreshRTs   == {f \in RTs : rtData[f] = Nil}

-----------------------------------------------------------------------------
(* AuthStore *)

\* CreateAuthRequest with SetAuthRequestDPoPJKT: handleAuthorize calls the two
\* before it reveals the id to anyone.
CreateAuthRequest(r, c, s, k) ==
  /\ authRequests' = authRequests \cup {r}
  /\ reqData' = [reqData EXCEPT ![r] =
        [client |-> c, user |-> Nil, done |-> FALSE, sid |-> TRUE, scopes |-> s]]
  /\ dpopJKTs' = [dpopJKTs EXCEPT ![r] = k]

\* Mutant: a completed request may be completed again.
MutCompleteAuthRequest(r, u, hasSid) ==
  /\ r \in authRequests
  /\ reqData' = [reqData EXCEPT ![r] =
        [client |-> @.client, user |-> u, done |-> TRUE, sid |-> hasSid,
         scopes |-> @.scopes]]
  /\ UNCHANGED <<authRequests, dpopJKTs>>

\* AutoCompleteAuthRequest.CompleteAuthRequest: refuses a completed request.
CompleteAuthRequest(r, u, hasSid) ==
  /\ r \in authRequests
  /\ ~reqData[r].done
  /\ reqData' = [reqData EXCEPT ![r] =
        [client |-> @.client, user |-> u, done |-> TRUE, sid |-> hasSid,
         scopes |-> @.scopes]]
  /\ UNCHANGED <<authRequests, dpopJKTs>>

\* The login form's CheckUsernamePassword with valid credentials of u: it does
\* not look at done, so it also overwrites the user of a completed request.
CheckUsernamePassword(r, u) ==
  /\ r \in authRequests
  /\ reqData' = [reqData EXCEPT ![r] =
        [client |-> @.client, user |-> u, done |-> TRUE, sid |-> @.sid,
         scopes |-> @.scopes]]
  /\ UNCHANGED <<authRequests, dpopJKTs>>

\* SaveAuthCode: an earlier code of the request loses its authCodes entry but
\* stays in codeToAuthReq.
SaveAuthCode(r, c) ==
  /\ r \in authRequests
  /\ authCodes' = [authCodes EXCEPT ![r] = c]
  /\ codeToAuthReq' = [codeToAuthReq EXCEPT ![c] = r]
  /\ codeUser' = [codeUser EXCEPT ![c] = reqData[r].user]
  /\ UNCHANGED <<usedCodes, staleCodes>>

\* The four ways AuthRequestByCode can go: no such code (never minted, or
\* used), expired, its request deleted, and found.
CodeUnknown(c)    == codeToAuthReq[c] = Nil
CodeExpired(c)    == ~CodeUnknown(c) /\ c \in staleCodes
CodeOrphaned(c)   == /\ ~CodeUnknown(c)
                     /\ c \notin staleCodes
                     /\ codeToAuthReq[c] \notin authRequests
CodeRedeemable(c) == /\ ~CodeUnknown(c)
                     /\ c \notin staleCodes
                     /\ codeToAuthReq[c] \in authRequests

DropExpiredCode(c) ==
  /\ codeToAuthReq' = [codeToAuthReq EXCEPT ![c] = Nil]
  /\ authCodes' = [authCodes EXCEPT ![codeToAuthReq[c]] = Nil]
  /\ staleCodes' = staleCodes \ {c}
  /\ UNCHANGED <<usedCodes, codeUser>>

\* Mutant: the code is looked up but not consumed.
MutConsumeCode(c) ==
  /\ usedCodes' = [usedCodes EXCEPT ![c] = codeToAuthReq[c]]
  /\ UNCHANGED <<codeToAuthReq, authCodes, staleCodes, codeUser>>

ConsumeCode(c) ==
  /\ codeToAuthReq' = [codeToAuthReq EXCEPT ![c] = Nil]
  /\ usedCodes' = [usedCodes EXCEPT ![c] = codeToAuthReq[c]]
  /\ authCodes' = [authCodes EXCEPT ![codeToAuthReq[c]] = Nil]
  /\ staleCodes' = staleCodes \ {c}
  /\ UNCHANGED codeUser

\* DeleteAuthRequest: the code recorded in authCodes, if any, counts as used.
DeleteAuthRequest(r) ==
  LET c == authCodes[r] IN
  /\ authRequests' = authRequests \ {r}
  /\ authCodes' = [authCodes EXCEPT ![r] = Nil]
  /\ codeToAuthReq' = [d \in Codes |-> IF d = c THEN Nil ELSE codeToAuthReq[d]]
  /\ usedCodes' = [d \in Codes |-> IF d = c THEN r ELSE usedCodes[d]]
  /\ staleCodes' = staleCodes \ {c}
  /\ UNCHANGED <<codeUser, reqData, dpopJKTs>>

-----------------------------------------------------------------------------
(* CodeReuseDetector *)

TrackTokenForAuthRequest(r, t) ==
  codeTokens' = [codeTokens EXCEPT ![r] = @ \cup {t}]

\* The access tokens RevokeTokensForUsedCode finds for a code.
TrackedFor(c) == IF usedCodes[c] = Nil THEN {} ELSE codeTokens[usedCodes[c]]

\* Mutant: the refresh tokens linked to the revoked access tokens survive.
MutRevokeTokensForUsedCode(c) ==
  /\ tokens' = tokens \ TrackedFor(c)
  /\ codeTokens' = [r \in ReqIDs |-> IF r = usedCodes[c] THEN {} ELSE codeTokens[r]]
  /\ UNCHANGED <<tokData, rtVars>>

RevokeTokensForUsedCode(c) ==
  /\ tokens' = tokens \ TrackedFor(c)
  /\ refreshTokens' = {f \in refreshTokens : rtData[f].at \notin TrackedFor(c)}
  /\ codeTokens' = [r \in ReqIDs |-> IF r = usedCodes[c] THEN {} ELSE codeTokens[r]]
  /\ UNCHANGED <<tokData, rtData>>

-----------------------------------------------------------------------------
(* TokenStore and ClientSessionRecorder *)

PutToken(t, tok) ==
  /\ tokens' = tokens \cup {t}
  /\ tokData' = [tokData EXCEPT ![t] = tok]

PutRefreshToken(f, rt) ==
  /\ refreshTokens' = refreshTokens \cup {f}
  /\ rtData' = [rtData EXCEPT ![f] = rt]

DropRefreshToken(f) ==
  /\ refreshTokens' = refreshTokens \ {f}
  /\ UNCHANGED rtData

\* RefreshTokenRequest.SetCurrentScopes writes through to the stored object.
SetCurrentScopes(f, s) ==
  /\ rtData' = [rtData EXCEPT ![f].scopes = s]
  /\ UNCHANGED refreshTokens

\* RecordClientSession: only clients with a backchannel_logout_uri are kept;
\* the request's sid is identified with the request.
RecordClientSession(u, c, r) ==
  clientSessions' = IF c \in LogoutClients
                      THEN [clientSessions EXCEPT ![<<u, c>>] = r]
                      ELSE clientSessions

-----------------------------------------------------------------------------
(* RevocationStore and IntrospectStore *)

\* RevokeToken on a refresh token also drops the access token issued with it.
RevokeRefreshToken(f) ==
  /\ tokens' = tokens \ {rtData[f].at}
  /\ refreshTokens' = refreshTokens \ {f}
  /\ UNCHANGED <<tokData, rtData>>

\* RevokeToken on anything that is not a refresh token: an access token id is
\* dropped, everything else is "not found" and changes nothing.
RevokeAccessToken(x) ==
  /\ tokens' = tokens \ {x}
  /\ UNCHANGED <<tokData, rtVars>>

\* SetIntrospectionFromToken and SetUserinfoFromToken report an access token as
\* active when it is stored, or when a stored refresh token was issued with it.
Active(t) == t \in tokens \/ \E f \in refreshTokens : rtData[f].at = t
=============================================================================
