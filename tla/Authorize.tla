----------------------------- MODULE Authorize -----------------------------
(***************************************************************************)
(* The authorization endpoint with pushed authorization requests and       *)
(* request objects: how the parameters of a request are put together,      *)
(* what is checked in which order, when a request is completed without a   *)
(* login page, and how responses and errors travel back.                   *)
(*                                                                         *)
(* Strings, JWTs and cookies are abstracted to records of the values that  *)
(* the checks tell apart; response types are joined by +.  Where the       *)
(* checks of a CASE overlap, the code makes them in the order written;     *)
(* nothing that is proved depends on which of two refusals is named.       *)
(* TokenEndpoint takes over where a code has been issued.                  *)
(***************************************************************************)
EXTENDS Integers, FiniteSets, Sequences

CONSTANTS ClientOf,     \* client id -> its registration
          Query,        \* parameter records sent in the query string alone
          QueryWith,    \* parameter records sent beside a request object or request_uri
          Pushed,       \* parameter records sent to the PAR endpoint
          Objects,      \* request objects
          Subjects,     \* end users
          EarlierFor,   \* clients for which an earlier login left a session
          Keys,         \* DPoP key thumbprints
          EnableImplicit, HasJARMSigner,
          ParLifetime,  \* the PAR plugin's lifetime, in ticks
          MaxTime, MaxReq, MaxPar

Clients == DOMAIN ClientOf

\* The empty string: the parameter was not sent.
Absent == "absent"

NoObject == [claims |-> "none"]

NoSession == [sub |-> Absent, at |-> 0, client |-> Absent]

NoMaxAge == 99

Modes == {Absent, "query", "fragment", "form_post", "jwt", "query.jwt", "fragment.jwt", "form_post.jwt"}

\* The parameters of a request.  The values of most are whatever the inputs bring.
Values(f) == {p[f] : p \in Query \cup QueryWith \cup Pushed \cup {o.claims : o \in Objects}}

Params ==
    [client : Values("client"), redirect : Values("redirect"),
     scopes : SUBSET ((UNION Values("scopes")) \cup {"openid"}), rtype : Values("rtype"), mode : Modes,
     state : Values("state"), nonce : Values("nonce"), prompt : Values("prompt"), maxAge : Nat,
     pkce : Values("pkce"), jkt : Values("jkt") \cup Keys \cup {Absent}, hint : Values("hint")]

\* Inputs are records of parameters, redirect URIs and registered URIs records of
\* their parts; a client pushes under its own id, another one's, or none.
ASSUME InputAssumption ==
    /\ Query \cup QueryWith \cup Pushed \subseteq Params
    /\ Objects \subseteq [claims : Params, uri : Nat, signed : BOOLEAN, times : {"valid", "none", "past"}]
    /\ NoObject \notin Objects
    /\ \A p \in Pushed : p.client \in Clients \cup {Absent}
    /\ \A u \in Values("redirect") \cup UNION {ClientOf[c].uris : c \in Clients} :
           DOMAIN u = {"scheme", "host", "port", "path", "query"}

ASSUME ServerAssumption ==
    /\ Absent \notin Clients \cup Subjects
    /\ EarlierFor \subseteq Clients
    /\ \A c \in Clients : ClientOf[c].parLifetime \in Nat
    /\ {ParLifetime, MaxTime, MaxReq, MaxPar} \subseteq Nat

-----------------------------------------------------------------------------
(* Redirect URIs (shared/authrequest.go).  A URI is a record of its parts. *)

IsLocalhost(u) == u.host = "localhost"

HTTPLoopback(u) == u.scheme \in {"http", "https"} /\ IsLocalhost(u)

checkRedirectURIAgainstClient(c, u) ==
    \/ u \in ClientOf[c].uris
    \/ \E g \in ClientOf[c].uris :
           /\ g.query = Absent
           /\ [g EXCEPT !.query = u.query] = u

validateRedirectURIWeb(c, u, rtype) ==
    /\ u.scheme \in {"http", "https"}
    /\ \/ u.scheme = "https" \/ IsLocalhost(u) \/ ClientOf[c].devMode
       \/ rtype = "code" /\ ClientOf[c].auth \in {"basic", "private_key_jwt"}
    /\ checkRedirectURIAgainstClient(c, u)

\* The port of a loopback URI is free, the path is not looked at.
MutvalidateRedirectURINative(c, u) ==
    IF checkRedirectURIAgainstClient(c, u)
    THEN ClientOf[c].devMode \/ u.scheme # "http" \/ HTTPLoopback(u)
    ELSE HTTPLoopback(u) /\ \E g \in ClientOf[c].uris : HTTPLoopback(g)

validateRedirectURINative(c, u) ==
    IF checkRedirectURIAgainstClient(c, u)
    THEN ClientOf[c].devMode \/ u.scheme # "http" \/ HTTPLoopback(u)
    ELSE /\ HTTPLoopback(u)
         /\ \E g \in ClientOf[c].uris :
                HTTPLoopback(g) /\ g.path = u.path /\ g.query = u.query

ValidateRedirectURI(c, p) ==
    IF ClientOf[c].native THEN validateRedirectURINative(c, p.redirect)
    ELSE validateRedirectURIWeb(c, p.redirect, p.rtype)

-----------------------------------------------------------------------------
(* The other parameters (shared/authrequest.go). *)

StandardScopes == {"openid", "profile", "email", "phone", "address", "offline_access"}

ScopesValid(c, p, default) ==
    /\ p.scopes = {} => default # {}
    /\ ClientOf[c].strict => p.scopes \ {"openid"} \subseteq ClientOf[c].scopes

FilteredScopes(c, p, default) ==
    IF p.scopes = {} THEN default
    ELSE IF ClientOf[c].strict THEN p.scopes
    ELSE {s \in p.scopes : s \in StandardScopes \cup ClientOf[c].scopes}

PromptValid(p) == "none" \in p.prompt => p.prompt = {"none"}

NonceValid(p) ==
    p.rtype \in {"id_token", "id_token+token", "code+id_token", "code+id_token+token"} => p.nonce # Absent

ResponseTypeValid(c, p) ==
    /\ p.rtype # Absent
    /\ ClientOf[c].fapi => p.rtype = "code"
    /\ ClientOf[c].rtypes # {} => p.rtype \in ClientOf[c].rtypes

ParamsValid(c, p, default) ==
    /\ PromptValid(p)
    /\ ScopesValid(c, p, default)
    /\ ClientOf[c].fapi => p.pkce # Absent
    /\ p.pkce \in {Absent, "no_method", "plain", "S256"}
    /\ NonceValid(p)
    /\ ResponseTypeValid(c, p)

\* What validation leaves behind: prompt=login forces max_age to zero.
MutNormalised(c, p, default) ==
    [p EXCEPT !.scopes = FilteredScopes(c, p, default)]

Normalised(c, p, default) ==
    [p EXCEPT !.scopes = FilteredScopes(c, p, default),
              !.maxAge = IF "login" \in p.prompt THEN 0 ELSE p.maxAge]

SignedRequestObjectRequired(c) == ClientOf[c].signedObject

-----------------------------------------------------------------------------

VARIABLES now, session, par, reqs, recorded, tokens, out

vars == <<now, session, par, reqs, recorded, tokens, out>>

\* out is the last answer: where it goes and what it carries.
NoAnswer == [kind |-> "idle"]

\* An error page, and the pushed request (0: none) it is about.
Page(why, uri) == [kind |-> "page", why |-> why, uri |-> uri]

Init ==
    /\ now = 0
    /\ session \in {NoSession} \cup [sub : Subjects, at : {0}, client : EarlierFor]
    /\ par = << >>
    /\ reqs = << >>
    /\ recorded = {}
    /\ tokens = {}
    /\ out = NoAnswer

-----------------------------------------------------------------------------
(* Putting the parameters together.                                        *)

\* verifyRequestObjectSignature and the time claims, which FAPI clients must send.
ObjectSound(c, o) ==
    /\ o.signed
    /\ o.times # "past"
    /\ ClientOf[c].fapi => o.times = "valid"

\* ParseAndValidateRequestObject: "ok" or why the object is refused.
ObjectVerdict(p, o) ==
    CASE o.claims.client \notin Clients -> "unknown_issuer"
      [] p.client \notin {Absent, o.claims.client} -> "wrong_client"
      [] o.claims.rtype # Absent /\ p.rtype \notin {Absent, o.claims.rtype} -> "wrong_response_type"
      [] ~ObjectSound(o.claims.client, o) -> "not_sound"
      [] o.claims.nonce # Absent /\ p.nonce \notin {Absent, o.claims.nonce} -> "wrong_nonce"
      [] OTHER -> "ok"

\* The state of the query string survives when the object has none.
MutCopyRequestObjectToAuthRequest(p, o) ==
    [o.claims EXCEPT !.jkt = IF @ # Absent THEN @ ELSE p.jkt,
                     !.state = IF @ # Absent THEN @ ELSE p.state]

CopyRequestObjectToAuthRequest(p, o) ==
    [o.claims EXCEPT !.jkt = IF @ # Absent THEN @ ELSE p.jkt]

\* An entry is used whatever its age.
MutExpired(i) == ~par[i].live

Expired(i) == now > par[i].expires

\* GetPushedAuthRequest and the comparisons of applyPARRequest.
PARVerdict(p, i) ==
    IF i \notin DOMAIN par \/ ~par[i].live THEN "unknown_uri"
    ELSE IF Expired(i) THEN "expired_uri"
    ELSE IF p.client \notin {Absent, par[i].p.client} THEN "wrong_client"
    ELSE IF par[i].p.nonce # Absent /\ p.nonce \notin {Absent, par[i].p.nonce} THEN "wrong_nonce"
    ELSE "ok"

\* The handler's view of a request: parameters, and where they came from.  A
\* request object may itself name a pushed request, which is then used in turn.
Resolve(rq) ==
    LET o == rq.object
        byObject == o # NoObject
        v1 == IF byObject THEN ObjectVerdict(rq.p, o) ELSE "ok"
        p1 == IF byObject /\ v1 = "ok" THEN CopyRequestObjectToAuthRequest(rq.p, o) ELSE rq.p
        uri == IF rq.uri # 0 THEN rq.uri ELSE IF byObject /\ ~rq.remote THEN o.uri ELSE 0
        v2 == IF uri # 0 THEN PARVerdict(p1, uri) ELSE "ok"
    IN IF byObject /\ rq.uri # 0 /\ ~rq.remote
       THEN [verdict |-> "both", p |-> rq.p, via |-> "query", uri |-> 0, src |-> rq.p]
       ELSE IF v1 # "ok" \/ uri = 0
       THEN [verdict |-> v1, p |-> p1, uri |-> 0,
             via |-> IF byObject THEN (IF rq.remote THEN "remote" ELSE "object") ELSE "query",
             src |-> IF byObject THEN o.claims ELSE rq.p]
       ELSE [verdict |-> v2, p |-> IF v2 = "ok" THEN par[uri].p ELSE p1, uri |-> uri,
             via |-> "par", src |-> IF v2 = "ok" THEN par[uri].p ELSE p1]

-----------------------------------------------------------------------------
(* How answers travel (util.go, response_mode.go).                         *)

FragmentByDefault(rtype) == rtype \notin {Absent, "code"}

resolveResponseMode(p) ==
    IF p.mode # Absent THEN p.mode ELSE IF FragmentByDefault(p.rtype) THEN "fragment" ELSE "query"

isJARMResponseMode(mode) == mode \in {"jwt", "query.jwt", "fragment.jwt", "form_post.jwt"}

\* The carrier of a signed response; "jwt" alone means the query component.
JARMCarrier(mode) ==
    CASE mode = "fragment.jwt" -> "fragment"
      [] mode = "form_post.jwt" -> "form_post"
      [] OTHER -> "query"

PlainCarrier(mode) == IF mode \in {"fragment", "form_post"} THEN mode ELSE "query"

\* writeAuthError and authResponseCode agree on this much.
Carriage(mode) ==
    IF isJARMResponseMode(mode) /\ HasJARMSigner
    THEN [carrier |-> JARMCarrier(mode), signed |-> TRUE]
    ELSE [carrier |-> PlainCarrier(mode), signed |-> FALSE]

\* Errors are redirected in the query component whatever the mode.
MutwriteAuthError(p, why) ==
    [kind |-> "error", why |-> why, to |-> p.redirect, client |-> p.client, state |-> p.state,
     mode |-> p.mode, carriage |-> [carrier |-> "query", signed |-> FALSE]]

writeAuthError(p, why) ==
    [kind |-> "error", why |-> why, to |-> p.redirect, client |-> p.client, state |-> p.state,
     mode |-> p.mode, carriage |-> Carriage(resolveResponseMode(p))]

Answer(r, kind, carriage) ==
    [kind |-> kind, to |-> r.p.redirect, client |-> r.p.client, state |-> r.p.state,
     carriage |-> carriage, id |-> r.id]

isImplicitResponseType(t) == t \in {"id_token", "id_token+token", "token"}

isHybridResponseType(t) == t \in {"code+id_token", "code+token", "code+id_token+token"}

WantsToken(t) == t \in {"id_token+token", "token", "code+token", "code+id_token+token"}

WantsIDToken(t) == t \in {"id_token", "id_token+token", "code+id_token", "code+id_token+token"}

MutcreateImplicitIDToken(r, accessToken, code) ==
    [sub |-> r.sub, aud |-> r.p.client, nonce |-> r.p.nonce,
     at_hash |-> accessToken, c_hash |-> FALSE]

\* createImplicitIDToken: the claims that tie it to what is sent with it.
createImplicitIDToken(r, accessToken, code) ==
    [sub |-> r.sub, aud |-> r.p.client, nonce |-> r.p.nonce,
     at_hash |-> accessToken, c_hash |-> code]

\* Implicit and hybrid answers: always in the fragment, whatever the response
\* mode.  A token that cannot be created is left out.
FrontChannel(r, failing) ==
    LET code == isHybridResponseType(r.p.rtype)
        at == WantsToken(r.p.rtype) /\ "token" \notin failing
    IN [kind |-> "front", to |-> r.p.redirect, client |-> r.p.client, state |-> r.p.state,
        carriage |-> [carrier |-> "fragment", signed |-> FALSE], id |-> r.id, code |-> code, at |-> at,
        idt |-> IF WantsIDToken(r.p.rtype) /\ "id_token" \notin failing
                THEN createImplicitIDToken(r, at, code) ELSE [sub |-> Absent]]

authResponse(r, failing) ==
    CASE r.p.rtype = "none" -> Answer(r, "none", [carrier |-> "query", signed |-> FALSE])
      [] r.p.rtype = "code" -> IF "code" \in failing THEN writeAuthError(r.p, "server_error")
                               ELSE Answer(r, "code", Carriage(resolveResponseMode(r.p)))
      [] EnableImplicit /\ isImplicitResponseType(r.p.rtype) -> FrontChannel(r, failing)
      [] EnableImplicit /\ isHybridResponseType(r.p.rtype) ->
             IF "code" \in failing THEN writeAuthError(r.p, "server_error") ELSE FrontChannel(r, failing)
      [] OTHER -> writeAuthError(r.p, "unsupported_response_type")

\* The store calls of the answer: an access token, and recordSession.
Respond(r, failing) ==
    LET a == authResponse(r, failing) IN
    /\ out' = a
    /\ tokens' = IF a.kind = "front" /\ a.at THEN tokens \cup {r.id} ELSE tokens
    /\ recorded' = IF a.kind = "front" THEN recorded \cup {<<r.sub, r.p.client>>} ELSE recorded

-----------------------------------------------------------------------------
(* PAR endpoint (par.go handle, authenticateClient).  The caller is the    *)
(* client that authenticated: with a secret the one client_id names, with  *)
(* an assertion the one that issued it.                                    *)

ParDPoPOK(p, proof) == proof = Absent \/ p.jkt \in {Absent, proof}

parLifetime(c) == IF ClientOf[c].parLifetime > 0 THEN ClientOf[c].parLifetime ELSE ParLifetime

Push(c, p, o, proof) ==
    LET byObject == o # NoObject
        p1 == IF byObject THEN CopyRequestObjectToAuthRequest(p, o) ELSE p
        p2 == [p1 EXCEPT !.jkt = IF @ = Absent THEN proof ELSE @]
    IN /\ ClientOf[c].auth = "private_key_jwt" \/ p.client = c
       /\ SignedRequestObjectRequired(c) => byObject
       /\ byObject => ObjectVerdict(p, o) = "ok" /\ o.uri = 0
       /\ ParDPoPOK(p1, proof)
       /\ ValidateRedirectURI(c, p2)
       /\ ParamsValid(c, p2, {"openid"})
       /\ par' = Append(par, [p |-> Normalised(c, p2, {"openid"}), by |-> c, live |-> TRUE,
                              expires |-> now + parLifetime(c), told |-> now + ParLifetime])
       /\ out' = [kind |-> "pushed"]
       /\ UNCHANGED <<now, session, reqs, recorded, tokens>>

-----------------------------------------------------------------------------
(* handleAuthorize.                                                        *)

\* Errors before the redirect URI is known to belong to the client.
PageVerdict(v) ==
    CASE v.verdict # "ok" -> v.verdict
      [] v.p.client \notin Clients -> "no_client"
      [] ~ValidateRedirectURI(v.p.client, v.p) -> "bad_redirect_uri"
      [] OTHER -> "ok"

MutFapiRefused(v) == ClientOf[v.p.client].fapi /\ v.via = "object"

\* The FAPI and the signed-object checks look at RequestParam, which has been
\* cleared once the object was copied; only a request_uri is still there.
FapiRefused(v) == ClientOf[v.p.client].fapi /\ v.via \in {"query", "object"}

ObjectRefused(v) == SignedRequestObjectRequired(v.p.client) /\ v.via \in {"query", "object"}

\* An expired hint is meant to pass; but VerifyIDTokenHint returns the address of its
\* IDTokenHintExpiredError, and errors.As is asked for a value.
validateIDTokenHint(h) == h.verdict = "ok"

\* Errors that are redirected.
ErrorVerdict(v) ==
    CASE FapiRefused(v) -> "fapi_requires_object"
      [] ObjectRefused(v) -> "object_required"
      [] ~ParamsValid(v.p.client, v.p, {}) -> "invalid_request"
      [] v.p.pkce = "plain" -> "plain_not_allowed"
      [] ~validateIDTokenHint(v.p.hint) -> "invalid_hint"
      [] ~EnableImplicit /\ (isImplicitResponseType(v.p.rtype) \/ isHybridResponseType(v.p.rtype)) -> "disabled"
      [] OTHER -> "ok"

\* The session named by the cookie, which belongs to the client it was opened for.
GetSession(c) == session.client = c

\* prompt=none: the cookie's session, which a hint must confirm.  Without a cookie
\* the storage is not asked for the hint's subject: its GetSessionBySubject is
\* variadic and does not have the type that the handler asserts.
SilentSession(p) == GetSession(p.client) /\ p.hint.sub \in {Absent, session.sub}

\* max_age: the session's authentication is recent enough.  Time has passed since.
Recent(p) == GetSession(p.client) /\ now - session.at < p.maxAge

WithKey(p, proof) == [p EXCEPT !.jkt = IF @ = Absent THEN proof ELSE @]

Stored(v, proof, sub, at, done) ==
    [id |-> Len(reqs) + 1, p |-> WithKey(Normalised(v.p.client, v.p, {}), proof), via |-> v.via,
     uri |-> v.uri, src |-> v.src, sub |-> sub, at |-> at, done |-> done, silent |-> done, made |-> now,
     cookie |-> IF done THEN session ELSE NoSession]

\* An expired pushed request is deleted when it is looked up.
Cleaned(v) ==
    IF v.verdict = "expired_uri" THEN [par EXCEPT ![v.uri].live = FALSE] ELSE par

AuthorizePage(rq) ==
    LET v == Resolve(rq) IN
    /\ PageVerdict(v) # "ok"
    /\ out' = Page(PageVerdict(v), v.uri)
    /\ par' = Cleaned(v)
    /\ UNCHANGED <<now, session, reqs, recorded, tokens>>

AuthorizeError(rq) ==
    LET v == Resolve(rq)
        p == Normalised(v.p.client, v.p, {})
    IN
    /\ PageVerdict(v) = "ok"
    /\ \/ /\ ErrorVerdict(v) # "ok"
          /\ out' = writeAuthError(v.p, ErrorVerdict(v))
       \/ /\ ErrorVerdict(v) = "ok" /\ "none" \in p.prompt /\ ~SilentSession(p)
          /\ out' = writeAuthError(v.p, "login_required")
    /\ UNCHANGED <<now, session, par, reqs, recorded, tokens>>

\* prompt=none, or max_age with a recent session: created, completed and answered at once.
AuthorizeSilent(rq, proof, failing) ==
    LET v == Resolve(rq)
        p == Normalised(v.p.client, v.p, {})
        r == Stored(v, proof, session.sub, session.at, TRUE)
    IN
    /\ PageVerdict(v) = "ok" /\ ErrorVerdict(v) = "ok"
    /\ IF "none" \in p.prompt THEN SilentSession(p) ELSE p.maxAge # NoMaxAge /\ Recent(p)
    /\ reqs' = Append(reqs, r)
    /\ Respond(r, failing)
    /\ UNCHANGED <<now, session, par>>

AuthorizeLogin(rq, proof) ==
    LET v == Resolve(rq)
        p == Normalised(v.p.client, v.p, {})
        r == Stored(v, proof, Absent, 0, FALSE)
    IN
    /\ PageVerdict(v) = "ok" /\ ErrorVerdict(v) = "ok"
    /\ "none" \notin p.prompt
    /\ p.maxAge # NoMaxAge => ~Recent(p)
    /\ reqs' = Append(reqs, r)
    /\ out' = [kind |-> "login", id |-> r.id]
    /\ UNCHANGED <<now, session, par, recorded, tokens>>

-----------------------------------------------------------------------------
(* The login page's calls and the callback.                                *)

\* The password page: completes the request, completed or not, and opens a session.
CheckUsernamePassword(i, s) ==
    /\ i \in DOMAIN reqs
    /\ reqs' = [reqs EXCEPT ![i].done = TRUE, ![i].sub = s, ![i].at = now, ![i].silent = FALSE, ![i].cookie = NoSession]
    /\ session' = [sub |-> s, at |-> now, client |-> reqs[i].p.client]
    /\ out' = [kind |-> "redirect_to", id |-> i]
    /\ UNCHANGED <<now, par, recorded, tokens>>

\* handleAccept: refused for an unknown or a completed request.
handleAccept(i, s) ==
    /\ i \in DOMAIN reqs /\ ~reqs[i].done
    /\ reqs' = [reqs EXCEPT ![i].done = TRUE, ![i].sub = s, ![i].at = now]
    /\ out' = [kind |-> "redirect_to", id |-> i]
    /\ UNCHANGED <<now, session, par, recorded, tokens>>

\* handleReject names the callback with an error; the request itself is untouched.
handleReject(i) ==
    /\ i \in DOMAIN reqs /\ ~reqs[i].done
    /\ out' = [kind |-> "redirect_to", id |-> i]
    /\ UNCHANGED <<now, session, par, reqs, recorded, tokens>>

\* handleCallback with an error parameter, for a request not completed, and for a completed one.
CallbackError(i) ==
    /\ i \in DOMAIN reqs
    /\ out' = writeAuthError(reqs[i].p, "access_denied")
    /\ UNCHANGED <<now, session, par, reqs, recorded, tokens>>

CallbackEarly(i) ==
    /\ i \in DOMAIN reqs /\ ~reqs[i].done
    /\ out' = writeAuthError(reqs[i].p, "interaction_required")
    /\ UNCHANGED <<now, session, par, reqs, recorded, tokens>>

\* Done is not looked at.
MutCallbackDone(i, failing) ==
    /\ i \in DOMAIN reqs
    /\ Respond(reqs[i], failing)
    /\ UNCHANGED <<now, session, par, reqs>>

CallbackDone(i, failing) ==
    /\ i \in DOMAIN reqs /\ reqs[i].done
    /\ Respond(reqs[i], failing)
    /\ UNCHANGED <<now, session, par, reqs>>

Tick ==
    /\ now < MaxTime
    /\ now' = now + 1
    /\ out' = NoAnswer
    /\ UNCHANGED <<session, par, reqs, recorded, tokens>>

-----------------------------------------------------------------------------

\* What arrives at the authorization endpoint: plain, with an object by value,
\* with the URI of an object, with the URI of a pushed request, or with both.
Received ==
    [p : Query, object : {NoObject}, uri : {0}, remote : {FALSE}]
        \cup [p : QueryWith, object : Objects, uri : {0}, remote : BOOLEAN]
        \cup [p : QueryWith, object : {NoObject}, uri : DOMAIN par, remote : {FALSE}]
        \cup [p : QueryWith, object : Objects, uri : DOMAIN par, remote : {FALSE}]

Failing == {{}, {"code"}, {"token"}, {"id_token"}}

Next ==
    \/ /\ Len(par) < MaxPar
       /\ \E c \in Clients, p \in Pushed, o \in Objects \cup {NoObject}, k \in Keys \cup {Absent} : Push(c, p, o, k)
    \/ /\ Len(reqs) < MaxReq
       /\ \E rq \in Received :
             \/ AuthorizePage(rq)
             \/ AuthorizeError(rq)
             \/ \E k \in Keys \cup {Absent} : AuthorizeLogin(rq, k) \/ \E f \in Failing : AuthorizeSilent(rq, k, f)
    \/ \E i \in 1..MaxReq :
           \/ \E s \in Subjects : handleAccept(i, s) \/ CheckUsernamePassword(i, s)
           \/ handleReject(i)
           \/ CallbackError(i)
           \/ CallbackEarly(i)
           \/ \E f \in Failing : CallbackDone(i, f)
    \/ Tick

Spec == Init /\ [][Next]_vars

-----------------------------------------------------------------------------
(* Properties.                                                             *)

\* The shape of the state: pushed requests and stored requests are sequences in order of creation.
TypeOK ==
    /\ now \in 0..MaxTime
    /\ session \in {NoSession} \cup [sub : Subjects, at : 0..MaxTime, client : Clients]
    /\ Len(par) <= MaxPar /\ Len(reqs) <= MaxReq
    /\ \A i \in DOMAIN par : par[i].p.client \in Clients \cup {Absent} /\ par[i].by \in Clients
    /\ \A i \in DOMAIN reqs :
           /\ reqs[i].id = i /\ reqs[i].p.client \in Clients /\ reqs[i].p.mode \in Modes
           /\ reqs[i].done \in BOOLEAN /\ reqs[i].uri \in 0..MaxPar
    /\ recorded \subseteq Subjects \X Clients
    /\ tokens \subseteq 1..MaxReq

\* Two URIs name the same registered place: a query may be added to a registration
\* without one, and the port and scheme of a native client's loopback URI are free.
SamePlace(c, g, u) ==
    \/ /\ g.scheme = u.scheme /\ g.host = u.host /\ g.port = u.port /\ g.path = u.path
       /\ g.query \in {Absent, u.query}
    \/ /\ ClientOf[c].native
       /\ g.host = "localhost" /\ u.host = "localhost"
       /\ g.path = u.path /\ g.query = u.query

\* Whatever route the parameters took (query, request object, its URI, pushed request, or an
\* object naming a pushed request) and whatever the answer is, it is sent to a place the
\* client it is for has registered (handler.go:167, and every redirect after it).
RedirectFaithful ==
    out.kind \in {"error", "code", "front", "none"} =>
        \E g \in ClientOf[out.client].uris : SamePlace(out.client, g, out.to)

\* The parameters of a stored request come from one source: nothing of the query string is
\* mixed into a request object or a pushed request (requestobject.go:172, request_object.go:79),
\* up to the DPoP key, which may come from the proof header.
OneSource ==
    \A i \in DOMAIN reqs : \A f \in {"client", "redirect", "state", "nonce", "rtype", "mode", "prompt", "pkce", "hint"} :
        reqs[i].p[f] = reqs[i].src[f]

\* A request completed without a login page carries a session opened for its client, a hint that
\* was checked against it under prompt=none, an authentication within the max_age asked for
\* otherwise, and never a prompt=login (handler.go:277-400, authrequest.go:224-227).
SilentFaithful ==
    \A i \in DOMAIN reqs : reqs[i].silent =>
        /\ reqs[i].cookie = [sub |-> reqs[i].sub, at |-> reqs[i].at, client |-> reqs[i].p.client]
        /\ "login" \notin reqs[i].src.prompt
        /\ IF "none" \in reqs[i].src.prompt THEN reqs[i].src.hint.sub \in {Absent, reqs[i].sub}
           ELSE reqs[i].made - reqs[i].at < reqs[i].src.maxAge

\* A pushed request works as long as the answer to the push has said (for clients without a
\* lifetime of their own), and no request is made from one that has expired (par.go:228-244,
\* storage/par.go:55-68).
PushedLifetime ==
    /\ out.kind = "page" /\ out.why \in {"expired_uri", "unknown_uri"} /\ out.uri \in DOMAIN par =>
           \/ now > par[out.uri].told
           \/ ClientOf[par[out.uri].by].parLifetime > 0
    /\ \A i \in DOMAIN reqs : reqs[i].via = "par" => reqs[i].made <= par[reqs[i].uri].expires

\* A code or a front-channel token leaves only for a request that a user has completed, by
\* signing in or by an earlier session (handler.go:449-469).
AnsweredWhenDone ==
    out.kind \in {"code", "front", "none"} => reqs[out.id].done /\ reqs[out.id].sub \in Subjects

\* What is sent in the front channel is what the response type asks for, only with the
\* implicit flow enabled; the ID token is for the user, carries the nonce, and vouches for the
\* code and the access token beside it (response_mode.go:271-549).
FrontChannelSound ==
    out.kind = "front" =>
        /\ EnableImplicit
        /\ out.at => out.id \in tokens
        /\ <<reqs[out.id].sub, out.client>> \in recorded
        /\ out.idt.sub # Absent =>
               /\ out.idt.sub = reqs[out.id].sub /\ out.idt.aud = out.client
               /\ out.idt.nonce # Absent /\ out.idt.nonce = reqs[out.id].src.nonce
               /\ out.idt.at_hash = out.at /\ out.idt.c_hash = out.code

\* The parameters of a FAPI client, and of one registered to sign its requests, never come from
\* the bare query string: no request of theirs is stored, silently completed or answered that no
\* object or push vouches for (handler.go:188-205).
NeverPlain ==
    \A i \in DOMAIN reqs :
        ClientOf[reqs[i].p.client].fapi \/ ClientOf[reqs[i].p.client].signedObject => reqs[i].via # "query"

\* A client that asked for a signed response with response_type=code gets no unsigned one: errors,
\* early and late, travel the way the code would (util.go:196-301, response_mode.go:82-219).
SignedWhenAsked ==
    /\ out.kind = "error" /\ HasJARMSigner /\ isJARMResponseMode(out.mode) => out.carriage.signed
    /\ out.kind = "code" /\ HasJARMSigner /\ isJARMResponseMode(reqs[out.id].src.mode) => out.carriage.signed

\* The parameters a request is answered with are those of its strongest source, and of a
\* signed or pushed one where the client must use one.
ParametersVouched == TypeOK /\ OneSource /\ NeverPlain

\* What leaves the endpoint is what was asked for, in the form that was asked for, and only for a
\* user who has been through the login or has a session.
ResponsesSound == AnsweredWhenDone /\ FrontChannelSound /\ SignedWhenAsked
=============================================================================
