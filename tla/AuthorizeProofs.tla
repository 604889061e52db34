--------------------------- MODULE AuthorizeProofs ---------------------------
(***************************************************************************)
(* Theorems about Authorize: for every set of registrations and of inputs, *)
(* however many requests are pushed, started, completed and answered.      *)
(***************************************************************************)
EXTENDS Authorize, TLAPS

-----------------------------------------------------------------------------
(* The invariant.                                                          *)

SessionRec == [sub : Subjects, at : Nat, client : Clients]

ParRec == [p : Params, by : Clients, live : BOOLEAN, expires : Nat, told : Nat]

ReqRec == [id : Nat, p : Params, via : {"query", "object", "remote", "par"}, uri : Nat, src : Params,
           sub : Subjects \cup {Absent}, at : Nat, done : BOOLEAN, silent : BOOLEAN, made : Nat,
           cookie : SessionRec \cup {NoSession}]

Shape ==
    /\ now \in 0..MaxTime
    /\ session \in SessionRec \cup {NoSession} /\ session.at <= now
    /\ par \in Seq(ParRec) /\ Len(par) <= MaxPar
    /\ reqs \in Seq(ReqRec) /\ Len(reqs) <= MaxReq
    /\ recorded \subseteq Subjects \X Clients
    /\ tokens \subseteq 1..MaxReq

\* The redirect URI of the parameters is one that their client has registered.
Registered(p) == \E g \in ClientOf[p.client].uris : SamePlace(p.client, g, p.redirect)

\* All but the DPoP key, the scopes and max_age, which validation may change.
SameParams(p, q) ==
    /\ p.client = q.client /\ p.redirect = q.redirect /\ p.state = q.state /\ p.nonce = q.nonce
    /\ p.rtype = q.rtype /\ p.mode = q.mode /\ p.prompt = q.prompt /\ p.pkce = q.pkce /\ p.hint = q.hint

SilentOK(r) ==
    /\ r.done
    /\ r.cookie = [sub |-> r.sub, at |-> r.at, client |-> r.p.client]
    /\ "login" \notin r.src.prompt
    /\ IF "none" \in r.src.prompt THEN r.src.hint.sub \in {Absent, r.sub} ELSE r.made - r.at < r.src.maxAge

\* What is so of every stored request.
ReqOK(r) ==
    /\ r.p.client \in Clients
    /\ Registered(r.p)
    /\ SameParams(r.p, r.src)
    /\ NonceValid(r.p)
    /\ ClientOf[r.p.client].fapi \/ ClientOf[r.p.client].signedObject => r.via # "query"
    /\ r.silent => SilentOK(r)
    /\ r.done => r.sub \in Subjects

\* A pushed request that is gone has expired, and the answer to the push said when.
ParOK(e) ==
    /\ e.p.client \in Clients \cup {Absent}
    /\ ClientOf[e.by].parLifetime > 0 \/ e.expires = e.told
    /\ ~e.live => now > e.expires

Linked(r) ==
    IF r.via = "par" THEN r.uri \in DOMAIN par /\ r.made <= par[r.uri].expires ELSE r.uri = 0

StoreInv ==
    /\ Shape
    /\ \A i \in DOMAIN par : ParOK(par[i])
    /\ \A i \in DOMAIN reqs : reqs[i].id = i /\ ReqOK(reqs[i]) /\ Linked(reqs[i])

\* What the answer to a request with an unusable request_uri says.
GoneForCause ==
    out.kind = "page" /\ out.why \in {"expired_uri", "unknown_uri"} /\ out.uri \in DOMAIN par =>
        now > par[out.uri].told \/ ClientOf[par[out.uri].by].parLifetime > 0

OutInv == RedirectFaithful /\ ResponsesSound /\ GoneForCause

-----------------------------------------------------------------------------
(* The operators the handlers are built from.                              *)

\* Every redirect URI that passes the checks names a registered place.
LEMMA RedirectRegistered ==
  ASSUME NEW c \in Clients, NEW p \in Params, ValidateRedirectURI(c, p)
  PROVE  \E g \in ClientOf[c].uris : SamePlace(c, g, p.redirect)
<1> DEFINE u == p.redirect
<1>1. \A g \in ClientOf[c].uris : DOMAIN g = {"scheme", "host", "port", "path", "query"}
  BY InputAssumption
<1>2. ASSUME checkRedirectURIAgainstClient(c, u)
      PROVE  \E g \in ClientOf[c].uris : SamePlace(c, g, u)
  <2>1. CASE u \in ClientOf[c].uris
    BY <2>1 DEF SamePlace
  <2>2. ASSUME NEW g \in ClientOf[c].uris, g.query = Absent, [g EXCEPT !.query = u.query] = u
        PROVE  SamePlace(c, g, u)
    <3>1. g.scheme = u.scheme /\ g.host = u.host /\ g.port = u.port /\ g.path = u.path
      BY <1>1, <2>2
    <3> QED
      BY <2>2, <3>1 DEF SamePlace
  <2> QED
    BY <1>2, <2>1, <2>2 DEF checkRedirectURIAgainstClient
<1>3. CASE ClientOf[c].native /\ ~checkRedirectURIAgainstClient(c, u)
  BY <1>3 DEF ValidateRedirectURI, validateRedirectURINative, HTTPLoopback, IsLocalhost, SamePlace
<1>4. CASE ~ClientOf[c].native
  BY <1>2, <1>4 DEF ValidateRedirectURI, validateRedirectURIWeb
<1> QED
  BY <1>2, <1>3, <1>4

\* Validation changes scopes and max_age only.
LEMMA NormalisedEffect ==
  ASSUME NEW c, NEW p \in Params, NEW default \in {{}, {"openid"}}
  PROVE  LET q == Normalised(c, p, default) IN
         /\ q \in Params
         /\ SameParams(q, p) /\ q.jkt = p.jkt
         /\ q.maxAge = IF "login" \in p.prompt THEN 0 ELSE p.maxAge
<1> DEFINE s == FilteredScopes(c, p, default)
           a == IF "login" \in p.prompt THEN 0 ELSE p.maxAge
           q == [p EXCEPT !.scopes = s, !.maxAge = a]
<1>1. Normalised(c, p, default) = q
  BY DEF Normalised, Params
<1>2. s \in SUBSET ((UNION Values("scopes")) \cup {"openid"})
  BY DEF FilteredScopes, Params
<1>3. a \in Nat
  BY DEF Params
<1> HIDE DEF s
<1>4. SameParams(q, p) /\ q.jkt = p.jkt /\ q.maxAge = a
  BY DEF SameParams, Params
<1> HIDE DEF a
<1>5. q \in Params
  BY <1>2, <1>3 DEF Params
<1> QED
  BY <1>1, <1>4, <1>5 DEF a

\* The proof header adds a key.
LEMMA WithKeyEffect ==
  ASSUME NEW p \in Params, NEW k \in Keys \cup {Absent}
  PROVE  LET q == WithKey(p, k) IN q \in Params /\ SameParams(q, p) /\ q.maxAge = p.maxAge
  BY DEF WithKey, Params, SameParams

\* The claims of a request object replace everything but the key.
LEMMA CopyEffect ==
  ASSUME NEW p \in Params, NEW o \in Objects
  PROVE  LET q == CopyRequestObjectToAuthRequest(p, o) IN
         q \in Params /\ SameParams(q, o.claims) /\ q.maxAge = o.claims.maxAge
<1>1. o.claims \in Params
  BY InputAssumption
<1> QED
  BY <1>1 DEF CopyRequestObjectToAuthRequest, Params, SameParams

\* What the verdicts rule out.
LEMMA PagePasses ==
  ASSUME NEW v, PageVerdict(v) = "ok"
  PROVE  v.verdict = "ok" /\ v.p.client \in Clients /\ ValidateRedirectURI(v.p.client, v.p)
  BY DEF PageVerdict

\* A request without an error has the parameters its client must send, by the route it must use.
LEMMA ErrorPasses ==
  ASSUME NEW v, ErrorVerdict(v) = "ok"
  PROVE  ~FapiRefused(v) /\ ~ObjectRefused(v) /\ ParamsValid(v.p.client, v.p, {})
  BY DEF ErrorVerdict

\* A request object is never refused as an expired or unknown URI, and an accepted one names a client.
LEMMA ObjectVerdicts ==
  ASSUME NEW p, NEW o
  PROVE  /\ ObjectVerdict(p, o) \notin {"expired_uri", "unknown_uri"}
         /\ ObjectVerdict(p, o) = "ok" => o.claims.client \in Clients
  BY DEF ObjectVerdict

\* A request_uri is refused for expiry only when it has expired, and not known when
\* there is no such entry or it was deleted.
LEMMA PARVerdicts ==
  ASSUME NEW p, NEW i
  PROVE  LET d == PARVerdict(p, i) IN
         /\ d \in {"ok", "expired_uri"} => i \in DOMAIN par /\ par[i].live
         /\ d = "ok" => ~Expired(i)
         /\ d = "expired_uri" => Expired(i)
         /\ d = "unknown_uri" => i \notin DOMAIN par \/ ~par[i].live
  BY DEF PARVerdict

\* The parameters of an accepted request are those of one source, and the way they
\* came is recorded truthfully.
ResolvedOK(v) ==
    /\ v.via \in {"query", "object", "remote", "par"} /\ v.uri \in Nat
    /\ v.verdict = "ok" => /\ v.p \in Params /\ v.src \in Params
                           /\ SameParams(v.p, v.src) /\ v.p.maxAge = v.src.maxAge
    /\ IF v.via = "par" THEN v.verdict = "ok" => v.uri \in DOMAIN par /\ ~Expired(v.uri) ELSE v.uri = 0
    /\ v.verdict = "expired_uri" => v.uri \in DOMAIN par /\ Expired(v.uri)
    /\ v.verdict = "unknown_uri" /\ v.uri \in DOMAIN par => ~par[v.uri].live

\* Putting the parameters together, by every route, gives such a result.
LEMMA ResolveSound ==
  ASSUME StoreInv, NEW rq \in Received
  PROVE  ResolvedOK(Resolve(rq))
<1> DEFINE v == Resolve(rq)
<1>1. rq.p \in Params /\ (rq.object = NoObject \/ rq.object \in Objects)
  BY InputAssumption DEF Received
<1>2. rq.uri \in Nat /\ (rq.uri # 0 => rq.uri \in DOMAIN par)
  <2>1. DOMAIN par \subseteq Nat
    BY DEF StoreInv, Shape
  <2>2. rq.uri = 0 \/ rq.uri \in DOMAIN par
    BY DEF Received
  <2> QED
    BY <2>1, <2>2
<1>3. \A o \in Objects : o # NoObject /\ o.claims \in Params /\ o.uri \in Nat
  BY InputAssumption
<1>4. \A i \in DOMAIN par : par[i] \in ParRec /\ par[i].p \in Params
  <2>1. par \in Seq(ParRec)
    BY DEF StoreInv, Shape
  <2>2. \A e \in ParRec : e.p \in Params
    BY DEF ParRec
  <2> HIDE DEF ParRec
  <2> QED
    BY <2>1, <2>2
<1>5. \A p \in Params : SameParams(p, p)
  BY DEF SameParams
<1>6. CASE rq.object = NoObject /\ rq.uri = 0
  BY <1>1, <1>5, <1>6 DEF Resolve, ResolvedOK
<1>7. CASE rq.object # NoObject /\ rq.uri # 0 /\ ~rq.remote
  BY <1>7 DEF Resolve, ResolvedOK
<1>8. CASE /\ rq.object # NoObject /\ (rq.uri = 0 \/ rq.remote)
           /\ ObjectVerdict(rq.p, rq.object) # "ok" \/ (rq.uri = 0 /\ (rq.remote \/ rq.object.uri = 0))
  <2>1. v = [verdict |-> ObjectVerdict(rq.p, rq.object), uri |-> 0,
             p |-> IF ObjectVerdict(rq.p, rq.object) = "ok" THEN CopyRequestObjectToAuthRequest(rq.p, rq.object) ELSE rq.p,
             via |-> IF rq.remote THEN "remote" ELSE "object", src |-> rq.object.claims]
    BY <1>8 DEF Resolve
  <2> QED
    BY <1>1, <1>3, <1>8, <2>1, CopyEffect, ObjectVerdicts DEF ResolvedOK
<1>9. ASSUME NEW p \in Params, NEW i \in Nat \ {0},
             v = [verdict |-> PARVerdict(p, i), p |-> IF PARVerdict(p, i) = "ok" THEN par[i].p ELSE p,
                  uri |-> i, via |-> "par", src |-> IF PARVerdict(p, i) = "ok" THEN par[i].p ELSE p]
      PROVE  ResolvedOK(v)
  BY <1>4, <1>5, <1>9, PARVerdicts DEF ResolvedOK
<1>10. CASE rq.object = NoObject /\ rq.uri # 0
  <2>1. v = [verdict |-> PARVerdict(rq.p, rq.uri), p |-> IF PARVerdict(rq.p, rq.uri) = "ok" THEN par[rq.uri].p ELSE rq.p,
             uri |-> rq.uri, via |-> "par", src |-> IF PARVerdict(rq.p, rq.uri) = "ok" THEN par[rq.uri].p ELSE rq.p]
    BY <1>10 DEF Resolve
  <2> QED
    BY <1>1, <1>2, <1>9, <1>10, <2>1
<1>11. CASE /\ rq.object # NoObject /\ rq.uri = 0 /\ ~rq.remote
            /\ ObjectVerdict(rq.p, rq.object) = "ok" /\ rq.object.uri # 0
  <2> DEFINE q == CopyRequestObjectToAuthRequest(rq.p, rq.object)
             i == rq.object.uri
  <2>1. v = [verdict |-> PARVerdict(q, i), p |-> IF PARVerdict(q, i) = "ok" THEN par[i].p ELSE q,
             uri |-> i, via |-> "par", src |-> IF PARVerdict(q, i) = "ok" THEN par[i].p ELSE q]
    BY <1>11 DEF Resolve
  <2>2. q \in Params /\ i \in Nat \ {0}
    BY <1>1, <1>3, <1>11, CopyEffect
  <2>3. ASSUME NEW r \in Params, r = q PROVE ResolvedOK(v)
    BY <1>9, <2>1, <2>2, <2>3
  <2> QED
    BY <2>2, <2>3
<1>12. rq.remote => rq.uri = 0
  BY <1>3 DEF Received
<1> QED
  BY <1>6, <1>7, <1>8, <1>10, <1>11, <1>12

-----------------------------------------------------------------------------
(* Answers.                                                                *)

\* The signature of what a client has asked to be signed.
Signed(mode, a) == HasJARMSigner /\ isJARMResponseMode(mode) => a.carriage.signed

\* A response mode that asks for a signature gets one.
LEMMA CarriageSigned ==
  ASSUME NEW p, HasJARMSigner, isJARMResponseMode(p.mode)
  PROVE  Carriage(resolveResponseMode(p)).signed
<1>1. resolveResponseMode(p) = p.mode
  BY DEF resolveResponseMode, isJARMResponseMode, Absent
<1> QED
  BY <1>1 DEF Carriage

\* An error goes where the parameters say, signed when they ask for it.
LEMMA ErrorAnswer ==
  ASSUME NEW p, NEW why
  PROVE  LET a == writeAuthError(p, why) IN
         /\ a.kind = "error" /\ a.to = p.redirect /\ a.client = p.client /\ a.mode = p.mode
         /\ Signed(p.mode, a)
  BY CarriageSigned DEF writeAuthError, Signed

\* What an answer says of the request it is for.
AnswerFor(r, a) ==
    /\ a.kind \in {"error", "code", "front", "none"}
    /\ a.to = r.p.redirect /\ a.client = r.p.client
    /\ a.kind # "error" => a.id = r.id
    /\ a.kind = "error" => a.mode = r.p.mode
    /\ a.kind \in {"error", "code"} => Signed(r.p.mode, a)
    /\ a.kind = "front" =>
           /\ EnableImplicit
           /\ a.at \in BOOLEAN
           /\ a.idt.sub # Absent => /\ a.idt.sub = r.sub /\ a.idt.aud = r.p.client
                                /\ a.idt.nonce = r.p.nonce /\ WantsIDToken(r.p.rtype)
                                /\ a.idt.at_hash = a.at /\ a.idt.c_hash = a.code

\* Every answer of authResponse says that.
LEMMA AnswerSound ==
  ASSUME NEW r, NEW failing
  PROVE  AnswerFor(r, authResponse(r, failing))
<1> DEFINE a == authResponse(r, failing)
<1>1. ASSUME NEW why, a = writeAuthError(r.p, why)
      PROVE  AnswerFor(r, a)
  <2>1. \A e : LET x == writeAuthError(r.p, e) IN
            /\ x.kind = "error" /\ x.to = r.p.redirect /\ x.client = r.p.client /\ x.mode = r.p.mode
            /\ Signed(r.p.mode, x)
    BY ErrorAnswer
  <2> QED
    BY <1>1, <2>1 DEF AnswerFor
<1>2. CASE a = Answer(r, "none", [carrier |-> "query", signed |-> FALSE])
  BY <1>2 DEF AnswerFor, Answer
<1>3. CASE a = Answer(r, "code", Carriage(resolveResponseMode(r.p)))
  BY <1>3, CarriageSigned DEF AnswerFor, Answer, Signed
<1>4. CASE EnableImplicit /\ a = FrontChannel(r, failing)
  <2> DEFINE code == isHybridResponseType(r.p.rtype)
             at == WantsToken(r.p.rtype) /\ "token" \notin failing
             idt == IF WantsIDToken(r.p.rtype) /\ "id_token" \notin failing
                    THEN createImplicitIDToken(r, at, code) ELSE [sub |-> Absent]
  <2>1. /\ a.kind = "front" /\ a.to = r.p.redirect /\ a.client = r.p.client /\ a.id = r.id
        /\ a.code = code /\ a.at = at /\ a.idt = idt
    BY <1>4 DEF FrontChannel
  <2>2. at \in BOOLEAN
    OBVIOUS
  <2> HIDE DEF at, code
  <2>3. idt.sub # Absent => /\ idt.sub = r.sub /\ idt.aud = r.p.client /\ idt.nonce = r.p.nonce
                        /\ WantsIDToken(r.p.rtype) /\ idt.at_hash = at /\ idt.c_hash = code
    BY DEF createImplicitIDToken
  <2> HIDE DEF idt
  <2> QED
    BY <1>4, <2>1, <2>2, <2>3 DEF AnswerFor
<1>5. \/ a = writeAuthError(r.p, "server_error")
      \/ a = writeAuthError(r.p, "unsupported_response_type")
      \/ a = Answer(r, "none", [carrier |-> "query", signed |-> FALSE])
      \/ a = Answer(r, "code", Carriage(resolveResponseMode(r.p)))
      \/ EnableImplicit /\ a = FrontChannel(r, failing)
  BY DEF authResponse
<1> QED
  BY <1>1, <1>2, <1>3, <1>4, <1>5

-----------------------------------------------------------------------------
(* Requests that are stored.                                               *)

\* The constants' types, and no client or user without a name.
LEMMA Constants ==
  /\ Absent \notin Clients /\ Absent \notin Subjects
  /\ MaxTime \in Nat /\ MaxReq \in Nat /\ MaxPar \in Nat /\ ParLifetime \in Nat
  /\ \A c \in Clients : ClientOf[c].parLifetime \in Nat
  BY ServerAssumption

\* What the checks of handleAuthorize establish of a request that passes them.
ReqBase(r) ==
    /\ r.p.client \in Clients
    /\ Registered(r.p)
    /\ SameParams(r.p, r.src)
    /\ NonceValid(r.p)
    /\ ClientOf[r.p.client].fapi \/ ClientOf[r.p.client].signedObject => r.via # "query"

StoredFor(r, v, sub, at, done) ==
    /\ r.id = Len(reqs) + 1 /\ r.p \in Params /\ r.src \in Params
    /\ r.via \in {"query", "object", "remote", "par"} /\ r.uri \in Nat
    /\ r.sub = sub /\ r.at = at /\ r.done = done /\ r.silent = done /\ r.made = now
    /\ r.cookie = IF done THEN session ELSE NoSession
    /\ ReqBase(r) /\ Linked(r)
    /\ r.p.client = v.p.client /\ r.src.prompt = v.p.prompt /\ r.src.hint = v.p.hint
    /\ r.src.maxAge = v.p.maxAge

\* A request that passes all the checks is stored as it was resolved, for whichever user.
LEMMA StoredSound ==
  ASSUME StoreInv, NEW rq \in Received, NEW k \in Keys \cup {Absent},
         PageVerdict(Resolve(rq)) = "ok", ErrorVerdict(Resolve(rq)) = "ok"
  PROVE  \A sub, at, done : StoredFor(Stored(Resolve(rq), k, sub, at, done), Resolve(rq), sub, at, done)
<1> TAKE sub, at, done
<1> DEFINE v == Resolve(rq)
           p == Normalised(v.p.client, v.p, {})
           q == WithKey(p, k)
           r == Stored(v, k, sub, at, done)
<1>1. ResolvedOK(v)
  BY ResolveSound
<1>2. /\ v.verdict = "ok" /\ v.p.client \in Clients /\ ValidateRedirectURI(v.p.client, v.p)
      /\ ~FapiRefused(v) /\ ~ObjectRefused(v) /\ ParamsValid(v.p.client, v.p, {})
  BY PagePasses, ErrorPasses
<1>3. v.p \in Params /\ v.src \in Params /\ SameParams(v.p, v.src) /\ v.p.maxAge = v.src.maxAge
  BY <1>1, <1>2 DEF ResolvedOK
<1>4. p \in Params /\ SameParams(p, v.p)
  BY <1>2, <1>3, NormalisedEffect
<1>5. q \in Params /\ SameParams(q, p)
  BY <1>4, WithKeyEffect
<1>6. /\ r.id = Len(reqs) + 1 /\ r.p = q /\ r.via = v.via /\ r.uri = v.uri /\ r.src = v.src
      /\ r.sub = sub /\ r.at = at /\ r.done = done /\ r.silent = done /\ r.made = now
      /\ r.cookie = IF done THEN session ELSE NoSession
  BY DEF Stored
<1> HIDE DEF v, p, q, r
<1>7. SameParams(q, v.p) /\ SameParams(q, v.src)
  BY <1>3, <1>4, <1>5 DEF SameParams
<1>8. ReqBase(r)
  <2>1. r.p.client = v.p.client /\ r.p.redirect = v.p.redirect /\ r.p.nonce = v.p.nonce /\ r.p.rtype = v.p.rtype
    BY <1>6, <1>7 DEF SameParams
  <2>2. Registered(r.p)
    BY <1>2, <1>3, <2>1, RedirectRegistered DEF Registered
  <2>3. NonceValid(r.p)
    BY <1>2, <2>1 DEF NonceValid, ParamsValid
  <2>4. ClientOf[r.p.client].fapi \/ ClientOf[r.p.client].signedObject => r.via # "query"
    BY <1>2, <1>6, <2>1 DEF FapiRefused, ObjectRefused, SignedRequestObjectRequired
  <2> QED
    BY <1>2, <1>6, <1>7, <2>1, <2>2, <2>3, <2>4 DEF ReqBase
<1>9. Linked(r)
  <2>1. CASE v.via = "par"
    <3>1. v.uri \in DOMAIN par /\ ~(now > par[v.uri].expires)
      BY <1>1, <1>2, <2>1 DEF ResolvedOK, Expired
    <3>2. par \in Seq(ParRec) /\ now \in Nat
      BY Constants DEF StoreInv, Shape
    <3>3. par[v.uri].expires \in Nat
      <4>1. par[v.uri] \in ParRec
        BY <3>1, <3>2
      <4> QED
        BY <4>1 DEF ParRec
    <3> QED
      BY <1>6, <2>1, <3>1, <3>2, <3>3 DEF Linked
  <2> QED
    BY <1>1, <1>6, <2>1 DEF Linked, ResolvedOK
<1>10. r.src.prompt = v.p.prompt /\ r.src.hint = v.p.hint /\ r.p.client = v.p.client /\ r.src.maxAge = v.p.maxAge
  BY <1>3, <1>6, <1>7 DEF SameParams
<1>11. r.via \in {"query", "object", "remote", "par"} /\ r.uri \in Nat
  BY <1>1, <1>6 DEF ResolvedOK
<1> QED
  BY <1>3, <1>5, <1>6, <1>8, <1>9, <1>10, <1>11 DEF v, r, StoredFor

-----------------------------------------------------------------------------
(* The stores.                                                             *)

\* What the invariant says of one stored request.
LEMMA Answers ==
  ASSUME StoreInv, NEW i \in DOMAIN reqs
  PROVE  /\ reqs[i] \in ReqRec /\ reqs[i].id = i /\ i \in 1..MaxReq /\ i \in Nat
         /\ ReqOK(reqs[i]) /\ Linked(reqs[i])
  <1>1. reqs \in Seq(ReqRec) /\ Len(reqs) <= MaxReq
    BY DEF StoreInv, Shape
  <1>2. reqs[i] \in ReqRec /\ i \in 1..MaxReq
    BY <1>1, Constants
  <1> QED
    BY <1>2 DEF StoreInv

\* What the steps of the store have in common: the requests' part and the pushed part.
LEMMA NewRequest ==
  ASSUME StoreInv, Len(reqs) < MaxReq, UNCHANGED <<now, session, par>>,
         recorded' \subseteq Subjects \X Clients, tokens' \subseteq 1..MaxReq
  PROVE  \A r \in ReqRec : /\ r.id = Len(reqs) + 1 /\ ReqOK(r) /\ Linked(r)
                           /\ reqs' = Append(reqs, r)
                           => StoreInv'
<1> SUFFICES ASSUME NEW r \in ReqRec, r.id = Len(reqs) + 1, ReqOK(r), Linked(r), reqs' = Append(reqs, r)
             PROVE  StoreInv'
  OBVIOUS
<1>1. reqs \in Seq(ReqRec) /\ Len(reqs) \in Nat /\ MaxReq \in Nat
  BY Constants DEF StoreInv, Shape
<1>2. /\ reqs' \in Seq(ReqRec) /\ Len(reqs') = Len(reqs) + 1 /\ DOMAIN reqs' = DOMAIN reqs \cup {Len(reqs) + 1}
      /\ reqs'[Len(reqs) + 1] = r /\ \A i \in DOMAIN reqs : reqs'[i] = reqs[i] /\ i # Len(reqs) + 1
  BY <1>1
<1>3. Shape'
  BY <1>1, <1>2 DEF StoreInv, Shape
<1>4. \A i \in DOMAIN par' : ParOK(par[i])'
  BY DEF StoreInv, ParOK
<1>5. \A i \in DOMAIN reqs' : (reqs[i].id = i /\ ReqOK(reqs[i]) /\ Linked(reqs[i]))'
  <2>1. \A x : Linked(x) = Linked(x)'
    BY DEF Linked
  <2>2. \A i \in DOMAIN reqs : reqs[i].id = i /\ ReqOK(reqs[i]) /\ Linked(reqs[i])
    BY DEF StoreInv
  <2> QED
    BY <1>2, <2>1, <2>2 DEF Linked
<1> QED
  BY <1>3, <1>4, <1>5 DEF StoreInv

\* A step that changes a stored request and keeps its origin preserves the invariant.
LEMMA ChangedRequest ==
  ASSUME StoreInv, UNCHANGED <<now, par, recorded, tokens>>, NEW i \in DOMAIN reqs,
         session' \in SessionRec \cup {NoSession}, session'.at <= now
  PROVE  \A r \in ReqRec : /\ r.id = i /\ ReqOK(r) /\ r.via = reqs[i].via /\ r.uri = reqs[i].uri /\ r.made = reqs[i].made
                           /\ reqs' = [reqs EXCEPT ![i] = r]
                           => StoreInv'
<1> SUFFICES ASSUME NEW r \in ReqRec, r.id = i, ReqOK(r), r.via = reqs[i].via, r.uri = reqs[i].uri, r.made = reqs[i].made,
                    reqs' = [reqs EXCEPT ![i] = r]
             PROVE  StoreInv'
  OBVIOUS
<1>1. reqs \in Seq(ReqRec)
  BY DEF StoreInv, Shape
<1>2. /\ reqs' \in Seq(ReqRec) /\ Len(reqs') = Len(reqs) /\ DOMAIN reqs' = DOMAIN reqs
      /\ reqs'[i] = r /\ \A j \in DOMAIN reqs : j # i => reqs'[j] = reqs[j]
  BY <1>1
<1>3. Shape'
  BY <1>1, <1>2 DEF StoreInv, Shape
<1>4. \A j \in DOMAIN par' : ParOK(par[j])'
  BY DEF StoreInv, ParOK
<1>5. \A j \in DOMAIN reqs' : (reqs[j].id = j /\ ReqOK(reqs[j]) /\ Linked(reqs[j]))'
  <2>1. \A j \in DOMAIN reqs : reqs[j].id = j /\ ReqOK(reqs[j]) /\ Linked(reqs[j])
    BY DEF StoreInv
  <2>2. Linked(r) /\ \A x : Linked(x) = Linked(x)'
    BY <2>1 DEF Linked
  <2> QED
    BY <1>2, <2>1, <2>2 DEF Linked
<1> QED
  BY <1>3, <1>4, <1>5 DEF StoreInv

\* Pushing adds an entry that lives as long as the answer says, or as its client has registered.
LEMMA PushStep ==
  ASSUME StoreInv, Len(par) < MaxPar, NEW c \in Clients, NEW p \in Pushed,
         NEW o \in Objects \cup {NoObject}, NEW k \in Keys \cup {Absent}, Push(c, p, o, k)
  PROVE  StoreInv'
<1> DEFINE p1 == IF o # NoObject THEN CopyRequestObjectToAuthRequest(p, o) ELSE p
           p2 == WithKey(p1, k)
           q == Normalised(c, p2, {"openid"})
           e == [p |-> q, by |-> c, live |-> TRUE,
                 expires |-> now + parLifetime(c), told |-> now + ParLifetime]
<1>1. par' = Append(par, e) /\ UNCHANGED <<now, session, reqs, recorded, tokens>>
  BY DEF Push, WithKey
<1>2. p1 \in Params /\ p1.client \in Clients \cup {Absent}
  <2>1. CASE o = NoObject
    BY <2>1, InputAssumption
  <2>2. CASE o \in Objects
    <3>1. p \in Params /\ o # NoObject
      BY <2>2, InputAssumption
    <3>2. o.claims.client \in Clients
      BY <3>1, ObjectVerdicts DEF Push
    <3> QED
      BY <2>2, <3>1, <3>2, CopyEffect DEF SameParams
  <2> QED
    BY <2>1, <2>2
<1> HIDE DEF p1
<1>3. p2 \in Params /\ p2.client \in Clients \cup {Absent}
  BY <1>2, WithKeyEffect DEF SameParams
<1> HIDE DEF p2
<1>4. q \in Params /\ q.client \in Clients \cup {Absent}
  BY <1>3, NormalisedEffect DEF SameParams
<1> HIDE DEF q
<1>5. now \in Nat /\ par \in Seq(ParRec) /\ Len(par) \in Nat /\ MaxPar \in Nat
  BY Constants DEF StoreInv, Shape
<1>6. parLifetime(c) \in Nat /\ (ClientOf[c].parLifetime > 0 \/ parLifetime(c) = ParLifetime)
  BY Constants DEF parLifetime
<1>7. e \in ParRec /\ ParOK(e) /\ ParOK(e)'
  BY <1>1, <1>4, <1>5, <1>6, Constants DEF ParRec, ParOK
<1> HIDE DEF e
<1>8. /\ par' \in Seq(ParRec) /\ Len(par') = Len(par) + 1 /\ DOMAIN par' = DOMAIN par \cup {Len(par) + 1}
      /\ par'[Len(par) + 1] = e /\ \A i \in DOMAIN par : par'[i] = par[i]
  BY <1>1, <1>5, <1>7
<1>9. Shape'
  BY <1>1, <1>5, <1>8 DEF StoreInv, Shape
<1>10. \A i \in DOMAIN par' : ParOK(par[i])'
  <2>1. \A x : ParOK(x) => ParOK(x)'
    BY <1>1 DEF ParOK
  <2>2. \A i \in DOMAIN par : ParOK(par[i])
    BY DEF StoreInv
  <2> QED
    BY <1>7, <1>8, <2>1, <2>2 DEF ParOK
<1>11. \A i \in DOMAIN reqs' : (reqs[i].id = i /\ ReqOK(reqs[i]) /\ Linked(reqs[i]))'
  BY <1>1, <1>8 DEF StoreInv, Linked
<1> QED
  BY <1>9, <1>10, <1>11 DEF StoreInv

\* Looking an expired entry up deletes it.
LEMMA PageStep ==
  ASSUME StoreInv, NEW rq \in Received, AuthorizePage(rq)
  PROVE  StoreInv' /\ GoneForCause'
<1> DEFINE v == Resolve(rq)
<1>1. ResolvedOK(v)
  BY ResolveSound
<1>2. /\ par' = Cleaned(v) /\ UNCHANGED <<now, session, reqs, recorded, tokens>>
      /\ out' = Page(PageVerdict(v), v.uri)
  BY DEF AuthorizePage
<1>3. par \in Seq(ParRec) /\ now \in Nat
  BY Constants DEF StoreInv, Shape
<1> HIDE DEF v
<1>4. /\ par' \in Seq(ParRec) /\ Len(par') = Len(par) /\ DOMAIN par' = DOMAIN par
      /\ \A i \in DOMAIN par : /\ par'[i].p = par[i].p /\ par'[i].by = par[i].by
                               /\ par'[i].expires = par[i].expires /\ par'[i].told = par[i].told
                               /\ par'[i].live = par[i].live \/ now > par[i].expires
  <2>1. CASE v.verdict # "expired_uri"
    BY <1>2, <1>3, <2>1 DEF Cleaned
  <2>2. CASE v.verdict = "expired_uri"
    <3>1. v.uri \in DOMAIN par /\ now > par[v.uri].expires
      BY <1>1, <2>2 DEF ResolvedOK, Expired
    <3> DEFINE e == [par[v.uri] EXCEPT !.live = FALSE]
    <3>2. par' = [par EXCEPT ![v.uri] = e]
      BY <1>2, <2>2 DEF Cleaned
    <3>3. /\ e \in ParRec /\ e.p = par[v.uri].p /\ e.by = par[v.uri].by
          /\ e.expires = par[v.uri].expires /\ e.told = par[v.uri].told
      <4>1. par[v.uri] \in ParRec
        BY <1>3, <3>1
      <4> QED
        BY <4>1 DEF ParRec
    <3> HIDE DEF e
    <3>4. /\ par' \in Seq(ParRec) /\ Len(par') = Len(par) /\ DOMAIN par' = DOMAIN par
          /\ par'[v.uri] = e /\ \A i \in DOMAIN par : i # v.uri => par'[i] = par[i]
      BY <1>3, <3>1, <3>2, <3>3
    <3> QED
      BY <3>1, <3>3, <3>4
  <2> QED
    BY <2>1, <2>2
<1>5. Shape'
  BY <1>2, <1>4 DEF StoreInv, Shape
<1>6. \A i \in DOMAIN par' : ParOK(par[i])'
  BY <1>2, <1>4 DEF StoreInv, ParOK
<1>7. \A i \in DOMAIN reqs' : (reqs[i].id = i /\ ReqOK(reqs[i]) /\ Linked(reqs[i]))'
  BY <1>2, <1>4 DEF StoreInv, Linked
<1>8. GoneForCause'
  <2> SUFFICES ASSUME PageVerdict(v) \in {"expired_uri", "unknown_uri"}, v.uri \in DOMAIN par
               PROVE  now > par[v.uri].told \/ ClientOf[par[v.uri].by].parLifetime > 0
    BY <1>2, <1>4 DEF GoneForCause, Page
  <2>1. v.verdict \in {"expired_uri", "unknown_uri"}
    BY DEF PageVerdict
  <2>2. ~par[v.uri].live \/ now > par[v.uri].expires
    BY <1>1, <2>1 DEF ResolvedOK, Expired
  <2>3. ParOK(par[v.uri])
    BY DEF StoreInv
  <2> QED
    BY <2>2, <2>3 DEF ParOK
<1> QED
  BY <1>5, <1>6, <1>7, <1>8 DEF StoreInv

-----------------------------------------------------------------------------
(* What leaves the endpoint.                                               *)

\* An answer for a completed request.
LEMMA RespondSound ==
  ASSUME StoreInv, NEW failing
  PROVE  \A r \in ReqRec : ReqOK(r) /\ r.done /\ r.id \in 1..MaxReq /\ Respond(r, failing) =>
             /\ recorded' \subseteq Subjects \X Clients /\ tokens' \subseteq 1..MaxReq
             /\ reqs'[r.id] = r => OutInv'
<1> SUFFICES ASSUME NEW r \in ReqRec, ReqOK(r), r.done, r.id \in 1..MaxReq, Respond(r, failing)
             PROVE  /\ recorded' \subseteq Subjects \X Clients /\ tokens' \subseteq 1..MaxReq
                    /\ reqs'[r.id] = r => OutInv'
  OBVIOUS
<1>1. AnswerFor(r, out')
  BY AnswerSound DEF Respond
<1>2. r.sub \in Subjects /\ r.p.client \in Clients /\ Registered(r.p) /\ SameParams(r.p, r.src) /\ NonceValid(r.p)
  BY DEF ReqOK
<1>3. /\ out'.kind = "front" /\ out'.at => r.id \in tokens'
      /\ out'.kind = "front" => <<r.sub, r.p.client>> \in recorded'
      /\ tokens' \subseteq tokens \cup {r.id}
      /\ recorded' \subseteq recorded \cup {<<r.sub, r.p.client>>}
  BY DEF Respond
<1>4. recorded' \subseteq Subjects \X Clients /\ tokens' \subseteq 1..MaxReq
  <2>1. recorded \subseteq Subjects \X Clients /\ tokens \subseteq 1..MaxReq
    BY DEF StoreInv, Shape
  <2>2. <<r.sub, r.p.client>> \in Subjects \X Clients
    BY <1>2
  <2> QED
    BY <1>3, <2>1, <2>2
<1>5. ASSUME reqs'[r.id] = r
      PROVE  OutInv'
  <2>1. RedirectFaithful'
    BY <1>1, <1>2 DEF RedirectFaithful, AnswerFor, Registered
  <2>2. AnsweredWhenDone'
    BY <1>1, <1>2, <1>5 DEF AnsweredWhenDone, AnswerFor
  <2>3. FrontChannelSound'
    <3> SUFFICES ASSUME out'.kind = "front"
                 PROVE  /\ EnableImplicit
                        /\ out'.at => out'.id \in tokens'
                        /\ <<reqs'[out'.id].sub, out'.client>> \in recorded'
                        /\ out'.idt.sub # Absent =>
                               /\ out'.idt.sub = reqs'[out'.id].sub /\ out'.idt.aud = out'.client
                               /\ out'.idt.nonce # Absent /\ out'.idt.nonce = reqs'[out'.id].src.nonce
                               /\ out'.idt.at_hash = out'.at /\ out'.idt.c_hash = out'.code
      BY DEF FrontChannelSound
    <3>1. out'.id = r.id /\ out'.client = r.p.client /\ EnableImplicit
      BY <1>1 DEF AnswerFor
    <3>2. out'.idt.sub # Absent => /\ out'.idt.sub = r.sub /\ out'.idt.aud = r.p.client
                                   /\ out'.idt.nonce = r.p.nonce /\ WantsIDToken(r.p.rtype)
                                   /\ out'.idt.at_hash = out'.at /\ out'.idt.c_hash = out'.code
      BY <1>1 DEF AnswerFor
    <3>3. WantsIDToken(r.p.rtype) => r.p.nonce # Absent
      BY <1>2 DEF WantsIDToken, NonceValid
    <3>4. r.p.nonce = r.src.nonce
      BY <1>2 DEF SameParams
    <3> QED
      BY <1>3, <1>5, <3>1, <3>2, <3>3, <3>4
  <2>4. SignedWhenAsked'
    BY <1>1, <1>2, <1>5 DEF SignedWhenAsked, AnswerFor, Signed, SameParams
  <2>5. GoneForCause'
    BY <1>1 DEF GoneForCause, AnswerFor
  <2> QED
    BY <2>1, <2>2, <2>3, <2>4, <2>5 DEF OutInv, ResponsesSound
<1> QED
  BY <1>4, <1>5

\* An error for parameters whose redirect URI is known to be their client's.
LEMMA ErrorOut ==
  ASSUME NEW why
  PROVE  \A p : Registered(p) /\ out' = writeAuthError(p, why) => OutInv'
<1> SUFFICES ASSUME NEW p, Registered(p), out' = writeAuthError(p, why)
             PROVE  OutInv'
  OBVIOUS
<1>1. /\ out'.kind = "error" /\ out'.to = p.redirect /\ out'.client = p.client /\ out'.mode = p.mode
      /\ Signed(p.mode, out')
  BY ErrorAnswer
<1>2. RedirectFaithful'
  BY <1>1 DEF RedirectFaithful, Registered
<1>3. ResponsesSound'
  BY <1>1 DEF ResponsesSound, AnsweredWhenDone, FrontChannelSound, SignedWhenAsked, Signed
<1> QED
  BY <1>1, <1>2, <1>3 DEF OutInv, GoneForCause

\* Everything else that is answered stays with the server.
LEMMA QuietOut ==
  ASSUME out'.kind \in {"idle", "pushed", "login", "redirect_to"}
  PROVE  OutInv'
  BY DEF OutInv, RedirectFaithful, ResponsesSound, AnsweredWhenDone, FrontChannelSound, SignedWhenAsked, GoneForCause

\* An error page is no answer to a client.
LEMMA PageOut ==
  ASSUME out'.kind = "page", GoneForCause'
  PROVE  OutInv'
  BY DEF OutInv, RedirectFaithful, ResponsesSound, AnsweredWhenDone, FrontChannelSound, SignedWhenAsked

-----------------------------------------------------------------------------
(* The steps.                                                              *)

\* A request completed at once rests on the session of its own client, recent
\* enough for its max_age, which prompt=login has forced to zero.
LEMMA SilentStep ==
  ASSUME StoreInv, Len(reqs) < MaxReq, NEW rq \in Received, NEW k \in Keys \cup {Absent}, NEW failing,
         AuthorizeSilent(rq, k, failing)
  PROVE  StoreInv' /\ OutInv'
<1> DEFINE v == Resolve(rq)
           p == Normalised(v.p.client, v.p, {})
           r == Stored(v, k, session.sub, session.at, TRUE)
<1>1. /\ PageVerdict(v) = "ok" /\ ErrorVerdict(v) = "ok"
      /\ IF "none" \in p.prompt THEN SilentSession(p) ELSE p.maxAge # NoMaxAge /\ Recent(p)
      /\ reqs' = Append(reqs, r) /\ Respond(r, failing) /\ UNCHANGED <<now, session, par>>
  BY DEF AuthorizeSilent
<1>2. /\ r.id = Len(reqs) + 1 /\ r.p \in Params /\ r.src \in Params
      /\ r.via \in {"query", "object", "remote", "par"} /\ r.uri \in Nat
      /\ r.sub = session.sub /\ r.at = session.at /\ r.done = TRUE /\ r.silent = TRUE /\ r.made = now
      /\ r.cookie = session
      /\ ReqBase(r) /\ Linked(r)
      /\ r.p.client = v.p.client /\ r.src.prompt = v.p.prompt /\ r.src.hint = v.p.hint
      /\ r.src.maxAge = v.p.maxAge
  <2>1. StoredFor(r, v, session.sub, session.at, TRUE)
    BY <1>1, StoredSound
  <2> QED
    BY <2>1 DEF StoredFor
<1>3. ParamsValid(v.p.client, v.p, {}) /\ v.p \in Params
  <2>1. v.verdict = "ok" /\ ParamsValid(v.p.client, v.p, {})
    BY <1>1, PagePasses, ErrorPasses
  <2> QED
    BY <2>1, ResolveSound DEF ResolvedOK
<1>4. /\ p.client = v.p.client /\ p.prompt = v.p.prompt /\ p.hint = v.p.hint
      /\ p.maxAge = IF "login" \in v.p.prompt THEN 0 ELSE v.p.maxAge
  BY <1>3, NormalisedEffect DEF SameParams
<1>5. r = [id |-> r.id, p |-> r.p, via |-> r.via, uri |-> r.uri, src |-> r.src, sub |-> r.sub, at |-> r.at,
           done |-> r.done, silent |-> r.silent, made |-> r.made, cookie |-> r.cookie]
  BY DEF Stored
<1> HIDE DEF v, p, r
<1>6. GetSession(v.p.client) /\ r.p.client \in Clients
  BY <1>1, <1>2, <1>4 DEF SilentSession, Recent, ReqBase
<1>7. session \in SessionRec /\ session.client = r.p.client
  <2>1. session.client \in Clients /\ session.client = r.p.client
    BY <1>2, <1>6 DEF GetSession
  <2>2. session \in SessionRec \cup {NoSession}
    BY DEF StoreInv, Shape
  <2> QED
    BY <2>1, <2>2, Constants DEF NoSession
<1>8. now \in Nat /\ session.at \in Nat /\ session.at <= now /\ session.sub \in Subjects
  BY <1>7, Constants DEF StoreInv, Shape, SessionRec
<1>9. SilentOK(r)
  <2>1. r.cookie = [sub |-> r.sub, at |-> r.at, client |-> r.p.client]
    BY <1>2, <1>7 DEF SessionRec
  <2>2. CASE "none" \in v.p.prompt
    <3>1. "login" \notin v.p.prompt
      BY <1>3, <2>2 DEF ParamsValid, PromptValid
    <3>2. v.p.hint.sub \in {Absent, r.sub}
      BY <1>1, <1>2, <1>4, <2>2 DEF SilentSession
    <3> QED
      BY <1>2, <2>1, <2>2, <3>1, <3>2 DEF SilentOK
  <2>3. CASE "none" \notin v.p.prompt
    <3>1. now - session.at < p.maxAge
      BY <1>1, <1>4, <2>3 DEF Recent
    <3>2. "login" \notin v.p.prompt
      BY <1>4, <1>8, <3>1
    <3> QED
      BY <1>2, <1>4, <2>1, <2>3, <3>1, <3>2 DEF SilentOK
  <2> QED
    BY <2>2, <2>3
<1>10. ReqOK(r)
  BY <1>2, <1>8, <1>9 DEF ReqOK, ReqBase
<1>11. r \in ReqRec
  <2>1. r.id \in Nat
    BY <1>2 DEF StoreInv, Shape
  <2> QED
    BY <1>2, <1>5, <1>7, <1>8, <2>1 DEF ReqRec
<1>12. r.id \in 1..MaxReq /\ reqs'[r.id] = r
  <2>1. reqs \in Seq(ReqRec) /\ Len(reqs) \in Nat /\ MaxReq \in Nat
    BY Constants DEF StoreInv, Shape
  <2> QED
    BY <1>1, <1>2, <1>11, <2>1
<1>13. /\ recorded' \subseteq Subjects \X Clients /\ tokens' \subseteq 1..MaxReq
       /\ OutInv'
  BY <1>1, <1>2, <1>10, <1>11, <1>12, RespondSound
<1> QED
  BY <1>1, <1>2, <1>10, <1>11, <1>13, NewRequest

\* A request that has to wait for a login is stored with no user.
LEMMA LoginStep ==
  ASSUME StoreInv, Len(reqs) < MaxReq, NEW rq \in Received, NEW k \in Keys \cup {Absent},
         AuthorizeLogin(rq, k)
  PROVE  StoreInv' /\ OutInv'
<1> DEFINE v == Resolve(rq)
           r == Stored(v, k, Absent, 0, FALSE)
<1>1. /\ PageVerdict(v) = "ok" /\ ErrorVerdict(v) = "ok"
      /\ reqs' = Append(reqs, r) /\ out'.kind = "login" /\ UNCHANGED <<now, session, par, recorded, tokens>>
  BY DEF AuthorizeLogin
<1>2. /\ r.id = Len(reqs) + 1 /\ r.p \in Params /\ r.src \in Params
      /\ r.via \in {"query", "object", "remote", "par"} /\ r.uri \in Nat
      /\ r.sub = Absent /\ r.at = 0 /\ r.done = FALSE /\ r.silent = FALSE /\ r.made = now
      /\ r.cookie = NoSession
      /\ ReqBase(r) /\ Linked(r)
  <2>1. StoredFor(r, v, Absent, 0, FALSE)
    BY <1>1, StoredSound
  <2> QED
    BY <2>1 DEF StoredFor
<1>3. r = [id |-> r.id, p |-> r.p, via |-> r.via, uri |-> r.uri, src |-> r.src, sub |-> r.sub, at |-> r.at,
           done |-> r.done, silent |-> r.silent, made |-> r.made, cookie |-> r.cookie]
  BY DEF Stored
<1> HIDE DEF v, r
<1>4. ReqOK(r)
  BY <1>2 DEF ReqOK, ReqBase
<1>5. r \in ReqRec
  <2>1. r.id \in Nat /\ now \in Nat
    BY <1>2, Constants DEF StoreInv, Shape
  <2> QED
    <3>1. /\ r.id \in Nat /\ r.p \in Params /\ r.via \in {"query", "object", "remote", "par"} /\ r.uri \in Nat
          /\ r.src \in Params /\ r.made \in Nat
      BY <1>2, <2>1, Zenon
    <3>2. r.sub \in Subjects \cup {Absent} /\ r.cookie \in SessionRec \cup {NoSession}
      BY <1>2
    <3>3. r.at \in Nat
      BY <1>2
    <3>4. r.done \in BOOLEAN /\ r.silent \in BOOLEAN
      BY <1>2, Zenon
    <3> QED
      BY <1>3, <3>1, <3>2, <3>3, <3>4 DEF ReqRec
<1>6. recorded \subseteq Subjects \X Clients /\ tokens \subseteq 1..MaxReq
  BY DEF StoreInv, Shape
<1> QED
  BY <1>1, <1>2, <1>4, <1>5, <1>6, NewRequest, QuietOut

\* Completing a request, on the password page or by handleAccept, leaves its parameters alone.
CompletedReq(x, s, t) ==
    [x EXCEPT !.done = TRUE, !.sub = s, !.at = t, !.silent = FALSE, !.cookie = NoSession]

AcceptedReq(x, s, t) == [x EXCEPT !.done = TRUE, !.sub = s, !.at = t]

\* The password page: the request stays what it was and is no longer a silent one.
LEMMA CompletedEffect ==
  ASSUME NEW x \in ReqRec, NEW s \in Subjects, NEW t \in Nat, ReqOK(x)
  PROVE  LET r == CompletedReq(x, s, t) IN
         r \in ReqRec /\ ReqOK(r) /\ r.id = x.id /\ r.via = x.via /\ r.uri = x.uri /\ r.made = x.made
<1> DEFINE r == CompletedReq(x, s, t)
<1>1. /\ r \in ReqRec /\ r.id = x.id /\ r.p = x.p /\ r.src = x.src /\ r.via = x.via /\ r.uri = x.uri /\ r.made = x.made
      /\ r.sub = s /\ r.silent = FALSE
  BY DEF ReqRec, CompletedReq
<1> HIDE DEF r
<1>2. ReqOK(r)
  BY <1>1 DEF ReqOK
<1> QED
  BY <1>1, <1>2 DEF r

\* handleAccept: a request that was not done was never completed silently.
LEMMA AcceptedEffect ==
  ASSUME NEW x \in ReqRec, NEW s \in Subjects, NEW t \in Nat, ReqOK(x), ~x.done
  PROVE  LET r == AcceptedReq(x, s, t) IN
         r \in ReqRec /\ ReqOK(r) /\ r.id = x.id /\ r.via = x.via /\ r.uri = x.uri /\ r.made = x.made
<1> DEFINE r == AcceptedReq(x, s, t)
<1>1. /\ r \in ReqRec /\ r.id = x.id /\ r.p = x.p /\ r.src = x.src /\ r.via = x.via /\ r.uri = x.uri /\ r.made = x.made
      /\ r.sub = s /\ r.silent = x.silent
  BY DEF ReqRec, AcceptedReq
<1> HIDE DEF r
<1>2. ReqOK(r)
  BY <1>1 DEF ReqOK, SilentOK
<1> QED
  BY <1>1, <1>2 DEF r

\* The password page completes a request and opens a session for its client.
LEMMA PasswordStep ==
  ASSUME StoreInv, NEW i, NEW s \in Subjects, CheckUsernamePassword(i, s)
  PROVE  StoreInv' /\ OutInv'
<1> DEFINE r == CompletedReq(reqs[i], s, now)
<1>1. i \in DOMAIN reqs /\ UNCHANGED <<now, par, recorded, tokens>>
  BY DEF CheckUsernamePassword
<1>2. reqs[i] \in ReqRec /\ reqs[i].id = i /\ ReqOK(reqs[i]) /\ now \in Nat
  BY <1>1, Answers, Constants DEF StoreInv, Shape
<1>3. reqs' = [reqs EXCEPT ![i] = r]
  BY <1>1 DEF CheckUsernamePassword, CompletedReq
<1>4. r \in ReqRec /\ ReqOK(r) /\ r.id = i /\ r.via = reqs[i].via /\ r.uri = reqs[i].uri /\ r.made = reqs[i].made
  BY <1>2, CompletedEffect
<1>5. session' \in SessionRec \cup {NoSession} /\ session'.at <= now
  BY <1>2 DEF CheckUsernamePassword, SessionRec, ReqOK
<1>6. out'.kind = "redirect_to"
  BY DEF CheckUsernamePassword
<1> HIDE DEF r
<1> QED
  BY <1>1, <1>3, <1>4, <1>5, <1>6, ChangedRequest, QuietOut

\* handleAccept completes a request that is not completed, which was therefore not completed silently.
LEMMA AcceptStep ==
  ASSUME StoreInv, NEW i, NEW s \in Subjects, handleAccept(i, s)
  PROVE  StoreInv' /\ OutInv'
<1> DEFINE r == AcceptedReq(reqs[i], s, now)
<1>1. i \in DOMAIN reqs /\ ~reqs[i].done /\ UNCHANGED <<now, session, par, recorded, tokens>>
  BY DEF handleAccept
<1>2. /\ reqs[i] \in ReqRec /\ reqs[i].id = i /\ ReqOK(reqs[i]) /\ now \in Nat
      /\ session \in SessionRec \cup {NoSession} /\ session.at <= now
  BY <1>1, Answers, Constants DEF StoreInv, Shape
<1>3. reqs' = [reqs EXCEPT ![i] = r]
  BY <1>1 DEF handleAccept, AcceptedReq
<1>4. r \in ReqRec /\ ReqOK(r) /\ r.id = i /\ r.via = reqs[i].via /\ r.uri = reqs[i].uri /\ r.made = reqs[i].made
  BY <1>1, <1>2, AcceptedEffect
<1>5. out'.kind = "redirect_to"
  BY DEF handleAccept
<1> HIDE DEF r
<1> QED
  BY <1>1, <1>2, <1>3, <1>4, <1>5, ChangedRequest, QuietOut

\* The callback answers a completed request.
LEMMA CallbackStep ==
  ASSUME StoreInv, NEW i, NEW failing, CallbackDone(i, failing)
  PROVE  StoreInv' /\ OutInv'
<1>1. i \in DOMAIN reqs /\ reqs[i].done /\ Respond(reqs[i], failing) /\ UNCHANGED <<now, session, par, reqs>>
  BY DEF CallbackDone
<1>2. reqs[i] \in ReqRec /\ reqs[i].id = i /\ i \in 1..MaxReq /\ ReqOK(reqs[i])
  BY <1>1, Answers
<1>3. recorded' \subseteq Subjects \X Clients /\ tokens' \subseteq 1..MaxReq /\ OutInv'
  BY <1>1, <1>2, RespondSound
<1> QED
  BY <1>1, <1>3 DEF StoreInv, Shape, ParOK, Linked

\* An error is redirected only after the redirect URI has been found to be the client's.
LEMMA ErrorStep ==
  ASSUME StoreInv, NEW rq \in Received, AuthorizeError(rq)
  PROVE  StoreInv' /\ OutInv'
<1> DEFINE v == Resolve(rq)
<1>1. PageVerdict(v) = "ok" /\ UNCHANGED <<now, session, par, reqs, recorded, tokens>>
  BY DEF AuthorizeError
<1>2. v.verdict = "ok" /\ v.p.client \in Clients /\ ValidateRedirectURI(v.p.client, v.p)
  BY <1>1, PagePasses
<1>3. v.p \in Params
  BY <1>2, ResolveSound DEF ResolvedOK
<1>4. Registered(v.p)
  BY <1>2, <1>3, RedirectRegistered DEF Registered
<1>5. out' = writeAuthError(v.p, ErrorVerdict(v)) \/ out' = writeAuthError(v.p, "login_required")
  BY DEF AuthorizeError
<1>6. OutInv'
  <2>1. \A why : out' = writeAuthError(v.p, why) => OutInv'
    BY <1>4, ErrorOut
  <2> QED
    BY <1>5, <2>1
<1> QED
  BY <1>1, <1>6 DEF StoreInv, Shape, ParOK, Linked

-----------------------------------------------------------------------------
(* The theorems.                                                           *)

\* The initial state satisfies the invariant.
LEMMA InitHolds ==
  ASSUME Init
  PROVE  StoreInv /\ OutInv
<1>1. Shape
  <2>1. session \in SessionRec \cup {NoSession} /\ session.at = 0
    BY ServerAssumption DEF Init, SessionRec, NoSession
  <2> QED
    BY <2>1, Constants DEF Init, Shape
<1>2. StoreInv
  BY <1>1 DEF StoreInv, Init
<1>3. OutInv
  BY DEF Init, NoAnswer, OutInv, RedirectFaithful, ResponsesSound, AnsweredWhenDone, FrontChannelSound,
         SignedWhenAsked, GoneForCause
<1> QED
  BY <1>2, <1>3

\* Every step preserves it: one case per action.
LEMMA NextHolds ==
  ASSUME StoreInv, OutInv, [Next]_vars
  PROVE  StoreInv' /\ OutInv'
<1>1. ASSUME Len(par) < MaxPar, NEW c \in Clients, NEW p \in Pushed, NEW o \in Objects \cup {NoObject},
             NEW k \in Keys \cup {Absent}, Push(c, p, o, k)
      PROVE  StoreInv' /\ OutInv'
  <2>1. out'.kind = "pushed"
    BY <1>1 DEF Push
  <2> QED
    BY <1>1, <2>1, PushStep, QuietOut
<1>2. ASSUME NEW rq \in Received, AuthorizePage(rq)
      PROVE  StoreInv' /\ OutInv'
  <2>1. out'.kind = "page"
    BY <1>2 DEF AuthorizePage, Page
  <2> QED
    BY <1>2, <2>1, PageStep, PageOut
<1>3. ASSUME NEW i, handleReject(i)
      PROVE  StoreInv' /\ OutInv'
  <2>1. out'.kind = "redirect_to" /\ UNCHANGED <<now, session, par, reqs, recorded, tokens>>
    BY <1>3 DEF handleReject
  <2> QED
    BY <2>1, QuietOut DEF StoreInv, Shape, ParOK, Linked
<1>4. ASSUME NEW i, CallbackError(i) \/ CallbackEarly(i)
      PROVE  StoreInv' /\ OutInv'
  <2>1. /\ i \in DOMAIN reqs /\ UNCHANGED <<now, session, par, reqs, recorded, tokens>>
        /\ \/ out' = writeAuthError(reqs[i].p, "access_denied")
           \/ out' = writeAuthError(reqs[i].p, "interaction_required")
    BY <1>4 DEF CallbackError, CallbackEarly
  <2>2. Registered(reqs[i].p)
    BY <2>1, Answers DEF ReqOK
  <2>3. \A why : out' = writeAuthError(reqs[i].p, why) => OutInv'
    BY <2>2, ErrorOut
  <2>4. StoreInv'
    BY <2>1 DEF StoreInv, Shape, ParOK, Linked
  <2> QED
    BY <2>1, <2>3, <2>4
<1>5. CASE Tick
  <2>1. now < MaxTime /\ now' = now + 1 /\ out'.kind = "idle" /\ UNCHANGED <<session, par, reqs, recorded, tokens>>
    BY <1>5 DEF Tick, NoAnswer
  <2>2. Shape
    BY DEF StoreInv
  <2>3. now \in Nat /\ now' \in 0..MaxTime /\ session.at <= now'
    <3>1. now \in Nat /\ session.at <= now /\ MaxTime \in Nat /\ session.at \in Nat
      BY <2>2, Constants DEF Shape, SessionRec, NoSession
    <3> QED
      BY <2>1, <3>1
  <2>4. Shape'
    BY <2>1, <2>2, <2>3 DEF Shape
  <2>5. \A j \in DOMAIN par : ParOK(par[j])'
    <3> SUFFICES ASSUME NEW j \in DOMAIN par PROVE ParOK(par[j])'
      OBVIOUS
    <3>1. ParOK(par[j])
      BY DEF StoreInv
    <3>2. par[j].expires \in Nat
      <4>1. par[j] \in ParRec
        BY <2>2 DEF Shape
      <4> QED
        BY <4>1 DEF ParRec
    <3> QED
      BY <2>1, <2>3, <3>1, <3>2 DEF ParOK
  <2>6. \A j \in DOMAIN reqs : (reqs[j].id = j /\ ReqOK(reqs[j]) /\ Linked(reqs[j]))'
    BY <2>1 DEF StoreInv, Linked
  <2> QED
    BY <2>1, <2>4, <2>5, <2>6, QuietOut DEF StoreInv
<1>6. CASE UNCHANGED vars
  BY <1>6 DEF vars, StoreInv, Shape, ParOK, Linked, OutInv, RedirectFaithful, ResponsesSound, AnsweredWhenDone,
              FrontChannelSound, SignedWhenAsked, GoneForCause
<1>7. ASSUME Len(reqs) < MaxReq, NEW rq \in Received,
             \/ AuthorizeError(rq)
             \/ \E k \in Keys \cup {Absent} : AuthorizeLogin(rq, k) \/ \E f \in Failing : AuthorizeSilent(rq, k, f)
      PROVE  StoreInv' /\ OutInv'
  BY <1>7, ErrorStep, LoginStep, SilentStep
<1>8. ASSUME NEW i,
             \/ \E s \in Subjects : handleAccept(i, s) \/ CheckUsernamePassword(i, s)
             \/ \E f \in Failing : CallbackDone(i, f)
      PROVE  StoreInv' /\ OutInv'
  BY <1>8, AcceptStep, PasswordStep, CallbackStep
<1> QED
  BY <1>1, <1>2, <1>3, <1>4, <1>5, <1>6, <1>7, <1>8 DEF Next

\* The inductive invariant: what is stored is sound, and so is what was answered last.
THEOREM StoreInvariance == Spec => [](StoreInv /\ OutInv)
<1>1. Init => StoreInv /\ OutInv
  BY InitHolds
<1>2. StoreInv /\ OutInv /\ [Next]_vars => (StoreInv /\ OutInv)'
  BY NextHolds
<1> QED
  BY <1>1, <1>2, PTL DEF Spec

\* Whatever route the parameters took, and whatever the answer is, it is sent to a place the client
\* it is for has registered (handler.go:167, and every redirect after it).
THEOREM RedirectFaithfulHolds == Spec => []RedirectFaithful
<1>1. StoreInv /\ OutInv => RedirectFaithful
  BY DEF OutInv
<1> QED
  BY <1>1, StoreInvariance, PTL

\* A code or token leaves only for a request that a user has completed; what the front channel carries
\* belongs together; a client that asked for a signed answer gets no unsigned one (handler.go:449-469,
\* response_mode.go:82-549, util.go:196-301).
THEOREM ResponsesSoundHolds == Spec => []ResponsesSound
<1>1. StoreInv /\ OutInv => ResponsesSound
  BY DEF OutInv
<1> QED
  BY <1>1, StoreInvariance, PTL

\* The parameters of a stored request all come from one source, and never from the bare query string
\* where the client must push or sign them (requestobject.go:172, handler.go:188-205).
THEOREM ParametersVouchedHolds == Spec => []ParametersVouched
<1>1. ASSUME StoreInv
      PROVE  ParametersVouched
  <2>1. OneSource
    <3> SUFFICES ASSUME NEW i \in DOMAIN reqs,
                        NEW f \in {"client", "redirect", "state", "nonce", "rtype", "mode", "prompt", "pkce", "hint"}
                 PROVE  reqs[i].p[f] = reqs[i].src[f]
      BY DEF OneSource
    <3>1. SameParams(reqs[i].p, reqs[i].src)
      BY <1>1, Answers DEF ReqOK
    <3> QED
      BY <3>1 DEF SameParams
  <2>2. NeverPlain
    BY <1>1, Answers DEF NeverPlain, ReqOK
  <2>3. ASSUME NEW i \in DOMAIN par
        PROVE  par[i].p.client \in Clients \cup {Absent} /\ par[i].by \in Clients
    <3>1. par[i] \in ParRec /\ ParOK(par[i])
      BY <1>1 DEF StoreInv, Shape
    <3> QED
      BY <3>1 DEF ParRec, ParOK
  <2>4. ASSUME NEW i \in DOMAIN reqs
        PROVE  /\ reqs[i].id = i /\ reqs[i].p.client \in Clients /\ reqs[i].p.mode \in Modes
               /\ reqs[i].done \in BOOLEAN /\ reqs[i].uri \in 0..MaxPar
    <3>1. reqs[i] \in ReqRec /\ reqs[i].id = i /\ ReqOK(reqs[i]) /\ Linked(reqs[i])
      BY <1>1, Answers
    <3>2. reqs[i].p \in Params /\ reqs[i].done \in BOOLEAN
      BY <3>1 DEF ReqRec
    <3>3. reqs[i].p.mode \in Modes
      BY <3>2 DEF Params
    <3>4. par \in Seq(ParRec) /\ Len(par) <= MaxPar /\ MaxPar \in Nat
      BY <1>1, Constants DEF StoreInv, Shape
    <3>5. reqs[i].uri \in 0..MaxPar
      BY <3>1, <3>4 DEF Linked
    <3> QED
      BY <3>1, <3>2, <3>3, <3>5 DEF ReqOK
  <2>5. session \in {NoSession} \cup [sub : Subjects, at : 0..MaxTime, client : Clients]
    <3>1. now \in 0..MaxTime /\ session \in SessionRec \cup {NoSession} /\ session.at <= now /\ MaxTime \in Nat
      BY <1>1, Constants DEF StoreInv, Shape
    <3> QED
      BY <3>1 DEF SessionRec
  <2>6. TypeOK
    BY <1>1, <2>3, <2>4, <2>5 DEF TypeOK, StoreInv, Shape
  <2> QED
    BY <2>1, <2>2, <2>6 DEF ParametersVouched
<1> QED
  BY <1>1, StoreInvariance, PTL

\* A request completed without a login page rests on the session of its own client, checked against the
\* hint or recent enough, and never on one when prompt=login was asked for (handler.go:277-400).
THEOREM SilentFaithfulHolds == Spec => []SilentFaithful
<1>1. ASSUME StoreInv
      PROVE  SilentFaithful
  BY <1>1, Answers DEF SilentFaithful, ReqOK, SilentOK
<1> QED
  BY <1>1, StoreInvariance, PTL

\* A pushed request is refused only after the time the answer to the push named, and none is used after
\* it has expired (par.go:228-244, storage/par.go:55-68).
THEOREM PushedLifetimeHolds == Spec => []PushedLifetime
<1>1. ASSUME StoreInv, OutInv
      PROVE  PushedLifetime
  <2>1. \A i \in DOMAIN reqs : reqs[i].via = "par" => reqs[i].made <= par[reqs[i].uri].expires
    BY <1>1, Answers DEF Linked
  <2> QED
    BY <1>1, <2>1 DEF PushedLifetime, OutInv, GoneForCause
<1> QED
  BY <1>1, StoreInvariance, PTL

=============================================================================
