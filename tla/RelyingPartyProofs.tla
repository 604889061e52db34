------------------------- MODULE RelyingPartyProofs -------------------------
(***************************************************************************)
(* Theorems about the relying party: for any number of browsers, logins    *)
(* and callback requests, for every discovery document and clock; and, in  *)
(* the second part, about its view of the provider's keys.                 *)
(***************************************************************************)
EXTENDS RelyingParty, RemoteKeySet, Sequences, FiniteSetTheorems, TLAPS

-----------------------------------------------------------------------------
(* The invariant.                                                          *)

ReadyRP == [status : {"ready"}, oauth2Only : BOOLEAN, pkce : BOOLEAN, algs : SUBSET STRING, cookies : BOOLEAN,
            userinfo : BOOLEAN]

Login == [phase : {"none", "redirecting", "atProvider", "code", "error"}, browser : Browsers \cup {NoBrowser}]

Jar == [state : {0} \cup Logins, pkce : {0} \cup Logins]

Callback == [pc : Answers \cup {"idle", "exchanging", "closed", "aborted"}, browser : Browsers \cup {NoBrowser},
             login : {0} \cup Logins, verifier : {0} \cup Logins, deletes : SUBSET {"state", "pkce"},
             seen : [kind : Kinds \cup {"none"}, issued : Int, now : Int]]

Shape ==
    /\ rp \in {[status |-> "none"], [status |-> "failed"]} \cup ReadyRP
    /\ login \in [Logins -> Login]
    /\ cookie \in [Browsers -> Jar]
    /\ req \in [Requests -> Callback]
    /\ spent \subseteq {a \in Logins : login[a].phase = "code"}

\* A verifier needs a cookie handler, and the algorithms are the issuer's.
RPOK ==
    IF rp.status = "ready"
    THEN (rp.pkce => rp.cookies) /\ (rp.algs = {} \/ ("RS256" \in rp.algs /\ "HS256" \notin rp.algs))
    ELSE \A a \in Logins : login[a].phase = "none"

\* Login a was begun in browser b.
Ours(a, b) == a \in Logins /\ Started(a) /\ login[a].browser = b

\* The cookies of a browser belong to a login of its own, both to the same one.
JarOK(b) ==
    /\ cookie[b].state # 0 => rp.status = "ready" /\ rp.cookies /\ Ours(cookie[b].state, b)
    /\ cookie[b].pkce # 0 => rp.status = "ready" /\ rp.pkce
    /\ cookie[b].state # 0 /\ cookie[b].pkce # 0 => cookie[b].pkce = cookie[b].state

\* What the clocks may be blamed for.
ClocksRefuse(seen) == seen.now < seen.issued - 3 \/ seen.now + Second >= FromTime(seen.issued + Lifetime)

\* The token responses that may end in a login.
MayEndInLogin(kind) ==
    \/ kind \in {"genuine", "shared"}
    \/ kind = "otherAlg" /\ rp.algs = {}
    \/ kind = "otherUser" /\ ~rp.userinfo

\* A callback that has begun belongs to a login that came back from the provider,
\* and has passed the checks of the steps that it has made.
ReqOK(q) ==
    /\ rp.status = "ready"
    /\ q.browser \in Browsers /\ q.login \in Logins /\ login[q.login].phase \in {"code", "error"}
    /\ "state" \in q.deletes => Ours(q.login, q.browser)
    /\ q.pc \in {"exchanging", "done"} /\ rp.cookies => Ours(q.login, q.browser)
    /\ q.pc = "exchanging" => login[q.login].phase = "code" /\ (IsPKCE => q.verifier = q.login)
    /\ q.verifier # 0 => IsPKCE
    /\ q.pc = "exchanging" => q.seen.kind = "none"
    /\ q.pc = "refused" /\ q.seen.kind = "genuine" => ClocksRefuse(q.seen)
    /\ q.pc = "done" /\ ~rp.oauth2Only => MayEndInLogin(q.seen.kind)

\* Where a login's state cookie may have gone.
CookieKept(a) ==
    login[a].phase \in {"atProvider", "code", "error"} /\ rp.cookies =>
        \/ cookie[login[a].browser].state = a
        \/ \E x \in Logins \ {a} : Started(x) /\ login[x].browser = login[a].browser
        \/ \E r \in Requests : req[r].pc # "idle" /\ req[r].browser = login[a].browser /\ req[r].login = a

\* Requests begin in the order of their numbers, and an idle one holds nothing.
InOrder ==
    /\ \A r, x \in Requests : x < r /\ req[r].pc # "idle" => req[x].pc # "idle"
    /\ \A r \in Requests : req[r].pc = "idle" => req[r] = NoReq

\* A login that the browser was sent away with has a browser.
LoginsHaveBrowsers == \A a \in Logins : Started(a) => login[a].browser \in Browsers

CallbackInv ==
    /\ Shape /\ RPOK /\ LoginsHaveBrowsers
    /\ \A b \in Browsers : JarOK(b)
    /\ \A r \in Requests : req[r].pc # "idle" => ReqOK(req[r])
    /\ \A a \in Logins : CookieKept(a)
    /\ InOrder
    /\ TurnedAwayForAReason

-----------------------------------------------------------------------------
(* Tokens.                                                                 *)

\* Sets of one and of two audiences.
LEMMA Audiences ==
  /\ Cardinality({Self}) = 1
  /\ Cardinality({Self, "other"}) = 2
<1>1. Cardinality({Self}) = 1 /\ IsFiniteSet({Self})
  BY FS_Singleton
<1>2. "other" \notin {Self} /\ {Self} \cup {"other"} = {Self, "other"}
  BY DEF Self
<1>3. Cardinality({Self} \cup {"other"}) = Cardinality({Self}) + 1
  BY <1>1, <1>2, FS_AddElement
<1> QED
  BY <1>1, <1>2, <1>3

\* The verifier's fields.
LEMMA VerifierFields ==
  /\ IDTokenVerifier.issuer = Issuer /\ IDTokenVerifier.client = Self /\ IDTokenVerifier.keySet = ProviderKeys
  /\ IDTokenVerifier.offset = 2 /\ IDTokenVerifier.nonce = Absent /\ IDTokenVerifier.algs = rp.algs
  /\ IDTokenVerifier.maxAgeIAT = 0 /\ IDTokenVerifier.maxAge = 0 /\ IDTokenVerifier.acrs = {}
  /\ IDTokenVerifier.decryptionKey = FALSE
  BY DEF IDTokenVerifier, NewIDTokenVerifier, Second

\* Whatever else is wrong with a token, an accepted one is the provider's, for this
\* client and for the access token that came with it.
LEMMA TokenAccepted ==
  ASSUME NEW t, NEW now, VerifyTokens("at", t, IDTokenVerifier, now)
  PROVE  /\ ~t.jwe
         /\ Cardinality(t.aud) > 1 => t.azp # Absent
         /\ t.azp \in {Absent, Self}
         /\ rp.algs = {} \/ t.alg \in rp.algs
         /\ t.key \in ProviderKeys
         /\ t.nonce = Absent
         /\ t.atHash \in {Absent, "at"}
  BY VerifierFields DEF VerifyTokens, VerifyIDToken, AccessTokenHashMatches, Parses, CheckAZPVerifier,
     CheckSignature, isSupportedSigAlg, CheckNonce

\* The answers that the relying party accepts.
LEMMA AcceptedKinds ==
  ASSUME NEW kind \in Kinds, NEW t, NEW now, rp.algs = {} \/ "HS256" \notin rp.algs,
         kind # "missing", VerifyTokens("at", IDToken(kind, t), IDTokenVerifier, now)
  PROVE  kind \in {"genuine", "shared", "otherUser"} \/ (kind = "otherAlg" /\ rp.algs = {})
<1> DEFINE tok == IDToken(kind, t)
<1>1. /\ ~tok.jwe
      /\ Cardinality(tok.aud) > 1 => tok.azp # Absent
      /\ tok.azp \in {Absent, Self}
      /\ rp.algs = {} \/ tok.alg \in rp.algs
      /\ tok.key \in ProviderKeys
      /\ tok.nonce = Absent
      /\ tok.atHash \in {Absent, "at"}
  BY TokenAccepted
<1>2. kind # "forOther"
  BY <1>1 DEF IDToken, Genuine, Absent, Self
<1>3. kind # "unclear"
  BY <1>1, Audiences DEF IDToken, Genuine
<1>4. kind # "otherAzp"
  BY <1>1 DEF IDToken, Genuine, Absent, Self
<1>5. kind # "otherKey"
  BY <1>1 DEF IDToken, Genuine, ProviderKeys
<1>6. kind = "otherAlg" => rp.algs = {}
  BY <1>1 DEF IDToken, Genuine
<1>7. kind # "nonce"
  BY <1>1 DEF IDToken, Genuine, Absent
<1>8. kind # "swapped"
  BY <1>1 DEF IDToken, Genuine, Absent
<1>9. kind # "encrypted"
  BY <1>1 DEF IDToken, Genuine
<1> QED
  BY <1>2, <1>3, <1>4, <1>5, <1>6, <1>7, <1>8, <1>9, RelyingPartyAssumption

\* A genuine token fails for the clocks alone.
LEMMA GenuineVerifies ==
  ASSUME NEW t \in {20, 21}, NEW now \in Int, rp.algs = {} \/ "RS256" \in rp.algs,
         now >= t - 3, now + Second < FromTime(t + Lifetime)
  PROVE  VerifyTokens("at", IDToken("genuine", t), IDTokenVerifier, now)
<1> DEFINE tok == IDToken("genuine", t)
           v == IDTokenVerifier
<1>1. tok = Genuine(t)
  BY DEF IDToken
<1>2. /\ tok.parts = 3 /\ tok.jwe = FALSE /\ tok.iss = Issuer /\ tok.sub = "user" /\ tok.aud = {Self}
      /\ tok.azp = Self /\ tok.nonce = Absent /\ tok.iat = FromTime(t) /\ tok.exp = FromTime(t + Lifetime)
      /\ tok.alg = "RS256" /\ tok.key = "k" /\ tok.atHash = "at"
  BY <1>1 DEF Genuine
<1>3. /\ v.issuer = Issuer /\ v.client = Self /\ v.keySet = ProviderKeys
      /\ v.offset = 2 /\ v.nonce = Absent /\ v.algs = rp.algs
      /\ v.maxAgeIAT = 0 /\ v.maxAge = 0 /\ v.acrs = {} /\ v.decryptionKey = FALSE
  BY VerifierFields
<1> HIDE DEF tok, v
<1>4. Parses(tok, v.decryptionKey) /\ CheckIssuer(tok, v.issuer) /\ CheckAudienceAny(tok, {v.client})
  BY <1>2, <1>3 DEF Parses, CheckIssuer, CheckAudienceAny
<1>5. CheckSubject(tok) /\ CheckAZPVerifier(tok, v.client) /\ CheckNonce(tok, v.nonce)
  BY <1>2, <1>3, Audiences DEF CheckSubject, CheckAZPVerifier, CheckNonce, Absent
<1>6. CheckSignature(tok, v.algs, v.keySet)
  BY <1>2, <1>3 DEF CheckSignature, isSupportedSigAlg, ProviderKeys
<1>7. CheckExpiration(tok, v.offset, now)
  BY <1>2, <1>3 DEF CheckExpiration, Second
<1>8. CheckIssuedAt(tok, v.maxAgeIAT, v.offset, now)
  <2>1. FromTime(t) = 20
    BY DEF FromTime, Second
  <2>2. 20 <= RoundToSecond(now + 2)
    <3>1. RoundToSecond(now + 2) = ((now + 3) \div 2) * 2
      BY DEF RoundToSecond, FromTime, Second
    <3>2. now + 3 >= 20
      OBVIOUS
    <3> QED
      BY <3>1, <3>2
  <2> QED
    BY <1>2, <1>3, <2>1, <2>2 DEF CheckIssuedAt
<1>9. CheckAuthorizationContextClassReference(tok, v.acrs) /\ CheckAuthTime(tok, v.maxAge, now)
  BY <1>3 DEF CheckAuthorizationContextClassReference, CheckAuthTime
<1>10. AccessTokenHashMatches(tok, "at")
  BY <1>2 DEF AccessTokenHashMatches
<1> QED
  BY <1>4, <1>5, <1>6, <1>7, <1>8, <1>9, <1>10 DEF VerifyTokens, VerifyIDToken, tok, v

\* How a callback ends whose code was redeemed.
LEMMA CallbackEnds ==
  ASSUME rp \in ReadyRP, RPOK, NEW kind \in Kinds, NEW t \in {20, 21}, NEW now \in Int
  PROVE  LET result == CallbackResult(kind, t, now)
         IN  /\ result \in {"refused", "done", "aborted"}
             /\ result = "done" /\ ~rp.oauth2Only => MayEndInLogin(kind)
             /\ result = "refused" /\ kind = "genuine" =>
                   now < t - 3 \/ now + Second >= FromTime(t + Lifetime)
<1> DEFINE result == CallbackResult(kind, t, now)
           ok == verifyTokenResponse(kind, t, now)
<1>1. rp.status = "ready" /\ (rp.algs = {} \/ ("RS256" \in rp.algs /\ "HS256" \notin rp.algs))
  BY DEF ReadyRP, RPOK
<1>2. result \in {"refused", "done", "aborted"}
  BY DEF CallbackResult
<1>3. ASSUME result = "done", ~rp.oauth2Only
      PROVE  MayEndInLogin(kind)
  <2>1. ok
    BY <1>3 DEF CallbackResult
  <2>2. kind # "missing" /\ VerifyTokens("at", IDToken(kind, t), IDTokenVerifier, now)
    BY <1>3, <2>1 DEF verifyTokenResponse
  <2>3. kind \in {"genuine", "shared", "otherUser"} \/ (kind = "otherAlg" /\ rp.algs = {})
    BY <1>1, <2>2, AcceptedKinds
  <2>4. kind = "otherUser" => ~rp.userinfo
    BY <1>3 DEF CallbackResult, Userinfo
  <2> QED
    BY <2>3, <2>4 DEF MayEndInLogin
<1>4. ASSUME result = "refused", kind = "genuine"
      PROVE  now < t - 3 \/ now + Second >= FromTime(t + Lifetime)
  <2>1. ~ok
    BY <1>4 DEF CallbackResult, Userinfo
  <2>2. ~VerifyTokens("at", IDToken("genuine", t), IDTokenVerifier, now)
    BY <1>4, <2>1 DEF verifyTokenResponse
  <2>3. ~(now >= t - 3 /\ now + Second < FromTime(t + Lifetime))
    BY <1>1, <2>2, GenuineVerifies
  <2>4. t \in Int /\ FromTime(t + Lifetime) \in Int /\ Second = 2
    BY RelyingPartyAssumption DEF FromTime, Second
  <2> QED
    BY <2>3, <2>4
<1> QED
  BY <1>2, <1>3, <1>4

-----------------------------------------------------------------------------
(* What stays.                                                             *)

\* A login that has begun keeps its browser, one that came back its answer.
LoginsGrow ==
    /\ \A a \in Logins : Started(a) => Started(a)' /\ login'[a].browser = login[a].browser
    /\ \A a \in Logins : login[a].phase \in {"code", "error"} => login'[a].phase = login[a].phase

\* A callback that has begun stays begun, for the same login and browser.
RequestsGrow ==
    \A r \in Requests : req[r].pc # "idle" =>
        req'[r].pc # "idle" /\ req'[r].browser = req[r].browser /\ req'[r].login = req[r].login

\* Logins that move on take nothing from a callback.
LEMMA ReqStays ==
  ASSUME rp' = rp, LoginsGrow, NEW q, ReqOK(q)
  PROVE  ReqOK(q)'
<1>1. q.login \in Logins /\ login[q.login].phase \in {"code", "error"} /\ login'[q.login].phase = login[q.login].phase
  BY DEF ReqOK, LoginsGrow
<1>2. Ours(q.login, q.browser) => Ours(q.login, q.browser)'
  BY DEF Ours, LoginsGrow
<1>3. IsPKCE' <=> IsPKCE
  BY DEF IsPKCE
<1>4. MayEndInLogin(q.seen.kind) => MayEndInLogin(q.seen.kind)'
  BY DEF MayEndInLogin
<1> QED
  BY <1>1, <1>2, <1>3, <1>4 DEF ReqOK, ClocksRefuse

\* Nor do they take away the reason for which a callback was turned away.
LEMMA ReasonStays ==
  ASSUME CallbackInv, LoginsGrow, RequestsGrow, NEW r \in Requests, req[r].pc = "stateRefused"
  PROVE  \/ req'[r].browser # login'[req'[r].login].browser
         \/ \E a \in Logins \ {req'[r].login} : Started(a)' /\ login'[a].browser = req'[r].browser
         \/ \E x \in Requests : x < r /\ req'[x].browser = req'[r].browser /\ req'[x].login = req'[r].login
<1>1. /\ req'[r].browser = req[r].browser /\ req'[r].login = req[r].login
      /\ req[r].login \in Logins /\ Started(req[r].login)
  BY DEF CallbackInv, ReqOK, RequestsGrow, Started
<1>2. login'[req[r].login].browser = login[req[r].login].browser
  BY <1>1 DEF LoginsGrow
<1>3. CASE req[r].browser # login[req[r].login].browser
  BY <1>1, <1>2, <1>3
<1>4. CASE \E a \in Logins \ {req[r].login} : Started(a) /\ login[a].browser = req[r].browser
  BY <1>1, <1>4 DEF LoginsGrow
<1>5. CASE \E x \in Requests : x < r /\ req[x].browser = req[r].browser /\ req[x].login = req[r].login
  <2>1. PICK x \in Requests : x < r /\ req[x].browser = req[r].browser /\ req[x].login = req[r].login
    BY <1>5
  <2>2. req[x].pc # "idle"
    BY <2>1 DEF CallbackInv, InOrder
  <2>3. req'[x].browser = req[x].browser /\ req'[x].login = req[x].login
    BY <2>2 DEF RequestsGrow
  <2> QED
    BY <1>1, <2>1, <2>3
<1> QED
  BY <1>3, <1>4, <1>5 DEF CallbackInv, TurnedAwayForAReason

\* The cookie of a login goes only where it may go, if the cookies stay.
LEMMA CookieStays ==
  ASSUME CallbackInv, rp' = rp, LoginsGrow, RequestsGrow, NEW a \in Logins,
         login[a].phase \in {"atProvider", "code", "error"},
         \/ cookie'[login[a].browser].state = cookie[login[a].browser].state
         \/ \E x \in Logins : Started(x) /\ login[x].browser = login[a].browser
                              /\ cookie'[login[a].browser].state = x
  PROVE  CookieKept(a)'
<1> DEFINE b == login[a].browser
<1>1. Started(a) /\ login'[a].browser = b
  BY DEF LoginsGrow, Started
<1>2. SUFFICES ASSUME rp.cookies
      PROVE  \/ cookie'[b].state = a
             \/ \E x \in Logins \ {a} : Started(x)' /\ login'[x].browser = b
             \/ \E r \in Requests : req'[r].pc # "idle" /\ req'[r].browser = b /\ req'[r].login = a
  BY <1>1 DEF CookieKept
<1>3. CASE cookie'[b].state = cookie[b].state
  <2>1. \/ cookie[b].state = a
        \/ \E x \in Logins \ {a} : Started(x) /\ login[x].browser = b
        \/ \E r \in Requests : req[r].pc # "idle" /\ req[r].browser = b /\ req[r].login = a
    BY <1>2 DEF CallbackInv, CookieKept
  <2> QED
    BY <1>3, <2>1 DEF LoginsGrow, RequestsGrow
<1>4. CASE \E x \in Logins : Started(x) /\ login[x].browser = b /\ cookie'[b].state = x
  BY <1>4 DEF LoginsGrow
<1> QED
  BY <1>3, <1>4

-----------------------------------------------------------------------------
(* Construction and login.                                                 *)

\* The relying party is built before the first login.
LEMMA BuildStep ==
  ASSUME CallbackInv, NEW o \in Options,
         NewRelyingPartyOAuth(o) \/ \E d \in Documents : NewRelyingPartyOIDC(o, d)
  PROVE  CallbackInv'
<1>0. rp.status = "none" /\ UNCHANGED <<login, cookie, req, spent>>
  BY DEF NewRelyingPartyOAuth, NewRelyingPartyOIDC
<1>1. /\ o.pkce \in {"off", "on", "discovery"} /\ o.cookies \in BOOLEAN /\ o.userinfo \in BOOLEAN
      /\ o.pkce # "off" => o.cookies
  BY DEF Options
<1>2. \/ rp' = [status |-> "failed"]
      \/ \E oauth2Only, pkce \in BOOLEAN, algs \in SUBSET STRING :
            /\ pkce => o.cookies
            /\ algs = {} \/ ("RS256" \in algs /\ "HS256" \notin algs)
            /\ rp' = Ready(oauth2Only, pkce, algs, o)
  <2>1. CASE NewRelyingPartyOAuth(o)
    <3>1. CASE o.pkce = "discovery"
      BY <2>1, <3>1 DEF NewRelyingPartyOAuth
    <3>2. CASE o.pkce # "discovery"
      <4>1. rp' = Ready(TRUE, o.pkce = "on", {}, o)
        BY <2>1, <3>2 DEF NewRelyingPartyOAuth
      <4>2. (o.pkce = "on") \in BOOLEAN /\ (o.pkce = "on" => o.cookies)
        BY <1>1
      <4> QED
        BY <4>1, <4>2
    <3> QED
      BY <3>1, <3>2
  <2>2. ASSUME NEW d \in Documents, NewRelyingPartyOIDC(o, d)
        PROVE  <1>2!2 \/ rp' = [status |-> "failed"]
    <3> DEFINE pkce == o.pkce = "on" \/ (o.pkce = "discovery" /\ d.methods \cap {"plain", "S256"} # {})
               algs == IF o.discoverAlgs THEN d.algs ELSE {}
    <3>1. CASE ~Discover(d)
      BY <2>2, <3>1 DEF NewRelyingPartyOIDC
    <3>2. CASE Discover(d)
      <4>1. rp' = Ready(FALSE, pkce, algs, o)
        BY <2>2, <3>2 DEF NewRelyingPartyOIDC
      <4>2. pkce \in BOOLEAN /\ (pkce => o.cookies)
        BY <1>1
      <4>3. algs \in SUBSET STRING /\ (algs = {} \/ ("RS256" \in algs /\ "HS256" \notin algs))
        BY RelyingPartyAssumption
      <4> HIDE DEF pkce, algs
      <4> QED
        BY <4>1, <4>2, <4>3
    <3> QED
      BY <3>1, <3>2
  <2> QED
    BY <2>1, <2>2
<1>3. \A a \in Logins : login[a].phase = "none"
  BY <1>0 DEF CallbackInv, RPOK
<1>4. \A b \in Browsers : cookie[b].state = 0 /\ cookie[b].pkce = 0
  BY <1>0 DEF CallbackInv, JarOK
<1>5. \A r \in Requests : req[r].pc = "idle"
  BY <1>0 DEF CallbackInv, ReqOK
<1>6. rp' \in {[status |-> "failed"]} \cup ReadyRP /\ RPOK'
  <2>1. CASE rp' = [status |-> "failed"]
    BY <1>0, <1>3, <2>1 DEF RPOK
  <2>2. ASSUME NEW oauth2Only \in BOOLEAN, NEW pkce \in BOOLEAN, NEW algs \in SUBSET STRING,
               pkce => o.cookies, algs = {} \/ ("RS256" \in algs /\ "HS256" \notin algs),
               rp' = Ready(oauth2Only, pkce, algs, o)
        PROVE  rp' \in ReadyRP /\ RPOK'
    BY <1>1, <2>2 DEF Ready, ReadyRP, RPOK
  <2> QED
    BY <1>2, <2>1, <2>2
<1>7. Shape'
  BY <1>0, <1>6 DEF CallbackInv, Shape
<1>8. LoginsHaveBrowsers' /\ InOrder'
  BY <1>0 DEF CallbackInv, LoginsHaveBrowsers, InOrder, Started
<1>9. /\ \A b \in Browsers : JarOK(b)'
      /\ \A r \in Requests : req'[r].pc # "idle" => ReqOK(req[r])'
      /\ \A a \in Logins : CookieKept(a)'
      /\ TurnedAwayForAReason'
  BY <1>0, <1>3, <1>4, <1>5 DEF JarOK, CookieKept, TurnedAwayForAReason
<1> QED
  BY <1>0, <1>6, <1>7, <1>8, <1>9 DEF CallbackInv

\* A login step keeps everything but the cookies, which need a proof of their own.
LEMMA LoginMoves ==
  ASSUME CallbackInv, rp' = rp, req' = req, spent' = spent, rp.status = "ready", LoginsGrow,
         login' \in [Logins -> Login], LoginsHaveBrowsers', cookie' \in [Browsers -> Jar],
         \A b \in Browsers : JarOK(b)', \A a \in Logins : CookieKept(a)'
  PROVE  CallbackInv'
<1>1. Shape'
  <2>1. spent' \subseteq {a \in Logins : login'[a].phase = "code"}
    BY DEF CallbackInv, Shape, LoginsGrow
  <2> QED
    BY <2>1 DEF CallbackInv, Shape
<1>2. RPOK'
  BY DEF CallbackInv, RPOK
<1>3. \A r \in Requests : req'[r].pc # "idle" => ReqOK(req[r])'
  <2> TAKE r \in Requests
  <2> HAVE req'[r].pc # "idle"
  <2>1. ReqOK(req[r])
    BY DEF CallbackInv
  <2>2. \A x : ReqOK(x) => ReqOK(x)'
    BY ReqStays
  <2> QED
    BY <2>1, <2>2 DEF ReqOK, Ours, Started, IsPKCE, ClocksRefuse, MayEndInLogin
<1>4. InOrder'
  BY DEF CallbackInv, InOrder
<1>5. TurnedAwayForAReason'
  <2>1. RequestsGrow
    BY DEF RequestsGrow
  <2> QED
    BY <2>1, ReasonStays DEF TurnedAwayForAReason
<1> QED
  BY <1>1, <1>2, <1>3, <1>4, <1>5 DEF CallbackInv

\* A login begins in a browser.
LEMMA AuthURLStep ==
  ASSUME CallbackInv, NEW b \in Browsers, NEW a \in Logins, AuthURLHandler(b, a)
  PROVE  CallbackInv'
<1>1. /\ rp.status = "ready" /\ ~Started(a)
      /\ login' = [login EXCEPT ![a] = [phase |-> "redirecting", browser |-> b]]
      /\ UNCHANGED <<rp, cookie, req, spent>>
  BY DEF AuthURLHandler
<1>2. login \in [Logins -> Login] /\ LoginsHaveBrowsers /\ cookie \in [Browsers -> Jar]
  BY DEF CallbackInv, Shape
<1>3. /\ login'[a].phase = "redirecting" /\ login'[a].browser = b
      /\ \A x \in Logins : x # a => login'[x] = login[x]
  BY <1>1, <1>2
<1>4. login' \in [Logins -> Login]
  BY <1>1, <1>2 DEF Login
<1>5. LoginsGrow /\ LoginsHaveBrowsers'
  BY <1>1, <1>2, <1>3 DEF LoginsGrow, Started, LoginsHaveBrowsers
<1>6. \A c \in Browsers : JarOK(c)'
  BY <1>1, <1>5 DEF CallbackInv, JarOK, Ours, LoginsGrow
<1>7. \A x \in Logins : CookieKept(x)'
  <2> TAKE x \in Logins
  <2>1. CASE x = a
    BY <1>3, <2>1 DEF CookieKept
  <2>2. CASE x # a /\ login[x].phase \in {"atProvider", "code", "error"}
    <3>1. RequestsGrow
      BY <1>1 DEF RequestsGrow
    <3> QED
      BY <1>1, <1>5, <2>2, <3>1, CookieStays
  <2>3. CASE x # a /\ login[x].phase \notin {"atProvider", "code", "error"}
    BY <1>3, <2>3 DEF CookieKept
  <2> QED
    BY <2>1, <2>2, <2>3
<1> QED
  BY <1>1, <1>2, <1>4, <1>5, <1>6, <1>7, LoginMoves

\* The redirect brings both cookies of its login.
LEMMA RedirectStep ==
  ASSUME CallbackInv, NEW a \in Logins, FollowRedirect(a)
  PROVE  CallbackInv'
<1> DEFINE b == login[a].browser
<1>1. /\ login[a].phase = "redirecting"
      /\ login' = [login EXCEPT ![a].phase = "atProvider"]
      /\ cookie' = [cookie EXCEPT ![b] = SetCookies(a, cookie[b])]
      /\ UNCHANGED <<rp, req, spent>>
  BY DEF FollowRedirect
<1>2. /\ login \in [Logins -> Login] /\ LoginsHaveBrowsers /\ cookie \in [Browsers -> Jar]
      /\ a # 0
  BY RelyingPartyAssumption DEF CallbackInv, Shape
<1>3. rp.status = "ready" /\ b \in Browsers /\ Started(a)
  BY <1>1, <1>2 DEF CallbackInv, RPOK, LoginsHaveBrowsers, Started
<1>4. /\ login'[a].phase = "atProvider" /\ login'[a].browser = b
      /\ \A x \in Logins : x # a => login'[x] = login[x]
      /\ login' \in [Logins -> Login]
  BY <1>1, <1>2 DEF Login
<1>5. LoginsGrow /\ LoginsHaveBrowsers'
  BY <1>1, <1>2, <1>4 DEF LoginsGrow, Started, LoginsHaveBrowsers
<1>6. rp.cookies \in BOOLEAN /\ rp.pkce \in BOOLEAN /\ (rp.pkce => rp.cookies)
  BY <1>3 DEF CallbackInv, Shape, ReadyRP, RPOK
<1>7. /\ cookie'[b] \in Jar
      /\ cookie'[b].state = IF rp.cookies THEN a ELSE cookie[b].state
      /\ cookie'[b].pkce = IF rp.pkce THEN a ELSE cookie[b].pkce
  <2>1. cookie'[b] = SetCookies(a, cookie[b])
    BY <1>1, <1>2, <1>3
  <2>2. cookie[b].state \in {0} \cup Logins /\ cookie[b].pkce \in {0} \cup Logins
    BY <1>2, <1>3 DEF Jar
  <2> QED
    BY <1>6, <2>1, <2>2 DEF SetCookies, Jar
<1>8. cookie' \in [Browsers -> Jar] /\ \A c \in Browsers : c # b => cookie'[c] = cookie[c]
  BY <1>1, <1>2, <1>3, <1>7
<1>9. \A c \in Browsers : JarOK(c)'
  <2> TAKE c \in Browsers
  <2>0. JarOK(c) /\ \A x, y : Ours(x, y) => Ours(x, y)'
    BY <1>5 DEF CallbackInv, Ours, LoginsGrow
  <2>1. CASE c # b
    BY <1>1, <1>8, <2>0, <2>1 DEF JarOK
  <2>2. CASE c = b
    <3>1. Ours(a, b)'
      BY <1>3, <1>5 DEF Ours, LoginsGrow
    <3> QED
      BY <1>1, <1>3, <1>6, <1>7, <2>0, <2>2, <3>1 DEF JarOK
  <2> QED
    BY <2>1, <2>2
<1>10. \A x \in Logins : CookieKept(x)'
  <2> TAKE x \in Logins
  <2>0. RequestsGrow
    BY <1>1 DEF RequestsGrow
  <2>1. CASE x = a
    BY <1>1, <1>4, <1>7, <2>1 DEF CookieKept
  <2>2. CASE x # a /\ login[x].phase \in {"atProvider", "code", "error"}
    <3>1. login[x].browser \in Browsers
      BY <1>2, <2>2 DEF LoginsHaveBrowsers, Started
    <3>2. CASE login[x].browser # b \/ ~rp.cookies
      BY <1>1, <1>5, <1>7, <1>8, <2>0, <2>2, <3>1, <3>2, CookieStays
    <3>3. CASE login[x].browser = b /\ rp.cookies
      BY <1>1, <1>3, <1>5, <1>7, <2>0, <2>2, <3>3, CookieStays
    <3> QED
      BY <3>2, <3>3
  <2>3. CASE x # a /\ login[x].phase \notin {"atProvider", "code", "error"}
    BY <1>4, <2>3 DEF CookieKept
  <2> QED
    BY <2>1, <2>2, <2>3
<1> QED
  BY <1>1, <1>3, <1>4, <1>5, <1>8, <1>9, <1>10, LoginMoves

\* The provider sends the browser back.
LEMMA ProviderAnswers ==
  ASSUME CallbackInv, NEW a \in Logins, ProviderRedirects(a)
  PROVE  CallbackInv'
<1>1. PICK answer \in {"code", "error"} : login' = [login EXCEPT ![a].phase = answer]
  BY DEF ProviderRedirects
<1>2. login[a].phase = "atProvider" /\ UNCHANGED <<rp, cookie, req, spent>>
  BY DEF ProviderRedirects
<1>3. login \in [Logins -> Login] /\ LoginsHaveBrowsers /\ cookie \in [Browsers -> Jar]
  BY DEF CallbackInv, Shape
<1>4. /\ login'[a].phase = answer /\ login'[a].browser = login[a].browser
      /\ \A x \in Logins : x # a => login'[x] = login[x]
      /\ login' \in [Logins -> Login]
  BY <1>1, <1>3 DEF Login
<1>5. LoginsGrow /\ LoginsHaveBrowsers'
  BY <1>2, <1>3, <1>4 DEF LoginsGrow, Started, LoginsHaveBrowsers
<1>6. rp.status = "ready"
  BY <1>2 DEF CallbackInv, RPOK
<1>7. \A c \in Browsers : JarOK(c)'
  BY <1>2, <1>5 DEF CallbackInv, JarOK, Ours, LoginsGrow
<1>8. \A x \in Logins : CookieKept(x)'
  <2> TAKE x \in Logins
  <2>0. RequestsGrow
    BY <1>2 DEF RequestsGrow
  <2>1. CASE login[x].phase \in {"atProvider", "code", "error"}
    BY <1>2, <1>5, <2>0, <2>1, CookieStays
  <2>2. CASE login[x].phase \notin {"atProvider", "code", "error"}
    BY <1>2, <1>4, <2>2 DEF CookieKept
  <2> QED
    BY <2>1, <2>2
<1> QED
  BY <1>2, <1>3, <1>4, <1>5, <1>6, <1>7, <1>8, LoginMoves

-----------------------------------------------------------------------------
(* The callback.                                                           *)

\* One callback moves; its cookies need a proof of their own.
LEMMA CallbackMoves ==
  ASSUME CallbackInv, rp' = rp, login' = login, NEW r \in Requests, NEW q \in Callback,
         req' = [req EXCEPT ![r] = q], q.pc # "idle", ReqOK(q),
         req[r].pc # "idle" => q.browser = req[r].browser /\ q.login = req[r].login,
         \A x \in Requests : x < r => req[x].pc # "idle",
         q.pc = "stateRefused" =>
           \/ q.browser # login[q.login].browser
           \/ \E a \in Logins \ {q.login} : Started(a) /\ login[a].browser = q.browser
           \/ \E x \in Requests : x < r /\ req[x].browser = q.browser /\ req[x].login = q.login,
         spent' \subseteq {a \in Logins : login[a].phase = "code"},
         cookie' \in [Browsers -> Jar], \A b \in Browsers : JarOK(b)',
         \A b \in Browsers : \/ cookie'[b].state = cookie[b].state
                             \/ Ours(q.login, b) /\ q.browser = b
  PROVE  CallbackInv'
<1>0. /\ req \in [Requests -> Callback] /\ Requests \subseteq Nat
      /\ req'[r] = q /\ \A x \in Requests : x # r => req'[x] = req[x]
  BY RelyingPartyAssumption DEF CallbackInv, Shape
<1>1. Shape' /\ RPOK' /\ LoginsHaveBrowsers'
  BY <1>0 DEF CallbackInv, Shape, RPOK, LoginsHaveBrowsers, Started
<1>2. LoginsGrow /\ RequestsGrow
  BY <1>0 DEF LoginsGrow, RequestsGrow, Started
<1>3. \A x \in Requests : req'[x].pc # "idle" => ReqOK(req[x])'
  <2> TAKE x \in Requests
  <2> HAVE req'[x].pc # "idle"
  <2>1. ReqOK(req'[x])
    BY <1>0 DEF CallbackInv
  <2> QED
    BY <2>1 DEF ReqOK, Ours, Started, IsPKCE, ClocksRefuse, MayEndInLogin
<1>4. InOrder'
  <2>1. \A x, y \in Requests : y < x /\ req'[x].pc # "idle" => req'[y].pc # "idle"
    BY <1>0 DEF CallbackInv, InOrder
  <2>2. \A x \in Requests : req'[x].pc = "idle" => req'[x] = NoReq
    BY <1>0 DEF CallbackInv, InOrder
  <2> QED
    BY <2>1, <2>2 DEF InOrder, NoReq, NoSeen
<1>5. TurnedAwayForAReason'
  <2> SUFFICES ASSUME NEW s \in Requests, req'[s].pc = "stateRefused"
               PROVE  \/ req'[s].browser # login'[req'[s].login].browser
                      \/ \E a \in Logins \ {req'[s].login} : Started(a)' /\ login'[a].browser = req'[s].browser
                      \/ \E x \in Requests :
                            x < s /\ req'[x].browser = req'[s].browser /\ req'[x].login = req'[s].login
    BY DEF TurnedAwayForAReason
  <2>1. CASE s # r
    BY <1>0, <1>2, <2>1, ReasonStays
  <2>2. CASE s = r
    <3>1. \A x \in Requests : x < r => x # r
      BY <1>0
    <3> QED
      BY <1>0, <2>2, <3>1 DEF Started
  <2> QED
    BY <2>1, <2>2
<1>6. \A a \in Logins : CookieKept(a)'
  <2> TAKE a \in Logins
  <2>1. CASE login[a].phase \notin {"atProvider", "code", "error"}
    BY <2>1 DEF CookieKept
  <2>2. CASE login[a].phase \in {"atProvider", "code", "error"}
    <3> DEFINE b == login[a].browser
    <3>1. b \in Browsers
      BY <2>2 DEF CallbackInv, LoginsHaveBrowsers, Started
    <3>2. CASE cookie'[b].state = cookie[b].state
      BY <1>2, <2>2, <3>2, CookieStays
    <3>3. CASE Ours(q.login, b) /\ q.browser = b
      <4>1. CASE q.login = a
        BY <1>0, <3>3, <4>1 DEF CookieKept
      <4>2. CASE q.login # a
        BY <3>3, <4>2 DEF CookieKept, Ours, Started
      <4> QED
        BY <4>1, <4>2
    <3> QED
      BY <3>1, <3>2, <3>3
  <2> QED
    BY <2>1, <2>2
<1> QED
  BY <1>1, <1>3, <1>4, <1>5, <1>6 DEF CallbackInv

\* The handler reads the cookies: a callback goes on only for a login of this browser,
\* and with its verifier.
LEMMA HandlerStep ==
  ASSUME CallbackInv, NEW r \in Requests, NEW b \in Browsers, NEW a \in Logins, CodeExchangeHandler(r, b, a)
  PROVE  CallbackInv'
<1> DEFINE st == tryReadStateCookie(b, a)
           q == IF ~st.ok THEN Request("stateRefused", b, a, 0, st.deletes)
                ELSE IF login[a].phase = "error" THEN Request("errorShown", b, a, 0, st.deletes)
                ELSE IF ~IsPKCE THEN Request("exchanging", b, a, 0, st.deletes)
                ELSE IF ~CheckCookie(b) THEN Request("refused", b, a, 0, st.deletes)
                ELSE Request("exchanging", b, a, cookie[b].pkce, st.deletes \cup {"pkce"})
<1>1. /\ req[r].pc = "idle" /\ \A x \in Requests : x < r => req[x].pc # "idle"
      /\ login[a].phase \in {"code", "error"}
      /\ req' = [req EXCEPT ![r] = q]
      /\ UNCHANGED <<rp, login, cookie, spent>>
  BY DEF CodeExchangeHandler
<1>2. /\ rp.status = "ready" /\ rp.cookies \in BOOLEAN /\ rp.pkce \in BOOLEAN /\ (rp.pkce => rp.cookies)
      /\ cookie \in [Browsers -> Jar] /\ a # 0 /\ Started(a)
  BY <1>1, RelyingPartyAssumption DEF CallbackInv, Shape, RPOK, ReadyRP, Started
<1>3. /\ st.ok <=> (~rp.cookies \/ cookie[b].state = a)
      /\ st.deletes \subseteq {"state"}
      /\ "state" \in st.deletes => rp.cookies /\ cookie[b].state = a
  BY DEF tryReadStateCookie, CheckQueryCookie
<1>4. cookie[b].state = a => Ours(a, b) /\ cookie[b].pkce \in {0, a}
  BY <1>2 DEF CallbackInv, JarOK
<1>5. IsPKCE <=> rp.pkce
  BY <1>2 DEF IsPKCE
<1>6. cookie[b].pkce \in {0} \cup Logins
  BY <1>2 DEF Jar
<1> HIDE DEF st
<1>7. /\ q \in Callback /\ q.pc # "idle" /\ q.browser = b /\ q.login = a
      /\ q.deletes \subseteq st.deletes \cup {"pkce"} /\ q.seen.kind = "none"
      /\ q.pc \in {"stateRefused", "errorShown", "exchanging", "refused"}
      /\ q.pc = "stateRefused" <=> ~st.ok
      /\ q.pc = "exchanging" => login[a].phase = "code" /\ (IsPKCE => q.verifier = cookie[b].pkce /\ cookie[b].pkce # 0)
      /\ q.verifier # 0 => IsPKCE
  <2>1. ASSUME NEW pc \in {"stateRefused", "errorShown", "exchanging", "refused"}, NEW v \in {0} \cup Logins,
               NEW deletes \in SUBSET {"state", "pkce"}
        PROVE  LET z == Request(pc, b, a, v, deletes)
               IN  /\ z \in Callback /\ z.pc = pc /\ z.browser = b /\ z.login = a /\ z.verifier = v
                   /\ z.deletes = deletes /\ z.seen.kind = "none"
    BY DEF Request, Callback, NoSeen, Answers
  <2>2. CASE ~st.ok
    BY <1>3, <2>1, <2>2
  <2>3. CASE st.ok /\ login[a].phase = "error"
    BY <1>3, <2>1, <2>3
  <2>4. CASE st.ok /\ login[a].phase = "code" /\ ~IsPKCE
    BY <1>3, <2>1, <2>4
  <2>5. CASE st.ok /\ login[a].phase = "code" /\ IsPKCE /\ ~CheckCookie(b)
    BY <1>3, <2>1, <2>5
  <2>6. CASE st.ok /\ login[a].phase = "code" /\ IsPKCE /\ CheckCookie(b)
    <3>1. q = Request("exchanging", b, a, cookie[b].pkce, st.deletes \cup {"pkce"})
      BY <2>6
    <3> HIDE DEF q
    <3>2. st.deletes \cup {"pkce"} \in SUBSET {"state", "pkce"}
      BY <1>3
    <3>3. /\ q \in Callback /\ q.pc = "exchanging" /\ q.browser = b /\ q.login = a
          /\ q.verifier = cookie[b].pkce /\ q.deletes = st.deletes \cup {"pkce"} /\ q.seen.kind = "none"
      BY <1>6, <3>1, <3>2 DEF Request, Callback, NoSeen, Answers
    <3> QED
      BY <2>6, <3>3 DEF CheckCookie
  <2> QED
    BY <1>1, <2>2, <2>3, <2>4, <2>5, <2>6
<1> HIDE DEF q
<1>8. ReqOK(q)
  <2>1. "state" \in q.deletes => Ours(a, b)
    BY <1>3, <1>4, <1>7
  <2>2. q.pc \in {"exchanging", "done"} /\ rp.cookies => Ours(a, b)
    BY <1>3, <1>4, <1>7
  <2>3. q.pc = "exchanging" => login[a].phase = "code" /\ (IsPKCE => q.verifier = a)
    BY <1>2, <1>3, <1>4, <1>5, <1>7
  <2> QED
    BY <1>1, <1>2, <1>7, <2>1, <2>2, <2>3 DEF ReqOK
<1>9. q.pc = "stateRefused" =>
        \/ b # login[a].browser
        \/ \E x \in Logins \ {a} : Started(x) /\ login[x].browser = b
        \/ \E x \in Requests : x < r /\ req[x].browser = b /\ req[x].login = a
  <2> SUFFICES ASSUME q.pc = "stateRefused", b = login[a].browser
               PROVE  \/ \E x \in Logins \ {a} : Started(x) /\ login[x].browser = b
                      \/ \E x \in Requests : x < r /\ req[x].browser = b /\ req[x].login = a
    OBVIOUS
  <2>1. rp.cookies /\ cookie[b].state # a
    BY <1>3, <1>7
  <2>2. \/ \E x \in Logins \ {a} : Started(x) /\ login[x].browser = b
        \/ \E x \in Requests : req[x].pc # "idle" /\ req[x].browser = b /\ req[x].login = a
    BY <1>1, <2>1 DEF CallbackInv, CookieKept
  <2>3. \A x \in Requests : req[x].pc # "idle" => x < r
    <3>1. \A x \in Requests : r < x /\ req[x].pc # "idle" => req[r].pc # "idle"
      BY DEF CallbackInv, InOrder
    <3> QED
      BY <1>1, <3>1, RelyingPartyAssumption
  <2> QED
    BY <2>2, <2>3
<1>10. spent' \subseteq {x \in Logins : login[x].phase = "code"} /\ \A c \in Browsers : JarOK(c)'
  BY <1>1 DEF CallbackInv, Shape, JarOK, Ours, Started
<1> QED
  BY <1>1, <1>2, <1>7, <1>8, <1>9, <1>10, CallbackMoves

\* The code is redeemed or refused, and the answer verified.
LEMMA ExchangeStep ==
  ASSUME CallbackInv, NEW r \in Requests, CodeExchange(r)
  PROVE  CallbackInv'
<1> DEFINE old == req[r]
<1>1. old.pc = "exchanging" /\ UNCHANGED <<rp, login, cookie>>
  BY DEF CodeExchange
<1>2. /\ req \in [Requests -> Callback] /\ old \in Callback /\ ReqOK(old)
      /\ cookie \in [Browsers -> Jar] /\ spent \subseteq {a \in Logins : login[a].phase = "code"}
      /\ \A x \in Requests : x < r => req[x].pc # "idle"
      /\ rp \in ReadyRP /\ RPOK
  BY <1>1 DEF CallbackInv, Shape, InOrder, ReqOK
<1>3. \A c \in Browsers : JarOK(c)'
  BY <1>1 DEF CallbackInv, JarOK, Ours, Started
<1>4. CASE ~ProviderRedeems(r)
  <2> DEFINE q == [old EXCEPT !.pc = "refused"]
  <2>1. req' = [req EXCEPT ![r] = q] /\ spent' = spent
    BY <1>4 DEF CodeExchange
  <2>2. /\ q \in Callback /\ q.pc = "refused" /\ q.browser = old.browser /\ q.login = old.login
        /\ q.verifier = old.verifier /\ q.deletes = old.deletes /\ q.seen = old.seen
    BY <1>2 DEF Callback, Answers
  <2>3. old.seen.kind # "genuine"
    BY <1>1, <1>2 DEF ReqOK
  <2> QED
    BY <1>1, <1>2, <1>3, <2>1, <2>2, <2>3, CallbackMoves DEF ReqOK
<1>5. CASE ProviderRedeems(r)
  <2>1. PICK kind \in Kinds, t \in {20, 21}, skew \in Skews, delay \in Delays :
           LET now == t + delay + skew
           IN  req' = [req EXCEPT ![r].pc = CallbackResult(kind, t, now),
                                  ![r].seen = [kind |-> kind, issued |-> t, now |-> now]]
    BY <1>5 DEF CodeExchange
  <2> DEFINE now == t + delay + skew
             result == CallbackResult(kind, t, now)
             seen == [kind |-> kind, issued |-> t, now |-> now]
             q == [old EXCEPT !.pc = result, !.seen = seen]
  <2>2. now \in Int
    BY RelyingPartyAssumption
  <2>3. req' = [req EXCEPT ![r] = q]
    BY <1>2, <2>1
  <2> HIDE DEF now
  <2>4. /\ result \in {"refused", "done", "aborted"}
        /\ result = "done" /\ ~rp.oauth2Only => MayEndInLogin(kind)
        /\ result = "refused" /\ kind = "genuine" => now < t - 3 \/ now + Second >= FromTime(t + Lifetime)
    BY <1>2, <2>2, CallbackEnds
  <2> HIDE DEF result
  <2>5. /\ seen \in [kind : Kinds \cup {"none"}, issued : Int, now : Int]
        /\ seen.kind = kind /\ seen.issued = t /\ seen.now = now
    BY <2>2
  <2> HIDE DEF seen
  <2>6. /\ q \in Callback /\ q.pc = result /\ q.browser = old.browser /\ q.login = old.login
        /\ q.verifier = old.verifier /\ q.deletes = old.deletes /\ q.seen = seen
    BY <1>2, <2>4, <2>5 DEF Callback, Answers
  <2> HIDE DEF q
  <2>7. ReqOK(q)
    BY <1>1, <1>2, <2>4, <2>5, <2>6 DEF ReqOK, ClocksRefuse
  <2>8. spent' \subseteq {a \in Logins : login[a].phase = "code"}
    BY <1>1, <1>2, <1>5 DEF CodeExchange, ReqOK
  <2> QED
    BY <1>1, <1>2, <1>3, <2>3, <2>4, <2>6, <2>7, <2>8, CallbackMoves
<1> QED
  BY <1>4, <1>5

\* The answer deletes cookies of the browser that it reaches.
LEMMA AnswerStep ==
  ASSUME CallbackInv, NEW r \in Requests, ReceiveAnswer(r)
  PROVE  CallbackInv'
<1> DEFINE old == req[r]
           b == old.browser
           q == [old EXCEPT !.pc = "closed", !.seen = NoSeen]
<1>1. /\ old.pc \in Answers
      /\ cookie' = [cookie EXCEPT ![b] = DeleteCookies(cookie[b], old.deletes)]
      /\ req' = [req EXCEPT ![r] = q]
      /\ UNCHANGED <<rp, login, spent>>
  BY DEF ReceiveAnswer, CallbackInv, Shape
<1>2. /\ req \in [Requests -> Callback] /\ old \in Callback /\ ReqOK(old) /\ b \in Browsers
      /\ cookie \in [Browsers -> Jar] /\ spent \subseteq {a \in Logins : login[a].phase = "code"}
      /\ \A x \in Requests : x < r => req[x].pc # "idle"
  BY <1>1 DEF CallbackInv, Shape, InOrder, ReqOK, Answers
<1>3. /\ q \in Callback /\ q.pc = "closed" /\ q.browser = b /\ q.login = old.login
      /\ q.verifier = old.verifier /\ q.deletes = old.deletes
  <2>1. NoSeen \in [kind : Kinds \cup {"none"}, issued : Int, now : Int]
    BY DEF NoSeen
  <2> QED
    BY <1>2, <2>1 DEF Callback
<1> HIDE DEF q
<1>4. ReqOK(q)
  BY <1>2, <1>3 DEF ReqOK
<1>5. /\ DeleteCookies(cookie[b], old.deletes) \in Jar
      /\ cookie'[b].state = IF "state" \in old.deletes THEN 0 ELSE cookie[b].state
      /\ cookie'[b].pkce = IF "pkce" \in old.deletes THEN 0 ELSE cookie[b].pkce
  <2>1. cookie[b] \in Jar
    BY <1>2
  <2>2. DOMAIN cookie[b] = {"state", "pkce"} /\ cookie[b].state \in {0} \cup Logins
        /\ cookie[b].pkce \in {0} \cup Logins
    BY <2>1 DEF Jar
  <2> DEFINE jar == DeleteCookies(cookie[b], old.deletes)
  <2>3. /\ jar = [state |-> IF "state" \in old.deletes THEN 0 ELSE cookie[b].state,
                  pkce |-> IF "pkce" \in old.deletes THEN 0 ELSE cookie[b].pkce]
    BY <2>2 DEF DeleteCookies
  <2>4. cookie'[b] = jar
    BY <1>1, <1>2
  <2> HIDE DEF jar
  <2> QED
    BY <2>2, <2>3, <2>4 DEF Jar, jar
<1>6. cookie' \in [Browsers -> Jar] /\ \A c \in Browsers : c # b => cookie'[c] = cookie[c]
  BY <1>1, <1>2, <1>5
<1>7. \A c \in Browsers : JarOK(c)'
  <2> TAKE c \in Browsers
  <2>0. JarOK(c) /\ \A x, y : Ours(x, y)' <=> Ours(x, y)
    BY <1>1 DEF CallbackInv, Ours, Started
  <2>1. CASE c # b
    BY <1>1, <1>6, <2>0, <2>1 DEF JarOK
  <2>2. CASE c = b
    BY <1>1, <1>5, <2>0, <2>2 DEF JarOK
  <2> QED
    BY <2>1, <2>2
<1>8. \A c \in Browsers : cookie'[c].state = cookie[c].state \/ (Ours(q.login, c) /\ q.browser = c)
  BY <1>2, <1>3, <1>5, <1>6 DEF ReqOK
<1> QED
  BY <1>1, <1>2, <1>3, <1>4, <1>6, <1>7, <1>8, CallbackMoves

-----------------------------------------------------------------------------
(* Theorems.                                                               *)

(* However logins, redirects, callbacks, reloads and answers interleave, the cookies of *)
(* a browser belong to one login of its own, and every callback to one that came back.  *)
THEOREM CallbackInvariance == Spec => []CallbackInv
<1>1. Init => CallbackInv
  <2> SUFFICES ASSUME Init
               PROVE  CallbackInv
    OBVIOUS
  <2>1. Shape
    BY DEF Init, Shape, NoLogin, Login, NoBrowser, Jar, NoReq, NoSeen, Callback
  <2>2. RPOK /\ LoginsHaveBrowsers
    BY DEF Init, RPOK, LoginsHaveBrowsers, Started, NoLogin
  <2>3. \A b \in Browsers : JarOK(b)
    BY DEF Init, JarOK
  <2>4. \A r \in Requests : req[r] = NoReq /\ req[r].pc = "idle"
    BY DEF Init, NoReq
  <2>5. \A a \in Logins : CookieKept(a)
    BY DEF Init, CookieKept, NoLogin
  <2>6. InOrder /\ TurnedAwayForAReason
    BY <2>4 DEF InOrder, TurnedAwayForAReason
  <2> QED
    BY <2>1, <2>2, <2>3, <2>4, <2>5, <2>6 DEF CallbackInv
<1>2. CallbackInv /\ [Next]_vars => CallbackInv'
  <2> SUFFICES ASSUME CallbackInv, [Next]_vars
               PROVE  CallbackInv'
    OBVIOUS
  <2>1. CASE \E o \in Options : NewRelyingPartyOAuth(o) \/ \E d \in Documents : NewRelyingPartyOIDC(o, d)
    BY <2>1, BuildStep
  <2>2. CASE \E a \in Logins : FollowRedirect(a) \/ ProviderRedirects(a)
    BY <2>2, RedirectStep, ProviderAnswers
  <2>3. CASE \E b \in Browsers, a \in Logins :
               AuthURLHandler(b, a) \/ \E r \in Requests : CodeExchangeHandler(r, b, a)
    BY <2>3, AuthURLStep, HandlerStep
  <2>4. CASE \E r \in Requests : CodeExchange(r) \/ ReceiveAnswer(r)
    BY <2>4, ExchangeStep, AnswerStep
  <2>5. CASE UNCHANGED vars
    <3>1. UNCHANGED rp /\ UNCHANGED login /\ UNCHANGED cookie /\ UNCHANGED req /\ UNCHANGED spent
      BY <2>5 DEF vars
    <3> QED
      BY <3>1 DEF CallbackInv, Shape, RPOK, LoginsHaveBrowsers, JarOK, ReqOK, CookieKept, InOrder,
                  TurnedAwayForAReason, Ours, Started, IsPKCE, ClocksRefuse, MayEndInLogin
  <2> QED
    BY <2>1, <2>2, <2>3, <2>4, <2>5 DEF Next
<1> QED
  BY <1>1, <1>2, PTL DEF Spec

(* Several tabs, reloads and foreign links do not mix logins: with a cookie handler a    *)
(* callback succeeds only in the browser that began the login, and a code is exchanged   *)
(* with the verifier of its own login.                                                   *)
THEOREM LoginIsOwnHolds == Spec => []LoginIsOwn
<1>1. CallbackInv => LoginIsOwn
  <2> SUFFICES ASSUME CallbackInv
               PROVE  LoginIsOwn
    OBVIOUS
  <2>1. \A r \in Requests :
           /\ req[r].pc \in Answers \cup {"idle", "exchanging", "closed", "aborted"}
           /\ req[r].deletes \subseteq {"state", "pkce"}
           /\ req[r].verifier # 0 => IsPKCE
    BY DEF CallbackInv, Shape, Callback, InOrder, NoReq, ReqOK
  <2>2. \A b \in Browsers : (cookie[b].state # 0 => rp.cookies) /\ (cookie[b].pkce # 0 => rp.pkce)
    BY DEF CallbackInv, JarOK
  <2>3. TypeOK
    BY <2>1, <2>2 DEF CallbackInv, Shape, TypeOK, ReadyRP, Login, Jar
  <2>4. LoginOwn
    BY DEF CallbackInv, ReqOK, Ours, LoginOwn
  <2>5. VerifierPaired
    BY DEF CallbackInv, ReqOK, VerifierPaired
  <2> QED
    BY <2>3, <2>4, <2>5 DEF LoginIsOwn
<1> QED
  BY <1>1, CallbackInvariance, PTL

(* A login the user completed is refused only for what the browser brought or what the   *)
(* clocks say.                                                                           *)
THEOREM RefusedForCauseHolds == Spec => []RefusedForCause
<1>1. CallbackInv => RefusedForCause
  <2> SUFFICES ASSUME CallbackInv
               PROVE  RefusedForCause
    OBVIOUS
  <2>1. GenuineAccepted
    BY DEF CallbackInv, ReqOK, ClocksRefuse, GenuineAccepted
  <2> QED
    BY <2>1 DEF CallbackInv, RefusedForCause
<1> QED
  BY <1>1, CallbackInvariance, PTL

(* Tokens that end in a login were signed by the provider, for this client and for this  *)
(* access token, and the userinfo is that of their subject.                              *)
THEOREM AcceptedIsOursHolds == Spec => []AcceptedIsOurs
<1>1. CallbackInv => AcceptedIsOurs
  BY DEF CallbackInv, ReqOK, MayEndInLogin, AcceptedIsOurs
<1> QED
  BY <1>1, CallbackInvariance, PTL

-----------------------------------------------------------------------------
(***************************************************************************)
(* The provider's keys: RemoteKeySet for any number of callers, keys,      *)
(* rotations and fetches.                                                  *)
(***************************************************************************)

-----------------------------------------------------------------------------
(* The invariant.                                                          *)

\* The provider publishes keys of its own, each once, and remembers when it did.
ProviderInv ==
    /\ published \in Seq(Keys \ Foreign) /\ Len(published) <= version + 1
    /\ \A i, j \in 1..Len(published) : published[i] = published[j] => i = j
    /\ version \in Versions
    /\ firstPub \in [Keys -> Versions \cup {Nil}]
    /\ \A i \in 1..Len(published) : firstPub[published[i]] # Nil
    /\ \A k \in Keys : firstPub[k] # Nil => firstPub[k] <= version

\* A fetch brings the keys of a moment since it began: of those published now it lacks
\* only later ones.  The one that runs is the one in flight, and newer than the cache.
FetchInv(f) ==
    /\ fetches[f] \in Fetch
    /\ fetches[f].from <= version
    /\ fetches[f].state # "done" => f = inflight /\ ~fetches[f].err /\ cachedVer <= fetches[f].from
    /\ fetches[f].state # "sent" /\ ~fetches[f].err =>
          /\ fetches[f].from <= fetches[f].ver /\ fetches[f].ver <= version
          /\ \A i \in 1..Len(published) :
                firstPub[published[i]] <= fetches[f].ver => published[i] \in Range(fetches[f].keys)

CacheInv ==
    /\ cached \in KeySets
    /\ cachedVer \in Versions \cup {-1} /\ cachedVer <= version
    /\ inflight # Nil => inflight \in DOMAIN fetches /\ fetches[inflight].state # "done"
    /\ inflight \in Nat \cup {Nil}

\* A token of the provider's that names its key.
Named(token) == token.kid # Nil /\ token.signer \notin Foreign

KeyCall == [pc : {"idle", "join", "wait", "rejected", "mismatch"}, token : Token \cup {Nil}, fetch : Nat \cup {Nil},
            since : Versions]

\* A call waits for a fetch that was not over when it began, and is rejected by what
\* that fetch has brought.
CallInv(c) ==
    /\ c.since <= version
    /\ c.fetch # Nil => c.fetch \in DOMAIN fetches
    /\ c.pc # "idle" => c.token \in Tokens
    /\ c.pc \in {"wait", "rejected"} =>
          /\ c.fetch # Nil
          /\ fetches[c.fetch].state = "done" => fetches[c.fetch].until >= c.since
    /\ c.pc = "rejected" =>
          /\ fetches[c.fetch].state = "done" /\ ~fetches[c.fetch].err
          /\ Named(c.token) => c.token.signer \notin Range(fetches[c.fetch].keys)
    /\ c.pc = "mismatch" => ~Named(c.token)

KeySetInv ==
    /\ ProviderInv
    /\ fetches \in Seq(Fetch) /\ Len(fetches) <= MaxFetches
    /\ \A f \in DOMAIN fetches : FetchInv(f)
    /\ CacheInv
    /\ call \in [Callers -> KeyCall]
    /\ \A c \in Callers : CallInv(call[c])

-----------------------------------------------------------------------------
(* Finding a key.                                                          *)

\* The form of a key set.
LEMMA KeySetForm ==
  ASSUME NEW s \in KeySets
  PROVE  /\ s \in Seq(Keys \ Foreign)
         /\ \A i, j \in DOMAIN s : s[i] = s[j] => i = j
  BY KeySetAssumption DEF KeySets

\* What the provider publishes is one.
LEMMA PublishedForm ==
  ASSUME NEW s \in Seq(Keys \ Foreign), Len(s) <= MaxChanges + 1,
         \A i, j \in 1..Len(s) : s[i] = s[j] => i = j
  PROVE  s \in KeySets
<1>1. Len(s) \in 0..MaxChanges + 1 /\ s \in [1..Len(s) -> Keys \ Foreign] /\ DOMAIN s = 1..Len(s)
  BY KeySetAssumption
<1>2. s \in UNION {[1..n -> Keys \ Foreign] : n \in 0..MaxChanges + 1}
  BY <1>1
<1> QED
  BY <1>1, <1>2 DEF KeySets

\* The only member of a set of numbers is its least.
LEMMA OnlyMin ==
  ASSUME NEW i \in Int
  PROVE  Min({i}) = i
  BY DEF Min

\* The key of a token that names it is found wherever it is, and no other key with that
\* name is.
LEMMA NamedKeyFound ==
  ASSUME NEW keys \in KeySets, NEW token \in Tokens, Named(token)
  PROVE  LET k == FindMatchingKey(token.kid, keys)
         IN  /\ token.signer \in Range(keys) => k = token.signer
             /\ k \notin {Nil, token.signer} => Kid[k] # token.kid
<1> DEFINE kid == token.kid
           exact == {i \in DOMAIN keys : kid # Nil /\ Kid[keys[i]] = kid}
           loose == {i \in DOMAIN keys : kid = Nil \/ Kid[keys[i]] = Nil}
           k == FindMatchingKey(kid, keys)
<1>1. kid # Nil /\ kid = Kid[token.signer] /\ token.signer \in Keys \ Foreign
  BY DEF Named, Tokens, Token
<1>2. /\ keys \in Seq(Keys \ Foreign) /\ DOMAIN keys = 1..Len(keys) /\ Len(keys) \in Nat
      /\ \A i, j \in DOMAIN keys : keys[i] = keys[j] => i = j
  BY KeySetForm
<1>3. \A i \in exact : keys[i] = token.signer
  BY <1>1, <1>2, KeySetAssumption
<1>4. CASE exact # {}
  <2>1. PICK i \in exact : TRUE
    BY <1>4
  <2>2. exact = {i} /\ i \in Int
    BY <1>2, <1>3, <2>1
  <2>3. k = keys[Min(exact)]
    BY <1>4 DEF FindMatchingKey
  <2>4. k = token.signer
    BY <1>3, <2>1, <2>2, <2>3, OnlyMin
  <2> QED
    BY <2>4
<1>5. CASE exact = {}
  <2>1. token.signer \notin Range(keys)
    BY <1>1, <1>5 DEF Range
  <2>2. CASE Cardinality(loose) = 1
    <3>1. IsFiniteSet(loose)
      <4>1. IsFiniteSet(1..Len(keys))
        BY <1>2, FS_Interval
      <4>2. loose \in SUBSET (1..Len(keys))
        BY <1>2
      <4> QED
        BY <4>1, <4>2, FS_Subset
    <3>2. PICK j : loose = {j}
      BY <2>2, <3>1, FS_Singleton
    <3>3. j \in loose /\ j \in Int
      BY <1>2, <3>2
    <3>4. k = keys[Min(loose)]
      BY <1>5, <2>2 DEF FindMatchingKey
    <3>5. k = keys[j]
      BY <3>2, <3>3, <3>4, OnlyMin
    <3>6. Kid[keys[j]] = Nil
      BY <1>1, <3>3
    <3> QED
      BY <1>1, <2>1, <3>5, <3>6
  <2>3. CASE Cardinality(loose) # 1
    <3>1. k = Nil
      BY <1>5, <2>3 DEF FindMatchingKey
    <3> QED
      BY <2>1, <3>1
  <2> QED
    BY <2>2, <2>3
<1> QED
  BY <1>4, <1>5
-----------------------------------------------------------------------------
(* What stays.                                                             *)

\* A fetch that is over stays as it is, and one that ends does so in this moment.
FetchesGrow ==
    /\ DOMAIN fetches \subseteq DOMAIN fetches' /\ version <= version'
    /\ \A f \in DOMAIN fetches :
          /\ fetches[f].state = "done" => fetches'[f] = fetches[f]
          /\ fetches[f].state # "done" /\ fetches'[f].state = "done" => fetches'[f].until = version

\* A call relies on nothing else.
LEMMA CallStays ==
  ASSUME KeySetInv, FetchesGrow, version' \in Int, NEW c \in KeyCall, CallInv(c)
  PROVE  CallInv(c)'
<1>1. c.since \in Int /\ version \in Int /\ c.since <= version /\ c.since <= version'
  BY KeySetAssumption DEF KeyCall, Versions, KeySetInv, ProviderInv, CallInv, FetchesGrow
<1>2. c.fetch # Nil => c.fetch \in DOMAIN fetches /\ c.fetch \in DOMAIN fetches'
  BY DEF CallInv, FetchesGrow
<1>3. ASSUME c.pc \in {"wait", "rejected"}
      PROVE  /\ c.fetch # Nil
             /\ fetches'[c.fetch].state = "done" => fetches'[c.fetch].until >= c.since
  <2>1. c.fetch # Nil /\ (fetches[c.fetch].state = "done" => fetches[c.fetch].until >= c.since)
    BY <1>3 DEF CallInv
  <2>2. CASE fetches[c.fetch].state = "done"
    BY <1>2, <2>1, <2>2 DEF FetchesGrow
  <2>3. CASE fetches[c.fetch].state # "done" /\ fetches'[c.fetch].state = "done"
    <3>1. fetches'[c.fetch].until = version
      BY <1>2, <2>1, <2>3 DEF FetchesGrow
    <3> QED
      BY <1>1, <2>1, <3>1
  <2> QED
    BY <2>1, <2>2, <2>3
<1>4. ASSUME c.pc = "rejected"
      PROVE  fetches'[c.fetch] = fetches[c.fetch]
  BY <1>2, <1>4 DEF CallInv, FetchesGrow
<1>5. /\ Tokens' = Tokens
      /\ Named(c.token)' <=> Named(c.token)
  BY DEF Tokens, Token, Named
<1> QED
  BY <1>1, <1>2, <1>3, <1>4, <1>5 DEF CallInv

-----------------------------------------------------------------------------
(* The provider.                                                           *)

\* Times and versions are numbers.
LEMMA Numbers ==
  ASSUME KeySetInv
  PROVE  /\ version \in Int /\ Versions \subseteq Int /\ MaxChanges \in Nat
         /\ Nil \notin Int
         /\ \A i \in 1..Len(published) : published[i] \in Keys /\ firstPub[published[i]] \in Int
         /\ \A f \in DOMAIN fetches : fetches[f].from \in Int /\ fetches[f].ver \in Int /\ fetches[f].until \in Int
         /\ cachedVer \in Int
<1>1. Versions \subseteq Int /\ MaxChanges \in Nat /\ Nil \notin Int
  BY KeySetAssumption DEF Versions
<1>2. version \in Int /\ published \in Seq(Keys \ Foreign) /\ firstPub \in [Keys -> Versions \cup {Nil}]
  BY <1>1 DEF KeySetInv, ProviderInv
<1>3. \A i \in 1..Len(published) : published[i] \in Keys /\ firstPub[published[i]] \in Int
  <2> TAKE i \in 1..Len(published)
  <2>1. published[i] \in Keys
    <3>1. published \in [1..Len(published) -> Keys \ Foreign]
      BY <1>2
    <3> QED
      BY <3>1
  <2>2. firstPub[published[i]] # Nil
    BY DEF KeySetInv, ProviderInv
  <2> QED
    BY <1>1, <1>2, <2>1, <2>2
<1>4. \A f \in DOMAIN fetches : fetches[f].from \in Int /\ fetches[f].ver \in Int /\ fetches[f].until \in Int
  BY <1>1 DEF KeySetInv, FetchInv, Fetch
<1>5. cachedVer \in Int
  BY <1>1 DEF KeySetInv, CacheInv
<1> QED
  BY <1>1, <1>2, <1>3, <1>4, <1>5

\* The provider changes its keys: it adds new ones and drops old ones.
LEMMA ProviderMoves ==
  ASSUME KeySetInv, ProviderInv', version' = version + 1,
         UNCHANGED <<cached, cachedVer, inflight, fetches, call>>,
         \A i \in 1..Len(published') :
            \/ firstPub'[published'[i]] = version + 1
            \/ \E j \in 1..Len(published) : published'[i] = published[j] /\ firstPub'[published[j]] = firstPub[published[j]]
  PROVE  KeySetInv'
<1>1. /\ version \in Int /\ Versions \subseteq Int
      /\ \A f \in DOMAIN fetches : fetches[f].from \in Int /\ fetches[f].ver \in Int
      /\ cachedVer \in Int
  BY Numbers
<1>2. version' \in Int /\ version <= version'
  BY <1>1
<1>3. \A f \in DOMAIN fetches' : FetchInv(f)'
  <2> TAKE f \in DOMAIN fetches'
  <2>1. FetchInv(f) /\ f \in DOMAIN fetches
    BY DEF KeySetInv
  <2>2. fetches'[f] = fetches[f] /\ Fetch' = Fetch /\ cachedVer' = cachedVer /\ inflight' = inflight
    BY DEF Fetch, KeySets, Versions
  <2>3. fetches[f].from <= version'
    BY <1>1, <1>2, <2>1 DEF FetchInv
  <2>4. ASSUME fetches[f].state # "sent", ~fetches[f].err
        PROVE  /\ fetches[f].from <= fetches[f].ver /\ fetches[f].ver <= version'
               /\ \A i \in 1..Len(published') :
                     firstPub'[published'[i]] <= fetches[f].ver => published'[i] \in Range(fetches[f].keys)
    <3>1. /\ fetches[f].from <= fetches[f].ver /\ fetches[f].ver <= version
          /\ \A i \in 1..Len(published) :
                firstPub[published[i]] <= fetches[f].ver => published[i] \in Range(fetches[f].keys)
      BY <2>1, <2>4 DEF FetchInv
    <3>2. ~(version + 1 <= fetches[f].ver)
      BY <1>1, <2>1, <3>1
    <3>3. fetches[f].ver <= version'
      BY <1>1, <1>2, <2>1, <3>1
    <3> QED
      BY <3>1, <3>2, <3>3
  <2> QED
    BY <2>1, <2>2, <2>3, <2>4 DEF FetchInv, Range
<1>4. CacheInv'
  <2>1. cachedVer <= version'
    BY <1>1, <1>2 DEF KeySetInv, CacheInv
  <2> QED
    BY <2>1 DEF KeySetInv, CacheInv, KeySets, Versions
<1>5. \A c \in Callers : CallInv(call[c])'
  <2>1. FetchesGrow
    BY <1>2 DEF FetchesGrow
  <2> TAKE c \in Callers
  <2>2. call[c] \in KeyCall /\ CallInv(call[c]) /\ call'[c] = call[c]
    BY DEF KeySetInv
  <2>3. \A x \in KeyCall : CallInv(x) => CallInv(x)'
    BY <1>2, <2>1, CallStays
  <2> QED
    BY <2>2, <2>3 DEF CallInv, Named, Range, Tokens, Token
<1>6. call' \in [Callers -> KeyCall'] /\ fetches' \in Seq(Fetch') /\ Len(fetches') <= MaxFetches
  BY DEF KeySetInv, KeyCall, Token, Versions, Fetch, KeySets
<1> QED
  BY <1>3, <1>4, <1>5, <1>6 DEF KeySetInv

\* A new key comes first.
LEMMA RotateKeyStep ==
  ASSUME KeySetInv, NEW k \in Keys, RotateSigningKey(k)
  PROVE  KeySetInv'
<1>1. /\ version < MaxChanges /\ k \in Keys \ Foreign /\ firstPub[k] = Nil
      /\ published' = <<k>> \o published
      /\ firstPub' = [firstPub EXCEPT ![k] = version + 1]
      /\ version' = version + 1
      /\ UNCHANGED <<cached, cachedVer, inflight, fetches, call>>
  BY DEF RotateSigningKey
<1>2. /\ published \in Seq(Keys \ Foreign) /\ Len(published) <= version + 1
      /\ \A i, j \in 1..Len(published) : published[i] = published[j] => i = j
      /\ version \in 0..MaxChanges /\ MaxChanges \in Nat
      /\ firstPub \in [Keys -> Versions \cup {Nil}]
      /\ \A i \in 1..Len(published) : firstPub[published[i]] # Nil /\ published[i] \in Keys
      /\ \A x \in Keys : firstPub[x] # Nil => firstPub[x] <= version
      /\ Nil \notin Int
  <2>1. Nil \notin Int /\ \A i \in 1..Len(published) : published[i] \in Keys
    BY Numbers
  <2> QED
    BY <2>1, KeySetAssumption DEF KeySetInv, ProviderInv, Versions
<1>3. /\ published' \in Seq(Keys \ Foreign) /\ Len(published') = Len(published) + 1
      /\ published'[1] = k
      /\ \A i \in 2..Len(published') : published'[i] = published[i - 1] /\ i - 1 \in 1..Len(published)
  BY <1>1, <1>2
<1>4. \A i \in 1..Len(published) : published[i] # k
  BY <1>1, <1>2
<1>5. /\ version + 1 \in Versions /\ version + 1 \in Int
      /\ firstPub'[k] = version + 1 /\ \A x \in Keys : x # k => firstPub'[x] = firstPub[x]
      /\ firstPub' \in [Keys -> Versions \cup {Nil}]
  BY <1>1, <1>2 DEF Versions
<1>6. \A i \in 1..Len(published') : i = 1 \/ i \in 2..Len(published')
  BY <1>2, <1>3
<1>7. ProviderInv'
  <2>1. Len(published') <= version' + 1
    BY <1>1, <1>2, <1>3
  <2>2. \A i, j \in 1..Len(published') : published'[i] = published'[j] => i = j
    <3> TAKE i, j \in 1..Len(published')
    <3>1. CASE i = 1 /\ j = 1
      BY <3>1
    <3>2. CASE i = 1 /\ j \in 2..Len(published')
      BY <1>3, <1>4, <3>2
    <3>3. CASE j = 1 /\ i \in 2..Len(published')
      BY <1>3, <1>4, <3>3
    <3>4. CASE i \in 2..Len(published') /\ j \in 2..Len(published')
      <4>1. published'[i] = published[i - 1] /\ i - 1 \in 1..Len(published)
        BY <1>3, <3>4
      <4>2. published'[j] = published[j - 1] /\ j - 1 \in 1..Len(published)
        BY <1>3, <3>4
      <4>3. published[i - 1] = published[j - 1] => i - 1 = j - 1
        BY <1>2, <4>1, <4>2
      <4> QED
        BY <3>4, <4>1, <4>2, <4>3
    <3> QED
      BY <1>6, <3>1, <3>2, <3>3, <3>4
  <2>3. \A i \in 1..Len(published') : firstPub'[published'[i]] # Nil
    <3> TAKE i \in 1..Len(published')
    <3>1. CASE i = 1
      BY <1>2, <1>3, <1>5, <3>1
    <3>2. CASE i \in 2..Len(published')
      BY <1>2, <1>3, <1>4, <1>5, <3>2
    <3> QED
      BY <1>6, <3>1, <3>2
  <2>4. \A x \in Keys : firstPub'[x] # Nil => firstPub'[x] <= version'
    <3> TAKE x \in Keys
    <3>1. CASE x = k
      BY <1>1, <1>5, <3>1
    <3>2. CASE x # k
      <4>1. firstPub[x] \in Int \/ firstPub[x] = Nil
        BY <1>2 DEF Versions
      <4> QED
        BY <1>1, <1>2, <1>5, <3>2, <4>1
    <3> QED
      BY <3>1, <3>2
  <2>5. version' \in Versions' /\ firstPub' \in [Keys -> Versions' \cup {Nil}]
    BY <1>1, <1>5 DEF Versions
  <2> QED
    BY <1>3, <2>1, <2>2, <2>3, <2>4, <2>5 DEF ProviderInv
<1>8. \A i \in 1..Len(published') :
        \/ firstPub'[published'[i]] = version + 1
        \/ \E j \in 1..Len(published) : published'[i] = published[j] /\ firstPub'[published[j]] = firstPub[published[j]]
  <2> TAKE i \in 1..Len(published')
  <2>1. CASE i = 1
    BY <1>3, <1>5, <2>1
  <2>2. CASE i \in 2..Len(published')
    <3>1. published'[i] = published[i - 1] /\ i - 1 \in 1..Len(published)
      BY <1>3, <2>2
    <3>2. firstPub'[published[i - 1]] = firstPub[published[i - 1]]
      BY <1>2, <1>4, <1>5, <3>1
    <3> QED
      BY <3>1, <3>2
  <2> QED
    BY <1>6, <2>1, <2>2
<1> QED
  BY <1>1, <1>7, <1>8, ProviderMoves

\* The oldest key goes.
LEMMA RetireKeyStep ==
  ASSUME KeySetInv, RetireKey
  PROVE  KeySetInv'
<1>1. /\ version < MaxChanges /\ Len(published) > 1
      /\ published' = SubSeq(published, 1, Len(published) - 1)
      /\ version' = version + 1
      /\ UNCHANGED <<firstPub, cached, cachedVer, inflight, fetches, call>>
  BY DEF RetireKey
<1>2. /\ published \in Seq(Keys \ Foreign) /\ Len(published) <= version + 1 /\ Len(published) \in Nat
      /\ \A i, j \in 1..Len(published) : published[i] = published[j] => i = j
      /\ version \in 0..MaxChanges /\ MaxChanges \in Nat
      /\ firstPub \in [Keys -> Versions \cup {Nil}]
      /\ \A i \in 1..Len(published) : firstPub[published[i]] # Nil
      /\ \A x \in Keys : firstPub[x] # Nil => firstPub[x] <= version
  BY KeySetAssumption DEF KeySetInv, ProviderInv, Versions
<1>3. /\ published' \in Seq(Keys \ Foreign) /\ Len(published') = Len(published) - 1
      /\ \A i \in 1..Len(published') : published'[i] = published[i] /\ i \in 1..Len(published)
  BY <1>1, <1>2
<1>4. ProviderInv'
  <2>1. Len(published') <= version' + 1
    BY <1>1, <1>2, <1>3
  <2>2. /\ \A i, j \in 1..Len(published') : published'[i] = published'[j] => i = j
        /\ \A i \in 1..Len(published') : firstPub'[published'[i]] # Nil
    BY <1>1, <1>2, <1>3
  <2>3. version' \in Versions' /\ firstPub' \in [Keys -> Versions' \cup {Nil}]
    BY <1>1, <1>2 DEF Versions
  <2>4. \A x \in Keys : firstPub'[x] # Nil => firstPub'[x] <= version'
    <3> TAKE x \in Keys
    <3>1. firstPub[x] \in Int \/ firstPub[x] = Nil
      BY <1>2 DEF Versions
    <3> QED
      BY <1>1, <1>2, <3>1
  <2> QED
    BY <1>3, <2>1, <2>2, <2>3, <2>4 DEF ProviderInv
<1>5. \A i \in 1..Len(published') :
        \E j \in 1..Len(published) : published'[i] = published[j] /\ firstPub'[published[j]] = firstPub[published[j]]
  BY <1>1, <1>3
<1> QED
  BY <1>1, <1>4, <1>5, ProviderMoves

-----------------------------------------------------------------------------
(* The callers.                                                            *)

\* One call moves; the others rely on nothing it touches.
LEMMA OneCallMoves ==
  ASSUME KeySetInv, FetchesGrow, version' \in Int, NEW c \in Callers,
         NEW x \in KeyCall, CallInv(x)', call' = [call EXCEPT ![c] = x]
  PROVE  call' \in [Callers -> KeyCall] /\ \A d \in Callers : CallInv(call[d])'
<1>1. call \in [Callers -> KeyCall]
  BY DEF KeySetInv
<1>2. call' \in [Callers -> KeyCall]
  BY <1>1
<1>3. ASSUME NEW d \in Callers
      PROVE  CallInv(call[d])'
  <2>1. \A y \in KeyCall : CallInv(y) => CallInv(y)'
    BY CallStays
  <2>2. CASE d = c
    <3>1. call'[d] = x
      BY <1>1, <2>2
    <3> QED
      BY <3>1 DEF CallInv, Named, Range, Tokens, Token
  <2>3. CASE d # c
    <3>1. call'[d] = call[d] /\ call[d] \in KeyCall /\ CallInv(call[d])
      BY <1>1, <2>3 DEF KeySetInv
    <3> QED
      BY <2>1, <3>1 DEF CallInv, Named, Range, Tokens, Token
  <2> QED
    BY <2>2, <2>3
<1> QED
  BY <1>2, <1>3

\* A call moves and nothing else does.
LEMMA CallMoves ==
  ASSUME KeySetInv, NEW c \in Callers, NEW x \in KeyCall, CallInv(x),
         call' = [call EXCEPT ![c] = x],
         UNCHANGED <<published, version, firstPub, cached, cachedVer, inflight, fetches>>
  PROVE  KeySetInv'
<1>1. version' \in Int /\ version <= version'
  BY Numbers
<1>2. FetchesGrow
  BY <1>1 DEF FetchesGrow
<1>3. CallInv(x)'
  BY DEF CallInv, Named, Range, Tokens, Token
<1>4. call' \in [Callers -> KeyCall] /\ \A d \in Callers : CallInv(call[d])'
  BY <1>1, <1>2, <1>3, OneCallMoves
<1>5. KeyCall' = KeyCall /\ Fetch' = Fetch
  BY DEF KeyCall, Token, Versions, Fetch, KeySets
<1>6. ProviderInv' /\ CacheInv'
  BY DEF KeySetInv, ProviderInv, CacheInv, KeySets, Versions
<1>7. \A f \in DOMAIN fetches' : FetchInv(f)'
  <2> TAKE f \in DOMAIN fetches'
  <2>1. FetchInv(f)
    BY DEF KeySetInv
  <2> QED
    BY <1>5, <2>1 DEF FetchInv, Range
<1> QED
  BY <1>4, <1>5, <1>6, <1>7 DEF KeySetInv

\* A caller that is done waits for nothing.
LEMMA IdleCallStep ==
  ASSUME KeySetInv, NEW c \in Callers,
         call' = [call EXCEPT ![c] = IdleCall],
         UNCHANGED <<published, version, firstPub, cached, cachedVer, inflight, fetches>>
  PROVE  KeySetInv'
<1>1. IdleCall \in KeyCall /\ CallInv(IdleCall)
  BY KeySetAssumption DEF IdleCall, KeyCall, Versions, CallInv, KeySetInv, ProviderInv
<1> QED
  BY <1>1, CallMoves

\* A token that names its key is never turned away by the cache.
LEMMA CachedStep ==
  ASSUME KeySetInv, NEW c \in Callers, NEW token \in Tokens,
         VerifySignatureCached(c, token)
  PROVE  KeySetInv'
<1> DEFINE pc == CachedVerdict(token)
           k == FindMatchingKey(token.kid, cached)
           x == [pc |-> pc, token |-> token, fetch |-> Nil, since |-> version]
<1>1. /\ pc # "idle" /\ call' = [call EXCEPT ![c] = x]
      /\ UNCHANGED <<published, version, firstPub, cached, cachedVer, inflight, fetches>>
  BY DEF VerifySignatureCached
<1>2. pc \in {"idle", "mismatch", "join"}
  BY DEF CachedVerdict
<1>3. token \in Token /\ version \in Versions /\ version \in Int /\ cached \in KeySets
  BY Numbers DEF Tokens, KeySetInv, ProviderInv, CacheInv
<1>4. x \in KeyCall
  BY <1>2, <1>3 DEF KeyCall
<1>5. pc = "mismatch" => ~Named(token)
  <2> SUFFICES ASSUME pc = "mismatch", Named(token)
               PROVE  FALSE
    OBVIOUS
  <2>1. k \notin {Nil, token.signer} /\ exactMatch(Kid[k], token.kid)
    BY DEF CachedVerdict
  <2>2. Kid[k] # token.kid
    BY <1>3, <2>1, NamedKeyFound
  <2>3. token.kid # Nil
    BY DEF Named
  <2> QED
    BY <2>1, <2>2, <2>3 DEF exactMatch
<1>6. CallInv(x)
  BY <1>2, <1>3, <1>5 DEF CallInv
<1> HIDE DEF x
<1> QED
  BY <1>1, <1>4, <1>6, CallMoves

\* The fetch in flight is not over.
LEMMA JoinFetchStep ==
  ASSUME KeySetInv, NEW c \in Callers, JoinFetch(c)
  PROVE  KeySetInv'
<1> DEFINE x == [call[c] EXCEPT !.pc = "wait", !.fetch = inflight]
<1>1. /\ call[c].pc = "join" /\ inflight # Nil
      /\ UNCHANGED <<published, version, firstPub, cached, cachedVer, inflight, fetches>>
  BY DEF JoinFetch
<1>2. call[c] \in KeyCall /\ CallInv(call[c]) /\ call \in [Callers -> KeyCall]
  BY DEF KeySetInv
<1>3. call' = [call EXCEPT ![c] = x]
  BY <1>2 DEF JoinFetch
<1>4. inflight \in Nat /\ inflight \in DOMAIN fetches /\ fetches[inflight].state # "done"
  BY <1>1 DEF KeySetInv, CacheInv
<1>5. x \in KeyCall /\ x.pc = "wait" /\ x.fetch = inflight /\ x.token = call[c].token /\ x.since = call[c].since
  BY <1>2, <1>4 DEF KeyCall
<1> HIDE DEF x
<1>6. CallInv(x)
  BY <1>1, <1>2, <1>4, <1>5 DEF CallInv
<1> QED
  BY <1>1, <1>3, <1>5, <1>6, CallMoves

\* Whoever waited for the fetch is served or turned away by what it brought.
LEMMA RemoteStep ==
  ASSUME KeySetInv, NEW c \in Callers, VerifySignatureRemote(c)
  PROVE  KeySetInv'
<1> DEFINE x == [call[c] EXCEPT !.pc = "rejected"]
           f == fetches[call[c].fetch]
           k == FindMatchingKey(call[c].token.kid, f.keys)
<1>1. /\ call[c].pc = "wait" /\ f.state = "done"
      /\ call' = [call EXCEPT ![c] = Ends(c, RemoteVerdict(c))]
      /\ UNCHANGED <<published, version, firstPub, cached, cachedVer, inflight, fetches>>
  BY DEF VerifySignatureRemote
<1>2. call[c] \in KeyCall /\ CallInv(call[c])
  BY DEF KeySetInv
<1>3. CASE f.err \/ k = call[c].token.signer
  <2>1. call' = [call EXCEPT ![c] = IdleCall]
    BY <1>1, <1>3 DEF Ends, RemoteVerdict
  <2> QED
    BY <1>1, <2>1, IdleCallStep
<1>4. CASE ~(f.err \/ k = call[c].token.signer)
  <2>1. RemoteVerdict(c) = "rejected"
    BY <1>4 DEF RemoteVerdict
  <2>2. call' = [call EXCEPT ![c] = x]
    BY <1>1, <2>1 DEF Ends
  <2>3. x \in KeyCall /\ x.pc = "rejected" /\ x.fetch = call[c].fetch /\ x.token = call[c].token /\ x.since = call[c].since
    BY <1>2 DEF KeyCall
  <2>4. call[c].token \in Tokens /\ call[c].fetch \in DOMAIN fetches
    BY <1>1, <1>2 DEF CallInv
  <2>5. f.keys \in KeySets
    BY <2>4 DEF KeySetInv, FetchInv, Fetch
  <2>6. Named(call[c].token) => call[c].token.signer \notin Range(f.keys)
    <3>1. \A t \in Tokens : Named(t) =>
             (t.signer \in Range(f.keys) => FindMatchingKey(t.kid, f.keys) = t.signer)
      BY <2>5, NamedKeyFound
    <3> QED
      BY <1>4, <2>4, <3>1
  <2>7. CallInv(x)
    <3> HIDE DEF x
    <3> QED
      BY <1>1, <1>2, <1>4, <2>3, <2>4, <2>6 DEF CallInv
  <2> HIDE DEF x
  <2> QED
    BY <1>1, <2>2, <2>3, <2>7, CallMoves
<1> QED
  BY <1>3, <1>4

-----------------------------------------------------------------------------
(* The fetches.                                                            *)

\* A key set may be empty.
LEMMA NoKeys ==
  ASSUME KeySetInv
  PROVE  <<>> \in KeySets
<1>1. <<>> \in Seq(Keys \ Foreign) /\ Len(<<>>) = 0 /\ 1..0 = {}
  OBVIOUS
<1>2. Len(<<>>) <= MaxChanges + 1
  BY <1>1, Numbers
<1>3. \A i, j \in 1..Len(<<>>) : <<>>[i] = <<>>[j] => i = j
  BY <1>1
<1> QED
  BY <1>1, <1>2, <1>3, PublishedForm

\* What a fetch looks like does not depend on the state.
LEMMA FetchFormStays == Fetch' = Fetch
  BY DEF Fetch, KeySets, Versions

\* Nothing is in flight: a new fetch has all the others behind it.
LEMMA StartFetchStep ==
  ASSUME KeySetInv, NEW c \in Callers, StartFetch(c)
  PROVE  KeySetInv'
<1> DEFINE n == Len(fetches) + 1
           new == [state |-> "sent", err |-> FALSE, keys |-> <<>>, from |-> version, ver |-> 0, until |-> 0]
           x == [call[c] EXCEPT !.pc = "wait", !.fetch = n]
<1>1. /\ call[c].pc = "join" /\ inflight = Nil /\ Len(fetches) < MaxFetches
      /\ fetches' = Append(fetches, new) /\ inflight' = n
      /\ UNCHANGED <<published, version, firstPub, cached, cachedVer>>
  BY DEF StartFetch
<1>2. call[c] \in KeyCall /\ CallInv(call[c]) /\ call \in [Callers -> KeyCall] /\ fetches \in Seq(Fetch)
  BY DEF KeySetInv
<1>3. call' = [call EXCEPT ![c] = x]
  BY <1>2 DEF StartFetch
<1>4. version \in Versions /\ 0 \in Versions /\ version \in Int /\ MaxFetches \in Nat
  BY Numbers, KeySetAssumption DEF KeySetInv, ProviderInv, Versions
<1>5. new \in Fetch
  <2>1. <<>> \in KeySets
    BY NoKeys
  <2> QED
    BY <1>4, <2>1 DEF Fetch
<1>6. new.state = "sent" /\ new.from = version /\ ~new.err
  OBVIOUS
<1> HIDE DEF new
<1>7. /\ fetches' \in Seq(Fetch) /\ Len(fetches') = n /\ n \in Nat /\ n <= MaxFetches
      /\ DOMAIN fetches' = 1..n /\ DOMAIN fetches = 1..Len(fetches)
      /\ fetches'[n] = new /\ \A f \in DOMAIN fetches : fetches'[f] = fetches[f] /\ f \in 1..n
  BY <1>1, <1>2, <1>4, <1>5
<1>8. \A f \in DOMAIN fetches' : f = n \/ f \in DOMAIN fetches
  BY <1>2, <1>7
<1>9. ProviderInv' /\ KeyCall' = KeyCall /\ Fetch' = Fetch
  BY <1>1 DEF KeySetInv, ProviderInv, Versions, KeyCall, Token, Fetch, KeySets
<1>10. \A f \in DOMAIN fetches' : FetchInv(f)'
  <2> TAKE f \in DOMAIN fetches'
  <2>1. CASE f = n
    <3>1. cachedVer <= version
      BY DEF KeySetInv, CacheInv
    <3>2. new.from <= version
      BY <1>4, <1>6
    <3> QED
      BY <1>1, <1>5, <1>6, <1>7, <2>1, <3>1, <3>2 DEF FetchInv, Fetch, KeySets, Versions
  <2>2. CASE f \in DOMAIN fetches
    <3>1. FetchInv(f) /\ fetches'[f] = fetches[f]
      BY <1>7, <2>2 DEF KeySetInv
    <3>2. f # Nil
      BY <1>7, <2>2, Numbers
    <3>3. fetches[f].state = "done"
      BY <1>1, <3>1, <3>2 DEF FetchInv
    <3> QED
      BY <1>1, <1>9, <3>1, <3>3 DEF FetchInv, Range
  <2> QED
    BY <1>8, <2>1, <2>2
<1>11. CacheInv'
  BY <1>1, <1>6, <1>7 DEF KeySetInv, CacheInv, KeySets, Versions
<1>12. version' \in Int /\ FetchesGrow
  <2>1. version <= version' /\ version' \in Int
    BY <1>1, <1>4
  <2> QED
    BY <1>7, <2>1 DEF FetchesGrow
<1>13. x \in KeyCall /\ \A y \in KeyCall : y = x => CallInv(y)'
  <2>1. x \in KeyCall /\ x.pc = "wait" /\ x.fetch = n /\ x.token = call[c].token /\ x.since = call[c].since
    BY <1>2, <1>7 DEF KeyCall
  <2>2. n # Nil /\ n \in DOMAIN fetches'
    BY <1>7, Numbers
  <2>3. call[c].token \in Tokens /\ call[c].since <= version
    BY <1>1, <1>2 DEF CallInv
  <2>4. \A y \in KeyCall : y.pc = "wait" /\ y.fetch = n /\ y.token \in Tokens /\ y.since <= version => CallInv(y)'
    BY <1>1, <1>6, <1>7, <2>2 DEF CallInv, Tokens, Token
  <2> HIDE DEF x
  <2>5. \A y \in KeyCall : y = x => CallInv(y)'
    BY <2>1, <2>3, <2>4
  <2> QED
    BY <2>1, <2>5
<1>14. call' \in [Callers -> KeyCall] /\ \A d \in Callers : CallInv(call[d])'
  <2> HIDE DEF x
  <2>1. PICK y \in KeyCall : y = x
    BY <1>13
  <2>2. CallInv(y)' /\ call' = [call EXCEPT ![c] = y]
    BY <1>3, <1>13, <2>1
  <2> QED
    BY <1>12, <2>2, OneCallMoves
<1> QED
  BY <1>7, <1>10, <1>11, <1>14, <1>9 DEF KeySetInv

\* A fetch moves: the one that runs is the one in flight.
LEMMA FetchMoves ==
  ASSUME KeySetInv, NEW f \in DOMAIN fetches, NEW g \in Fetch,
         fetches[f].state # "done", fetches' = [fetches EXCEPT ![f] = g],
         FetchInv(f)', CacheInv', UNCHANGED <<published, version, firstPub, call>>,
         g.state = "done" => g.until = version
  PROVE  KeySetInv'
<1>1. /\ fetches' \in Seq(Fetch) /\ Len(fetches') = Len(fetches) /\ DOMAIN fetches' = DOMAIN fetches
      /\ fetches'[f] = g /\ \A h \in DOMAIN fetches : h # f => fetches'[h] = fetches[h]
  BY DEF KeySetInv
<1>2. version' \in Int /\ version <= version'
  BY Numbers
<1>3. f = inflight
  BY DEF KeySetInv, FetchInv
<1>4. ASSUME NEW h \in DOMAIN fetches'
      PROVE  FetchInv(h)'
  <2>1. CASE h = f
    BY <2>1 DEF FetchInv
  <2>2. CASE h # f
    <3>1. FetchInv(h) /\ fetches'[h] = fetches[h]
      BY <1>1, <2>2 DEF KeySetInv
    <3>2. fetches[h].state = "done"
      BY <1>3, <2>2, <3>1 DEF FetchInv
    <3> QED
      BY <3>1, <3>2 DEF FetchInv, Range, Fetch, KeySets, Versions
  <2> QED
    BY <2>1, <2>2
<1>5. FetchesGrow
  BY <1>1, <1>2 DEF FetchesGrow
<1>6. ASSUME NEW c \in Callers
      PROVE  CallInv(call[c])'
  <2>1. \A y \in KeyCall : CallInv(y) => CallInv(y)'
    BY <1>2, <1>5, CallStays
  <2>2. call'[c] = call[c] /\ call[c] \in KeyCall /\ CallInv(call[c])
    BY DEF KeySetInv
  <2> QED
    BY <2>1, <2>2 DEF CallInv, Named, Range, Tokens, Token
<1>7. ProviderInv' /\ KeyCall' = KeyCall /\ Fetch' = Fetch
  BY DEF KeySetInv, ProviderInv, Versions, KeyCall, Token, Fetch, KeySets
<1> QED
  BY <1>1, <1>4, <1>6, <1>7 DEF KeySetInv

\* The provider's answer is what it publishes in this moment.
LEMMA ServeStep ==
  ASSUME KeySetInv, NEW f \in DOMAIN fetches, Serve(f)
  PROVE  KeySetInv'
<1> DEFINE g == [fetches[f] EXCEPT !.state = "answered", !.keys = published, !.ver = version]
<1>1. /\ fetches[f].state = "sent"
      /\ UNCHANGED <<published, version, firstPub, cached, cachedVer, inflight, call>>
  BY DEF Serve
<1>2. fetches[f] \in Fetch /\ FetchInv(f) /\ fetches \in Seq(Fetch)
  BY DEF KeySetInv, FetchInv
<1>3. fetches' = [fetches EXCEPT ![f] = g]
  BY <1>2 DEF Serve
<1>4. published \in KeySets /\ version \in Versions /\ version \in Int
  <2>1. /\ published \in Seq(Keys \ Foreign) /\ Len(published) <= version + 1
        /\ \A i, j \in 1..Len(published) : published[i] = published[j] => i = j
        /\ version \in 0..MaxChanges
    BY DEF KeySetInv, ProviderInv, Versions
  <2>2. Len(published) <= MaxChanges + 1
    BY <2>1, Numbers
  <2> QED
    BY <2>1, <2>2, PublishedForm DEF Versions
<1>5. /\ g \in Fetch /\ g.state = "answered" /\ g.keys = published /\ g.ver = version
      /\ g.from = fetches[f].from /\ g.err = fetches[f].err
  BY <1>2, <1>4 DEF Fetch
<1> HIDE DEF g
<1>6. fetches'[f] = g /\ DOMAIN fetches' = DOMAIN fetches
      /\ \A h \in DOMAIN fetches : h # f => fetches'[h] = fetches[h]
  BY <1>2, <1>3
<1>7. \A i \in 1..Len(published) : published[i] \in Range(published)
  <2>1. DOMAIN published = 1..Len(published)
    BY DEF KeySetInv, ProviderInv
  <2> QED
    BY <2>1 DEF Range
<1>8. FetchInv(f)'
  <2>1. /\ g.from <= version /\ g.ver <= version /\ g.from <= g.ver /\ ~g.err
        /\ f = inflight /\ cachedVer <= g.from
    BY <1>1, <1>2, <1>4, <1>5 DEF FetchInv
  <2> QED
    BY <1>1, <1>5, <1>6, <1>7, <2>1, FetchFormStays DEF FetchInv, Range
<1>9. CacheInv'
  <2>1. inflight = f
    BY <1>1, <1>2 DEF FetchInv
  <2> QED
    BY <1>1, <1>5, <1>6, <2>1 DEF KeySetInv, CacheInv, KeySets, Versions
<1> QED
  BY <1>1, <1>3, <1>5, <1>8, <1>9, FetchMoves

\* The cache takes over the answer of a fetch begun after its own.
LEMMA FetchSucceedsStep ==
  ASSUME KeySetInv, NEW f \in DOMAIN fetches, FetchSucceeds(f)
  PROVE  KeySetInv' /\ cachedVer' >= cachedVer
<1> DEFINE g == [fetches[f] EXCEPT !.state = "done", !.until = version]
<1>1. /\ fetches[f].state = "answered" /\ cached' = fetches[f].keys /\ cachedVer' = fetches[f].ver /\ inflight' = Nil
      /\ UNCHANGED <<published, version, firstPub, call>>
  BY DEF FetchSucceeds
<1>2. fetches[f] \in Fetch /\ FetchInv(f) /\ fetches \in Seq(Fetch)
  BY DEF KeySetInv, FetchInv
<1>3. fetches' = [fetches EXCEPT ![f] = g]
  BY <1>2 DEF FetchSucceeds
<1>4. version \in Versions /\ version \in Int /\ cachedVer \in Int
  BY Numbers DEF KeySetInv, ProviderInv
<1>5. /\ g \in Fetch /\ g.state = "done" /\ g.keys = fetches[f].keys /\ g.ver = fetches[f].ver
      /\ g.from = fetches[f].from /\ g.err = fetches[f].err /\ g.until = version
  BY <1>2, <1>4 DEF Fetch
<1> HIDE DEF g
<1>6. fetches'[f] = g
  BY <1>2, <1>3
<1>7. FetchInv(f)'
  BY <1>1, <1>2, <1>5, <1>6, FetchFormStays DEF FetchInv, Range
<1>8. CacheInv'
  <2>1. fetches[f].ver \in Versions /\ fetches[f].ver <= version /\ fetches[f].keys \in KeySets
    BY <1>1, <1>2 DEF FetchInv, Fetch
  <2> QED
    BY <1>1, <2>1 DEF CacheInv, KeySets, Versions
<1>9. cachedVer' >= cachedVer
  <2>1. /\ cachedVer <= fetches[f].from /\ fetches[f].from <= fetches[f].ver
        /\ fetches[f].from \in Int /\ fetches[f].ver \in Int
    BY <1>1, <1>2, Numbers DEF FetchInv
  <2> QED
    BY <1>1, <1>4, <2>1
<1> QED
  BY <1>1, <1>3, <1>5, <1>7, <1>8, <1>9, FetchMoves

\* A fetch that fails leaves the cache alone and nothing in flight.
LEMMA FetchFailsStep ==
  ASSUME KeySetInv, NEW f \in DOMAIN fetches, FetchFails(f)
  PROVE  KeySetInv'
<1> DEFINE g == [fetches[f] EXCEPT !.state = "done", !.until = version, !.err = TRUE, !.keys = <<>>]
<1>1. /\ fetches[f].state # "done" /\ inflight' = Nil
      /\ UNCHANGED <<published, version, firstPub, cached, cachedVer, call>>
  BY DEF FetchFails
<1>2. fetches[f] \in Fetch /\ FetchInv(f) /\ fetches \in Seq(Fetch)
  BY DEF KeySetInv, FetchInv
<1>3. fetches' = [fetches EXCEPT ![f] = g]
  BY <1>2 DEF FetchFails
<1>4. version \in Versions
  BY DEF KeySetInv, ProviderInv
<1>5. <<>> \in KeySets
  BY NoKeys
<1>6. /\ g \in Fetch /\ g.state = "done" /\ g.from = fetches[f].from /\ g.err /\ g.until = version
  BY <1>2, <1>4, <1>5 DEF Fetch
<1> HIDE DEF g
<1>7. fetches'[f] = g
  BY <1>2, <1>3
<1>8. FetchInv(f)'
  BY <1>1, <1>2, <1>6, <1>7 DEF FetchInv, Fetch, KeySets, Versions
<1>9. CacheInv'
  BY <1>1 DEF KeySetInv, CacheInv, KeySets, Versions
<1> QED
  BY <1>1, <1>3, <1>6, <1>8, <1>9, FetchMoves

-----------------------------------------------------------------------------
(* The theorems.                                                           *)

\* The cache is empty and the provider has its first key.
LEMMA KeySetStart ==
  ASSUME KeySetInit
  PROVE  KeySetInv
<1>1. /\ published = <<FirstKey>> /\ version = 0 /\ cached = <<>> /\ cachedVer = -1 /\ inflight = Nil /\ fetches = <<>>
      /\ firstPub = [k \in Keys |-> IF k = FirstKey THEN 0 ELSE Nil]
      /\ call = [c \in Callers |-> IdleCall]
  BY DEF KeySetInit
<1>2. FirstKey \in Keys \ Foreign /\ MaxChanges \in Nat /\ MaxFetches \in Nat /\ Nil \notin Int
  BY KeySetAssumption
<1>3. ProviderInv
  <2>1. /\ published \in Seq(Keys \ Foreign) /\ Len(published) = 1 /\ published[1] = FirstKey
        /\ 1..1 = {1}
    BY <1>1, <1>2
  <2>2. firstPub \in [Keys -> Versions \cup {Nil}] /\ version \in Versions
    BY <1>1, <1>2 DEF Versions
  <2>3. firstPub[FirstKey] = 0 /\ \A k \in Keys : firstPub[k] = 0 \/ firstPub[k] = Nil
    BY <1>1, <1>2
  <2>4. Len(published) <= version + 1 /\ 0 # Nil /\ 0 <= version
    BY <1>1, <1>2, <2>1
  <2> QED
    BY <2>1, <2>2, <2>3, <2>4 DEF ProviderInv
<1>4. cached \in KeySets
  <2>1. <<>> \in Seq(Keys \ Foreign) /\ Len(<<>>) = 0 /\ 1..0 = {}
    OBVIOUS
  <2>2. Len(<<>>) <= MaxChanges + 1
    BY <1>2, <2>1
  <2>3. \A i, j \in 1..Len(<<>>) : <<>>[i] = <<>>[j] => i = j
    BY <2>1
  <2> QED
    BY <1>1, <2>1, <2>2, <2>3, PublishedForm
<1>5. CacheInv
  BY <1>1, <1>4 DEF CacheInv
<1>6. fetches \in Seq(Fetch) /\ Len(fetches) = 0 /\ DOMAIN fetches = {}
  BY <1>1
<1>7. IdleCall \in KeyCall /\ CallInv(IdleCall)
  BY <1>1, <1>2 DEF IdleCall, KeyCall, Versions, CallInv
<1> HIDE DEF KeyCall, CallInv
<1>8. call \in [Callers -> KeyCall] /\ \A c \in Callers : call[c] = IdleCall
  BY <1>1, <1>7
<1> QED
  BY <1>2, <1>3, <1>5, <1>6, <1>7, <1>8 DEF KeySetInv

\* Every step keeps the invariant and takes the cache nowhere back.
LEMMA KeySetStep ==
  ASSUME KeySetInv, [KeySetNext]_keySetVars
  PROVE  KeySetInv' /\ cachedVer' >= cachedVer
<1>1. cachedVer \in Int
  BY Numbers
<1>2. CASE \E k \in Keys : RotateSigningKey(k)
  <2>1. PICK k \in Keys : RotateSigningKey(k)
    BY <1>2
  <2>2. cachedVer' = cachedVer
    BY <2>1 DEF RotateSigningKey
  <2> QED
    BY <1>1, <2>1, <2>2, RotateKeyStep
<1>3. CASE RetireKey
  <2>1. cachedVer' = cachedVer
    BY <1>3 DEF RetireKey
  <2> QED
    BY <1>1, <1>3, <2>1, RetireKeyStep
<1>4. CASE \E c \in Callers : CallStep(c)
  <2>1. PICK c \in Callers : CallStep(c)
    BY <1>4
  <2>2. cachedVer' = cachedVer
    BY <2>1 DEF CallStep, VerifySignatureCached, StartFetch, JoinFetch, GiveUp, VerifySignatureRemote, Return
  <2>3. KeySetInv'
    <3>1. CASE \E t \in Tokens : VerifySignatureCached(c, t)
      BY <3>1, CachedStep
    <3>2. CASE StartFetch(c)
      BY <3>2, StartFetchStep
    <3>3. CASE JoinFetch(c)
      BY <3>3, JoinFetchStep
    <3>4. CASE GiveUp(c) \/ Return(c)
      BY <3>4, IdleCallStep DEF GiveUp, Return
    <3>5. CASE VerifySignatureRemote(c)
      BY <3>5, RemoteStep
    <3> QED
      BY <2>1, <3>1, <3>2, <3>3, <3>4, <3>5 DEF CallStep
  <2> QED
    BY <1>1, <2>2, <2>3
<1>5. CASE \E f \in DOMAIN fetches : UpdateKeys(f)
  <2>1. PICK f \in DOMAIN fetches : UpdateKeys(f)
    BY <1>5
  <2>2. CASE Serve(f)
    <3>1. cachedVer' = cachedVer
      BY <2>2 DEF Serve
    <3> QED
      BY <1>1, <2>2, <3>1, ServeStep
  <2>3. CASE FetchSucceeds(f)
    BY <2>3, FetchSucceedsStep
  <2>4. CASE FetchFails(f)
    <3>1. cachedVer' = cachedVer
      BY <2>4 DEF FetchFails
    <3> QED
      BY <1>1, <2>4, <3>1, FetchFailsStep
  <2> QED
    BY <2>1, <2>2, <2>3, <2>4 DEF UpdateKeys
<1>6. CASE UNCHANGED keySetVars
  <2>1. UNCHANGED <<published, version, firstPub, cached, cachedVer, inflight, fetches, call>>
    BY <1>6 DEF keySetVars
  <2>2. KeySetInv'
    <3>1. \A f \in DOMAIN fetches' : FetchInv(f)'
      BY <2>1, FetchFormStays DEF KeySetInv, FetchInv, Range
    <3>2. \A c \in Callers : CallInv(call[c])'
      BY <2>1 DEF KeySetInv, CallInv, Named, Range, Tokens, Token
    <3>3. ProviderInv' /\ CacheInv' /\ KeyCall' = KeyCall
      BY <2>1 DEF KeySetInv, ProviderInv, CacheInv, KeySets, Versions, KeyCall, Token
    <3> QED
      BY <2>1, <3>1, <3>2, <3>3, FetchFormStays DEF KeySetInv
  <2> QED
    BY <1>1, <2>1, <2>2
<1> QED
  BY <1>2, <1>3, <1>4, <1>5, <1>6 DEF KeySetNext, ProviderStep

\* Of all fetches only the one in flight may still run.
LEMMA OneFetchRuns ==
  ASSUME KeySetInv
  PROVE  SingleFlight
<1> DEFINE S == {f \in DOMAIN fetches : fetches[f].state # "done"}
<1>1. \A f \in S : f = inflight
  BY DEF KeySetInv, FetchInv
<1>2. S = {} \/ S = {inflight}
  BY <1>1
<1>3. Cardinality(S) = 0 \/ Cardinality(S) = 1
  BY <1>2, FS_EmptySet, FS_Singleton
<1> QED
  BY <1>3 DEF SingleFlight

\* A key that is published and that the fetch did not bring is younger than the fetch.
LEMMA TurnedAwayForWant ==
  ASSUME KeySetInv
  PROVE  GenuineTurnedAway
<1> SUFFICES ASSUME NEW c \in Callers, call[c].pc \in {"rejected", "mismatch"},
                    call[c].token.kid # Nil, call[c].token.signer \notin Foreign,
                    call[c].token.signer \in Range(published)
             PROVE  call[c].pc = "rejected" /\ firstPub[call[c].token.signer] > fetches[call[c].fetch].from
  <2>1. \A c \in Callers : CallInv(call[c])
    BY DEF KeySetInv
  <2>2. ASSUME NEW c \in Callers, call[c].pc \in {"rejected", "mismatch"},
               call[c].token.kid # Nil, call[c].token.signer \notin Foreign
        PROVE  call[c].pc = "rejected"
    BY <2>1, <2>2 DEF CallInv, Named
  <2> QED
    BY <2>2 DEF GenuineTurnedAway
<1> DEFINE t == call[c].token
           f == fetches[call[c].fetch]
<1>1. CallInv(call[c]) /\ Named(t)
  BY DEF KeySetInv, Named
<1>2. call[c].pc = "rejected"
  BY <1>1 DEF CallInv
<1>3. call[c].fetch \in DOMAIN fetches /\ f.state = "done" /\ ~f.err /\ t.signer \notin Range(f.keys)
  BY <1>1, <1>2 DEF CallInv
<1>4. PICK i \in 1..Len(published) : published[i] = t.signer
  <2>1. DOMAIN published = 1..Len(published)
    BY DEF KeySetInv, ProviderInv
  <2> QED
    BY <2>1 DEF Range
<1>5. f.from <= f.ver /\ ~(firstPub[published[i]] <= f.ver)
  BY <1>3, <1>4 DEF KeySetInv, FetchInv
<1>6. f.from \in Int /\ f.ver \in Int /\ firstPub[published[i]] \in Int
  BY <1>3, Numbers
<1>7. firstPub[published[i]] > f.from
  BY <1>5, <1>6
<1> QED
  BY <1>2, <1>4, <1>7

\* The form of the state, as the runs check it.
LEMMA KeySetTypes ==
  ASSUME KeySetInv
  PROVE  KeySetTypeOK
<1>1. published \in KeySets
  <2>1. /\ published \in Seq(Keys \ Foreign) /\ Len(published) <= version + 1
        /\ \A i, j \in 1..Len(published) : published[i] = published[j] => i = j
        /\ version \in 0..MaxChanges
    BY DEF KeySetInv, ProviderInv, Versions
  <2>2. Len(published) <= MaxChanges + 1
    BY <2>1, Numbers
  <2> QED
    BY <2>1, <2>2, PublishedForm
<1>2. version \in Versions /\ firstPub \in [Keys -> Versions \cup {Nil}]
  BY DEF KeySetInv, ProviderInv
<1>3. cached \in KeySets /\ cachedVer \in Versions \cup {-1} /\ inflight \in DOMAIN fetches \cup {Nil}
  BY DEF KeySetInv, CacheInv
<1>4. Len(fetches) <= MaxFetches /\ \A f \in DOMAIN fetches : fetches[f] \in Fetch
  BY DEF KeySetInv, FetchInv
<1>5. ASSUME NEW c \in Callers
      PROVE  /\ call[c].pc \in {"idle", "join", "wait", "rejected", "mismatch"}
             /\ call[c].token \in Token \cup {Nil}
             /\ call[c].fetch \in DOMAIN fetches \cup {Nil}
             /\ call[c].since \in Versions
  <2>1. call[c] \in KeyCall /\ CallInv(call[c])
    BY DEF KeySetInv
  <2> QED
    BY <2>1 DEF KeyCall, CallInv
<1> QED
  BY <1>1, <1>2, <1>3, <1>4, <1>5 DEF KeySetTypeOK

\* No token is rejected on the word of a fetch that was over before the call began.
LEMMA FreshKeys ==
  ASSUME KeySetInv
  PROVE  RejectedByFreshKeys
<1> SUFFICES ASSUME NEW c \in Callers, call[c].pc = "rejected"
             PROVE  fetches[call[c].fetch].until >= call[c].since
  BY DEF RejectedByFreshKeys
<1>1. CallInv(call[c])
  BY DEF KeySetInv
<1> QED
  BY <1>1 DEF CallInv

\* remoteKeySet: cache, shared fetch and callers fit together for any number of callers,
\* keys, rotations and fetches, in whatever order these happen.
THEOREM KeySetInvariance ==
  KeySetSpec => []KeySetInv
<1>1. KeySetInit => KeySetInv
  BY KeySetStart
<1>2. KeySetInv /\ [KeySetNext]_keySetVars => KeySetInv'
  BY KeySetStep
<1> QED
  BY <1>1, <1>2, PTL DEF KeySetSpec

\* A caller of VerifySignature is turned away only for a reason that holds: one fetch
\* runs at a time, the keys it is judged by are not older than the call, and a genuine
\* token that names its key fails only because the key is newer than the fetch or retired.
THEOREM RejectedForCauseHolds ==
  KeySetSpec => []RejectedForCause
<1>1. KeySetInv => RejectedForCause
  BY KeySetTypes, OneFetchRuns, FreshKeys, TurnedAwayForWant DEF RejectedForCause
<1> QED
  BY <1>1, KeySetInvariance, PTL

\* updateKeys: the cache never returns to an older key set, whichever of the provider's
\* answers are late and whichever fetches fail.
THEOREM CacheNeverGoesBackHolds ==
  KeySetSpec => CacheNeverGoesBack
<1>1. KeySetInv /\ [KeySetNext]_keySetVars => [cachedVer' >= cachedVer]_keySetVars
  BY KeySetStep
<1> QED
  BY <1>1, KeySetInvariance, PTL DEF KeySetSpec, CacheNeverGoesBack

=============================================================================
