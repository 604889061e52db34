---------------------------- MODULE RelyingParty ----------------------------
(***************************************************************************)
(* The relying party library: discovery, the login redirect with its state *)
(* and PKCE cookies, and the callback that exchanges the code and verifies *)
(* the tokens.  Browsers keep cookies, load callback URLs more than once   *)
(* or follow a link with somebody else's, and receive replies late; the    *)
(* provider is external.                                                   *)
(*                                                                         *)
(* The state parameter, the code verifier and the code of login a are      *)
(* fresh values each, written a; 0 is an absent cookie.                    *)
(***************************************************************************)
EXTENDS Verifier

CONSTANTS Browsers,
          Logins,     \* 1..n, numbered in the order in which they start
          Requests,   \* 1..n, callback requests
          Documents,  \* discovery documents the issuer's URL may serve
          Kinds,      \* token responses the provider may send
          Skews,      \* relying party's clock minus provider's, half seconds
          Delays,     \* half seconds from issuing a token to verifying it
          Lifetime    \* of an ID token, half seconds

VARIABLES rp,      \* the relying party, or how its construction ended
          login,   \* Logins -> [phase, browser]
          cookie,  \* Browsers -> [state, pkce]
          req,     \* Requests -> the callback request and its handler
          spent    \* codes the provider has redeemed

vars == <<rp, login, cookie, req, spent>>

(* Logins and requests are numbered.  The issuer signs with RS256 and not    *)
(* with HS256, and says so if its document lists algorithms at all.          *)
ASSUME RelyingPartyAssumption ==
    /\ Logins \subseteq Nat \ {0} /\ Requests \subseteq Nat
    /\ Documents \subseteq
          [reachable : BOOLEAN, issuer : STRING, methods : SUBSET STRING, algs : SUBSET (STRING \ {"HS256"})]
    /\ \A d \in Documents : d.algs = {} \/ "RS256" \in d.algs
    /\ Kinds \subseteq {"genuine", "shared", "forOther", "unclear", "otherAzp", "otherKey", "otherAlg", "nonce",
                       "swapped", "encrypted", "missing", "otherUser"}
    /\ Skews \subseteq Int /\ Delays \subseteq Int /\ Lifetime \in Int

Issuer == "op"

Self == "rp"

ProviderKeys == {"k"}

-----------------------------------------------------------------------------
(* Construction.                                                             *)

\* pkce is "off", "on" or "discovery"; the PKCE options bring the cookie handler.
Options ==
    {o \in [pkce : {"off", "on", "discovery"}, cookies : BOOLEAN, userinfo : BOOLEAN, discoverAlgs : BOOLEAN] :
        o.pkce # "off" => o.cookies}

Ready(oauth2Only, pkce, algs, o) ==
    [status |-> "ready", oauth2Only |-> oauth2Only, pkce |-> pkce, algs |-> algs, cookies |-> o.cookies,
     userinfo |-> o.userinfo]

NewRelyingPartyOAuth(o) ==
    /\ rp.status = "none"
    /\ rp' = IF o.pkce = "discovery" THEN [status |-> "failed"] ELSE Ready(TRUE, o.pkce = "on", {}, o)
    /\ UNCHANGED <<login, cookie, req, spent>>

Discover(d) == d.reachable /\ d.issuer = Issuer

NewRelyingPartyOIDC(o, d) ==
    /\ rp.status = "none"
    /\ rp' = IF ~Discover(d) THEN [status |-> "failed"]
             ELSE Ready(FALSE, o.pkce = "on" \/ (o.pkce = "discovery" /\ d.methods \cap {"plain", "S256"} # {}),
                        IF o.discoverAlgs THEN d.algs ELSE {}, o)
    /\ UNCHANGED <<login, cookie, req, spent>>

-----------------------------------------------------------------------------
(* Starting a login.                                                         *)

IsPKCE == rp.status = "ready" /\ rp.pkce

NoBrowser == "none"

NoLogin == [phase |-> "none", browser |-> NoBrowser]

Started(a) == login[a].phase # "none"

AuthURLHandler(b, a) ==
    /\ rp.status = "ready"
    /\ ~Started(a)
    /\ \A x \in Logins : x < a => Started(x)
    /\ login' = [login EXCEPT ![a] = [phase |-> "redirecting", browser |-> b]]
    /\ UNCHANGED <<rp, cookie, req, spent>>

\* A verifier the browser already has is not replaced.
MutSetCookies(a, jar) ==
    [state |-> IF rp.cookies THEN a ELSE jar.state,
     pkce |-> IF rp.pkce /\ jar.pkce = 0 THEN a ELSE jar.pkce]

SetCookies(a, jar) ==
    [state |-> IF rp.cookies THEN a ELSE jar.state, pkce |-> IF rp.pkce THEN a ELSE jar.pkce]

\* The redirect reaches the browser, with its cookies, and is followed.
FollowRedirect(a) ==
    /\ login[a].phase = "redirecting"
    /\ login' = [login EXCEPT ![a].phase = "atProvider"]
    /\ cookie' = [cookie EXCEPT ![login[a].browser] = SetCookies(a, @)]
    /\ UNCHANGED <<rp, req, spent>>

\* External: the user logs in, or the provider answers with an error.
ProviderRedirects(a) ==
    /\ login[a].phase = "atProvider"
    /\ \E answer \in {"code", "error"} : login' = [login EXCEPT ![a].phase = answer]
    /\ UNCHANGED <<rp, cookie, req, spent>>

-----------------------------------------------------------------------------
(* The callback.                                                             *)

NoSeen == [kind |-> "none", issued |-> 0, now |-> 0]

NoReq == [pc |-> "idle", browser |-> NoBrowser, login |-> 0, verifier |-> 0, deletes |-> {}, seen |-> NoSeen]

\* A callback without a state cookie is let through.
MutCheckQueryCookie(b, a) == cookie[b].state \in {0, a}

CheckQueryCookie(b, a) == cookie[b].state = a

\* The cookie is deleted whether or not it compares.
MuttryReadStateCookie(b, a) ==
    [ok |-> ~rp.cookies \/ CheckQueryCookie(b, a), deletes |-> IF rp.cookies THEN {"state"} ELSE {}]

tryReadStateCookie(b, a) ==
    [ok |-> ~rp.cookies \/ CheckQueryCookie(b, a),
     deletes |-> IF rp.cookies /\ CheckQueryCookie(b, a) THEN {"state"} ELSE {}]

CheckCookie(b) == cookie[b].pkce # 0

Request(pc, b, a, verifier, deletes) ==
    [pc |-> pc, browser |-> b, login |-> a, verifier |-> verifier, deletes |-> deletes, seen |-> NoSeen]

(* Browser b loads the callback URL of login a; the handler reads the       *)
(* cookies the browser sent along.                                          *)
CodeExchangeHandler(r, b, a) ==
    LET st == tryReadStateCookie(b, a) IN
    /\ req[r].pc = "idle"
    /\ \A x \in Requests : x < r => req[x].pc # "idle"
    /\ login[a].phase \in {"code", "error"}
    /\ req' = [req EXCEPT ![r] =
           IF ~st.ok THEN Request("stateRefused", b, a, 0, st.deletes)
           ELSE IF login[a].phase = "error" THEN Request("errorShown", b, a, 0, st.deletes)
           ELSE IF ~IsPKCE THEN Request("exchanging", b, a, 0, st.deletes)
           ELSE IF ~CheckCookie(b) THEN Request("refused", b, a, 0, st.deletes)
           ELSE Request("exchanging", b, a, cookie[b].pkce, st.deletes \cup {"pkce"})]
    /\ UNCHANGED <<rp, login, cookie, spent>>

\* External: the provider redeems a code once and compares the verifier.
ProviderRedeems(r) == req[r].login \notin spent /\ (IsPKCE => req[r].verifier = req[r].login)

\* External: an ID token for this client and login, issued at time t.
Genuine(t) ==
    [parts |-> 3, jwe |-> FALSE, iss |-> Issuer, sub |-> "user", aud |-> {Self}, azp |-> Self, nonce |-> Absent,
     acr |-> Absent, authTime |-> FromTime(t), iat |-> FromTime(t), exp |-> FromTime(t + Lifetime), alg |-> "RS256",
     key |-> "k", atHash |-> "at"]

\* External: the other ID tokens an answer may hold.
IDToken(kind, t) ==
    CASE kind = "shared"    -> [Genuine(t) EXCEPT !.aud = {Self, "other"}]
      [] kind = "forOther"  -> [Genuine(t) EXCEPT !.aud = {Self, "other"}, !.azp = "other"]
      [] kind = "unclear"   -> [Genuine(t) EXCEPT !.aud = {Self, "other"}, !.azp = Absent]
      [] kind = "otherAzp"  -> [Genuine(t) EXCEPT !.azp = "other"]
      [] kind = "otherKey"  -> [Genuine(t) EXCEPT !.key = "x"]
      [] kind = "otherAlg"  -> [Genuine(t) EXCEPT !.alg = "HS256"]
      [] kind = "nonce"     -> [Genuine(t) EXCEPT !.nonce = "n"]
      [] kind = "swapped"   -> [Genuine(t) EXCEPT !.atHash = "at2"]
      [] kind = "encrypted" -> [Genuine(t) EXCEPT !.jwe = TRUE]
      [] OTHER              -> Genuine(t)

IDTokenVerifier == [NewIDTokenVerifier(Issuer, Self, ProviderKeys) EXCEPT !.algs = rp.algs]

verifyTokenResponse(kind, t, now) ==
    \/ rp.oauth2Only
    \/ kind # "missing" /\ VerifyTokens("at", IDToken(kind, t), IDTokenVerifier, now)

\* "otherUser" is an answer whose userinfo belongs to somebody else.
Userinfo(kind) == kind # "otherUser"

(* The end of a successful exchange.  Without ID token claims the userinfo  *)
(* wrapper dereferences nil: the request is aborted, nothing is sent.       *)
CallbackResult(kind, t, now) ==
    IF ~verifyTokenResponse(kind, t, now) THEN "refused"
    ELSE IF ~rp.userinfo THEN "done"
    ELSE IF rp.oauth2Only THEN "aborted"
    ELSE IF Userinfo(kind) THEN "done" ELSE "refused"

CodeExchange(r) ==
    /\ req[r].pc = "exchanging"
    /\ \/ /\ ~ProviderRedeems(r)
          /\ req' = [req EXCEPT ![r].pc = "refused"]
          /\ UNCHANGED spent
       \/ /\ ProviderRedeems(r)
          /\ spent' = spent \cup {req[r].login}
          /\ \E kind \in Kinds, t \in {20, 21}, skew \in Skews, delay \in Delays :
                LET now == t + delay + skew IN
                /\ kind # "genuine" => t = 20 /\ skew = 0 /\ delay = 0
                /\ req' = [req EXCEPT ![r].pc = CallbackResult(kind, t, now),
                                      ![r].seen = [kind |-> kind, issued |-> t, now |-> now]]
    /\ UNCHANGED <<rp, login, cookie>>

Answers == {"stateRefused", "refused", "errorShown", "done"}

DeleteCookies(jar, names) == [n \in DOMAIN jar |-> IF n \in names THEN 0 ELSE jar[n]]

\* The handler's answer reaches the browser.
ReceiveAnswer(r) ==
    /\ req[r].pc \in Answers
    /\ cookie' = [cookie EXCEPT ![req[r].browser] = DeleteCookies(@, req[r].deletes)]
    /\ req' = [req EXCEPT ![r].pc = "closed", ![r].seen = NoSeen]
    /\ UNCHANGED <<rp, login, spent>>

Init ==
    /\ rp = [status |-> "none"]
    /\ login = [a \in Logins |-> NoLogin]
    /\ cookie = [b \in Browsers |-> [state |-> 0, pkce |-> 0]]
    /\ req = [r \in Requests |-> NoReq]
    /\ spent = {}

Next ==
    \/ \E o \in Options : NewRelyingPartyOAuth(o) \/ \E d \in Documents : NewRelyingPartyOIDC(o, d)
    \/ \E a \in Logins : FollowRedirect(a) \/ ProviderRedirects(a)
    \/ \E b \in Browsers, a \in Logins : AuthURLHandler(b, a) \/ \E r \in Requests : CodeExchangeHandler(r, b, a)
    \/ \E r \in Requests : CodeExchange(r) \/ ReceiveAnswer(r)

Spec == Init /\ [][Next]_vars

-----------------------------------------------------------------------------
(* The state components, and: a code verifier is in use only where PKCE is   *)
(* on, and a cookie only where there is a handler that could read it.        *)
TypeOK ==
    /\ rp.status \in {"none", "failed", "ready"}
    /\ login \in [Logins -> [phase : {"none", "redirecting", "atProvider", "code", "error"}, browser : Browsers \cup {NoBrowser}]]
    /\ cookie \in [Browsers -> [state : {0} \cup Logins, pkce : {0} \cup Logins]]
    /\ \A r \in Requests :
          /\ req[r].pc \in Answers \cup {"idle", "exchanging", "closed", "aborted"}
          /\ req[r].deletes \subseteq {"state", "pkce"}
          /\ req[r].verifier # 0 => IsPKCE
    /\ spent \subseteq {a \in Logins : login[a].phase = "code"}
    /\ \A b \in Browsers : (cookie[b].state # 0 => rp.cookies) /\ (cookie[b].pkce # 0 => rp.pkce)

(* A browser that follows a link with somebody else's code is not logged in  *)
(* as that user: with a cookie handler, CodeExchangeHandler calls back only   *)
(* in the browser whose AuthURLHandler request started the login.            *)
LoginOwn ==
    \A r \in Requests :
        req[r].pc = "done" /\ rp.cookies => req[r].browser = login[req[r].login].browser

(* Whatever the order of redirects, answers and reloads in several tabs, the *)
(* code of a login is exchanged with the verifier of that login: the two      *)
(* cookies of AuthURLHandler are never torn apart.                           *)
VerifierPaired ==
    \A r \in Requests : req[r].pc = "exchanging" /\ IsPKCE => req[r].verifier = req[r].login

(* A callback is turned away for its state only in a browser that did not    *)
(* start this login, started another one as well, or has brought this        *)
(* callback before; links with foreign codes do not disturb a login, because *)
(* tryReadStateCookie keeps the cookie when it does not compare.             *)
TurnedAwayForAReason ==
    \A r \in Requests : req[r].pc = "stateRefused" =>
        \/ req[r].browser # login[req[r].login].browser
        \/ \E a \in Logins \ {req[r].login} : Started(a) /\ login[a].browser = req[r].browser
        \/ \E x \in Requests : x < r /\ req[x].browser = req[r].browser /\ req[x].login = req[r].login

(* A genuine token is accepted while the relying party's clock is at most a  *)
(* second and a half behind the provider's and the token has more than a     *)
(* second to go: Offset, and the rounding in CheckIssuedAt.                  *)
GenuineAccepted ==
    \A r \in Requests :
        req[r].pc = "refused" /\ req[r].seen.kind = "genuine" =>
            \/ req[r].seen.now < req[r].seen.issued - 3
            \/ req[r].seen.now + Second >= FromTime(req[r].seen.issued + Lifetime)

(* Tokens that end in a login were signed by the provider, for this client    *)
(* and for this access token, and the userinfo is that of their subject; an   *)
(* unusual algorithm passes only where discovery does not restrict it.        *)
AcceptedIsOurs ==
    \A r \in Requests :
        req[r].pc = "done" /\ ~rp.oauth2Only =>
            \/ req[r].seen.kind \in {"genuine", "shared"}
            \/ req[r].seen.kind = "otherAlg" /\ rp.algs = {}
            \/ req[r].seen.kind = "otherUser" /\ ~rp.userinfo

(* Several tabs, reloads and foreign links do not mix logins: each ends in   *)
(* its own browser, with its own verifier.                                   *)
LoginIsOwn == TypeOK /\ LoginOwn /\ VerifierPaired

(* A login the user has completed at the provider is refused only for what   *)
(* the browser brought or what the clocks say.                               *)
RefusedForCause == TurnedAwayForAReason /\ GenuineAccepted
=============================================================================
