---------------------------- MODULE ResourceAccess ----------------------------
(***************************************************************************)
(* Sender-constrained access tokens, from the proof of possession to the   *)
(* answer of a protected endpoint: the DPoP middleware with its replay     *)
(* cache (plugins/dpop), the client certificate (plugins/mtls), the        *)
(* binding of a token when it is issued (plugins/token, shared), and the   *)
(* userinfo and introspection endpoints that look it up again.             *)
(*                                                                         *)
(* A proof is signed once and may arrive any number of times: retried,     *)
(* duplicated or delayed.  Every section under a lock (the plugin's mutex  *)
(* or the storage's) is a step, and the clock may advance between a        *)
(* request's steps.                                                        *)
(***************************************************************************)
EXTENDS Integers, FiniteSets

CONSTANTS Procs,              \* requests in flight
          Keys, Certs,        \* what clients can prove possession of
          Jtis,               \* ids of DPoP proofs
          Tokens,             \* ids of access tokens
          Clients,
          RequireDPoP, RequireMtls,    \* the clients registered with either requirement
          RefreshClients,     \* the clients allowed the refresh_token grant
          SignedClients,      \* the clients with a userinfo_signed_response_alg
          GlobalDPoP, GlobalMtls,      \* the engine options
          MaxProofAge,
          maxNonceCacheSize,
          MaxTime,            \* bound on the clock
          LastSigned,         \* bound: no proof is signed later, so that time is left to repeat it
          Nil

VARIABLES now,                \* the clock
          proofs,             \* Jtis -> the signed proof, or Nil
          usedNonces,         \* the replay cache: Jtis -> time recorded, or Nil
          tokens,             \* keys of Storage.tokens
          tokData,            \* the Token objects
          refreshable,        \* tokens whose refresh token is stored
          req,                \* Procs -> the request and how far it has come
          accepted,           \* history: Jtis -> whether its iat was in the future when it was last accepted
          evicted,            \* history: the ids the full cache dropped
          answer              \* what the last step let in or answered, or Nil

vars == <<now, proofs, usedNonces, tokens, tokData, refreshable, req, accepted, evicted, answer>>
storage == <<tokens, tokData, refreshable>>
history == <<accepted, evicted>>

Targets == {"token", "userinfo"}    \* method and URL of a request

Proof == [key : Keys, target : Targets, ath : Tokens \cup {Nil}, iat : Int]

CNF == [jkt : Keys \cup {Nil}, x5t : Certs \cup {Nil}]

NoCNF == [jkt |-> Nil, x5t |-> Nil]

Idle == [pc |-> "idle"]

Token == [client : Clients, cnf : CNF]

\* Nil is none of the values it stands in for; a cache has room for one proof at least.
ASSUME ResourceAssumption ==
    /\ Nil \notin Keys \cup Certs \cup Jtis \cup Tokens \cup Clients
    /\ Nil \notin Int /\ Nil \notin BOOLEAN
    /\ Nil \notin Proof /\ Nil \notin Token
    /\ IsFiniteSet(Jtis)
    /\ GlobalDPoP \in BOOLEAN /\ GlobalMtls \in BOOLEAN
    /\ maxNonceCacheSize \in Nat \ {0}
    /\ MaxProofAge \in Nat /\ MaxTime \in Nat

Known(f) == {x \in DOMAIN f : f[x] # Nil}

-----------------------------------------------------------------------------
(* Proofs of possession.                                                     *)

Fresh(proof) == now - proof.iat <= MaxProofAge /\ proof.iat - now <= MaxProofAge

\* Only the holder of a key can sign a proof with it; the rest of the checks are on its shape.
ParseProof(proof, target) == proof.target = target /\ Fresh(proof)

NewRequest(p, target, j, cert, token, pc) ==
    req' = [req EXCEPT ![p] = [pc |-> pc, target |-> target, jti |-> j, cert |-> cert, token |-> token,
                               parsed |-> IF j = Nil THEN Nil ELSE now,
                               revoked |-> token # Nil /\ token \notin tokens]]

(* The DPoP middleware up to its lock.  A request without the header goes   *)
(* straight to its handler; one with a proof that does not parse, or with   *)
(* several headers, has been answered.  The key's holder signs proof with   *)
(* an id of its own, or the request brings a proof that was sent before.    *)
Arrive(p, target, j, cert, token) ==
    /\ req[p] = Idle
    /\ IF j = Nil
       THEN NewRequest(p, target, Nil, cert, token, target) /\ UNCHANGED proofs
       ELSE /\ IF proofs[j] # Nil
               THEN UNCHANGED proofs
               ELSE /\ now <= LastSigned
                    /\ \E k \in Keys, ath \in {Nil, token}, skew \in {0, MaxProofAge} :
                          proofs' = [proofs EXCEPT ![j] =
                                       [key |-> k, target |-> target, ath |-> ath, iat |-> now + skew]]
            /\ ParseProof(proofs'[j], target)
            /\ NewRequest(p, target, j, cert, token, "record")
    /\ answer' = Nil
    /\ UNCHANGED <<now, usedNonces, storage, history>>

Times(cache) == {cache[j] : j \in Known(cache)}

\* The time of the n-th oldest entry.
Cutoff(cache, n) ==
    CHOOSE t \in Times(cache) :
        /\ Cardinality({j \in Known(cache) : cache[j] < t}) < n
        /\ Cardinality({j \in Known(cache) : cache[j] <= t}) >= n

\* Mutant: off by one, a cache at its limit is left alone.
MutevictOldestLocked(cache) == IF Cardinality(Known(cache)) <= maxNonceCacheSize THEN cache ELSE [j \in Jtis |-> Nil]

evictOldestLocked(cache) ==
    LET quarter == maxNonceCacheSize \div 4
        cutoff == Cutoff(cache, IF quarter = 0 THEN 1 ELSE quarter)
    IN  [j \in Jtis |-> IF j \in Known(cache) /\ cache[j] > cutoff THEN cache[j] ELSE Nil]

Room == IF Cardinality(Known(usedNonces)) >= maxNonceCacheSize
        THEN evictOldestLocked(usedNonces)
        ELSE usedNonces

Admit(p, cache) ==
    LET r == req[p]
    IN  /\ usedNonces' = [cache EXCEPT ![r.jti] = now]
        /\ evicted' = evicted \cup (Known(usedNonces) \ Known(cache))
        /\ accepted' = [accepted EXCEPT ![r.jti] = proofs[r.jti].iat > r.parsed]
        /\ answer' = IF accepted[r.jti] = Nil THEN Nil ELSE [kind |-> "again", to |-> r, early |-> accepted[r.jti]]
        /\ req' = [req EXCEPT ![p].pc = r.target, ![p].parsed = Nil]

\* The section under the lock: a known id is a replay.
RecordProof(p) ==
    /\ req[p].pc = "record"
    /\ IF req[p].jti \in Known(usedNonces)
       THEN req' = [req EXCEPT ![p] = Idle] /\ answer' = Nil /\ UNCHANGED <<usedNonces, history>>
       ELSE Admit(p, Room)
    /\ UNCHANGED <<now, proofs, storage>>

\* Mutant: an id is dropped one instant early.
MutCleanupNonceCache(cache) ==
    [j \in Jtis |-> IF j \in Known(cache) /\ cache[j] > now - MaxProofAge THEN cache[j] ELSE Nil]

CleanupNonceCache(cache) ==
    [j \in Jtis |-> IF j \in Known(cache) /\ cache[j] >= now - MaxProofAge THEN cache[j] ELSE Nil]

\* The ticker's phase is arbitrary, and the loop may lag behind it.
cleanupLoop ==
    /\ usedNonces' = CleanupNonceCache(usedNonces)
    /\ answer' = Nil
    /\ UNCHANGED <<now, proofs, storage, req, history>>

Tick ==
    /\ now < MaxTime
    /\ now' = now + 1
    /\ answer' = Nil
    /\ UNCHANGED <<proofs, usedNonces, storage, req, history>>

-----------------------------------------------------------------------------
(* Issuing a token.                                                          *)

\* A requirement for both is met by either.
Met(dpop, mtls, r) ==
    LET hasDPoP == r.jti # Nil
        hasMtls == r.cert # Nil
    IN  IF dpop /\ mtls
        THEN hasDPoP \/ hasMtls
        ELSE (dpop => hasDPoP) /\ (mtls => hasMtls)

\* Every client of the reference storage states its own requirements.
ValidateSenderConstraining(c, r) == Met(c \in RequireDPoP, c \in RequireMtls, r)

(* Before the client is known, the engine's requirements are those of the   *)
(* request, unless an assertion has identified the client already.          *)
handleToken(c, r, assertion) ==
    /\ ~assertion => Met(GlobalDPoP, GlobalMtls, r)
    /\ ValidateSenderConstraining(c, r)

\* The engine's requirements, if it has any, take the place of the client's.
senderConstrainingRequirements(c) ==
    IF GlobalDPoP \/ GlobalMtls
    THEN [dpop |-> GlobalDPoP, mtls |-> GlobalMtls]
    ELSE [dpop |-> c \in RequireDPoP, mtls |-> c \in RequireMtls]

ResolveCNF(r) == [jkt |-> IF r.jti = Nil THEN Nil ELSE proofs[r.jti].key, x5t |-> r.cert]

\* Mutant: a proof is no binding where a certificate would do.
MutTokenBinding(c, r) ==
    IF senderConstrainingRequirements(c).mtls THEN [ResolveCNF(r) EXCEPT !.jkt = Nil] ELSE NoCNF

\* A certificate binds the token only where one is required, a proof always.
TokenBinding(c, r) ==
    IF senderConstrainingRequirements(c).mtls
    THEN ResolveCNF(r)
    ELSE [ResolveCNF(r) EXCEPT !.x5t = Nil]

createAccessToken(t, c, cnf, refresh) ==
    /\ tokens' = tokens \cup {t}
    /\ tokData' = [tokData EXCEPT ![t] = [client |-> c, cnf |-> cnf]]
    /\ refreshable' = IF refresh /\ c \in RefreshClients THEN refreshable \cup {t} ELSE refreshable

(* The client credentials grant issues no refresh token, the grants that    *)
(* end in createTokenResponseFromTokenRequest may.                          *)
createTokenResponse(p, c, assertion, refresh) ==
    /\ req[p].pc = "token"
    /\ LET need == senderConstrainingRequirements(c)
       IN  IF handleToken(c, req[p], assertion) /\ Met(need.dpop, need.mtls, req[p])
           THEN \E t \in Tokens \ Known(tokData) :
                   /\ createAccessToken(t, c, TokenBinding(c, req[p]), refresh)
                   /\ answer' = [kind |-> "issued", token |-> t]
           ELSE UNCHANGED storage /\ answer' = Nil
    /\ req' = [req EXCEPT ![p] = Idle]
    /\ UNCHANGED <<now, proofs, usedNonces, history>>

\* A token that was exchanged for another is never bound.
handleTokenExchange(p, c, assertion, refresh) ==
    /\ req[p].pc = "token"
    /\ handleToken(c, req[p], assertion)
    /\ \E t \in Tokens \ Known(tokData) : createAccessToken(t, c, NoCNF, refresh)
    /\ req' = [req EXCEPT ![p] = Idle]
    /\ answer' = Nil
    /\ UNCHANGED <<now, proofs, usedNonces, history>>

-----------------------------------------------------------------------------
(* Protected endpoints.                                                      *)

ValidateDPoPProofATH(r) == r.jti # Nil => proofs[r.jti].ath = r.token

\* Mutant: a proof is asked for and its key not compared.
MutVerifyTokenBinding(r, cnf) ==
    /\ cnf.jkt # Nil /\ cnf.x5t = Nil => r.jti # Nil
    /\ cnf.x5t # Nil => r.jti # Nil \/ r.cert = cnf.x5t

\* A token bound to a key and to a certificate is usable with either.
VerifyTokenBinding(r, cnf) ==
    LET dpopOK == r.jti # Nil /\ proofs[r.jti].key = cnf.jkt
        mtlsOK == r.cert # Nil /\ r.cert = cnf.x5t
    IN  IF cnf.jkt # Nil /\ cnf.x5t # Nil
        THEN dpopOK \/ mtlsOK
        ELSE (cnf.jkt # Nil => dpopOK) /\ (cnf.x5t # Nil => mtlsOK)

\* Mutant: the lookup fails open.
MutTokenCNF(t) == [ok |-> TRUE, cnf |-> IF t \in tokens THEN tokData[t].cnf ELSE NoCNF]

\* A token that is not stored has no binding to be told: the lookup fails.
TokenCNF(t) == [ok |-> t \in tokens, cnf |-> IF t \in tokens THEN tokData[t].cnf ELSE NoCNF]

Goto(p, pc) == req' = [req EXCEPT ![p].pc = pc]

Refuse(p) == req' = [req EXCEPT ![p] = Idle]

Protected == <<now, proofs, usedNonces, storage, history>>

\* History: the request has proved possession of what its token is bound to.
Holder(r, cnf) ==
    /\ \/ cnf = NoCNF
       \/ cnf.jkt # Nil /\ r.jti # Nil /\ proofs[r.jti].key = cnf.jkt
       \/ cnf.x5t # Nil /\ r.cert = cnf.x5t
    /\ r.jti # Nil => proofs[r.jti].ath = r.token /\ proofs[r.jti].target = "userinfo"

(* extractAccessToken and ResolveToken: the ciphertext names its token and  *)
(* no expiry, so a token is presented whether or not it is stored still.    *)
CheckBinding(p) ==
    /\ req[p].pc = "userinfo"
    /\ LET r == req[p]
           found == TokenCNF(r.token)
       IN  IF ValidateDPoPProofATH(r) /\ found.ok /\ VerifyTokenBinding(r, found.cnf)
           THEN req' = [req EXCEPT ![p] = [pc |-> "claims", token |-> r.token, revoked |-> r.revoked,
                                           holder |-> Holder(r, tokData[r.token].cnf)]]
           ELSE Refuse(p)
    /\ answer' = Nil
    /\ UNCHANGED Protected

\* A token found through the refresh token issued with it is a copy without its binding.
Lookup(t) ==
    IF t \in tokens THEN [found |-> TRUE, cnf |-> tokData[t].cnf]
    ELSE [found |-> t \in refreshable, cnf |-> NoCNF]

SetUserinfoFromToken(p) ==
    /\ req[p].pc = "claims"
    /\ IF Lookup(req[p].token).found THEN Goto(p, "format") ELSE Refuse(p)
    /\ answer' = Nil
    /\ UNCHANGED Protected

TokenClientID(t) == IF t \in tokens THEN tokData[t].client ELSE Nil

Respond(p, signed) ==
    /\ answer' = [kind |-> "userinfo", to |-> req[p], signed |-> signed]
    /\ Refuse(p)

\* The client's algorithm, or the Accept header, asks for a signed answer.
shouldReturnJWT(p, accept) ==
    /\ req[p].pc = "format"
    /\ IF TokenClientID(req[p].token) \in SignedClients \/ accept
       THEN Goto(p, "sign") /\ answer' = Nil
       ELSE Respond(p, FALSE)
    /\ UNCHANGED Protected

\* Mutant: the fallback is taken when the client's algorithm has a key.
MutwriteJWTResponse(p) ==
    /\ req[p].pc = "sign"
    /\ Respond(p, TokenClientID(req[p].token) \notin SignedClients)
    /\ UNCHANGED Protected

\* A second lookup of the client; the answer is plain JSON when it fails.
writeJWTResponse(p) ==
    /\ req[p].pc = "sign"
    /\ Respond(p, TokenClientID(req[p].token) # Nil)
    /\ UNCHANGED Protected

\* Mutant: only the key is reported.
MutSetIntrospectionFromToken(t) == [active |-> Lookup(t).found, cnf |-> [Lookup(t).cnf EXCEPT !.x5t = Nil]]

\* The answer of the introspection endpoint, which changes nothing.
SetIntrospectionFromToken(t) == [active |-> Lookup(t).found, cnf |-> Lookup(t).cnf]

\* By the access token; or by the refresh token, which takes the access token with it.
RevokeToken(t, cascade) ==
    /\ t \in (IF cascade THEN refreshable ELSE tokens)
    /\ tokens' = tokens \ {t}
    /\ refreshable' = IF cascade THEN refreshable \ {t} ELSE refreshable
    /\ answer' = Nil
    /\ UNCHANGED <<now, proofs, usedNonces, tokData, req, history>>

-----------------------------------------------------------------------------

\* Bound: one id for every token request in flight.
TokensLeft ==
    Cardinality({p \in Procs : req[p].pc = "token" \/ (req[p].pc = "record" /\ req[p].target = "token")})
        < Cardinality(Tokens \ Known(tokData))

Init ==
    /\ now = 0
    /\ proofs = [j \in Jtis |-> Nil]
    /\ usedNonces = [j \in Jtis |-> Nil]
    /\ tokens = {} /\ refreshable = {}
    /\ tokData = [t \in Tokens |-> Nil]
    /\ req = [p \in Procs |-> Idle]
    /\ accepted = [j \in Jtis |-> Nil]
    /\ evicted = {}
    /\ answer = Nil

Next ==
    \/ Tick
    \/ cleanupLoop
    \/ \E p \in Procs :
          \/ \E j \in Jtis \cup {Nil}, cert \in Certs \cup {Nil} :
                \/ TokensLeft /\ Arrive(p, "token", j, cert, Nil)
                \/ \E t \in Known(tokData) : Arrive(p, "userinfo", j, cert, t)
          \/ RecordProof(p)
          \/ \E c \in Clients, assertion, refresh \in BOOLEAN :
                createTokenResponse(p, c, assertion, refresh) \/ handleTokenExchange(p, c, assertion, refresh)
          \/ CheckBinding(p)
          \/ SetUserinfoFromToken(p)
          \/ \E accept \in BOOLEAN : shouldReturnJWT(p, accept)
          \/ writeJWTResponse(p)
    \/ \E t \in Known(tokData), cascade \in BOOLEAN : RevokeToken(t, cascade)

Spec == Init /\ [][Next]_vars

-----------------------------------------------------------------------------
(* Properties.                                                               *)

Answered(kind) == answer # Nil /\ answer.kind = kind

(* What is in the cache, in the store and in flight is what the program can  *)
(* put there.                                                                *)
TypeOK ==
    /\ now \in 0..MaxTime
    /\ proofs \in [Jtis -> Proof \cup {Nil}]
    /\ \A j \in Known(usedNonces) : usedNonces[j] <= now /\ accepted[j] # Nil
    /\ tokens \cup refreshable \subseteq Known(tokData)
    /\ \A t \in Known(tokData) : tokData[t].client \in Clients /\ tokData[t].cnf \in CNF
    /\ \A p \in Procs : req[p].pc \in {"idle", "record", "token", "userinfo", "claims", "format", "sign"}

(* "jti replay detection" (dpop.go:43): the same proof opens the door twice  *)
(* only when the full cache had dropped it, when its iat was in the future   *)
(* at its first use, or when the second request was held up between the      *)
(* check of its age and the lock.                                            *)
ReplayNeedsExcuse ==
    Answered("again") =>
        LET r == answer.to
        IN  \/ r.jti \in evicted
            \/ answer.early
            \/ r.parsed < now

(* Whatever happens between the lookups of a request, userinfo answers for a *)
(* bound token only a request that proved possession of what it is bound to, *)
(* and a proof is one for this token at this endpoint (userinfo.go:172-212). *)
HolderOfKey == Answered("userinfo") => answer.to.holder

(* A token deleted before the request arrived is not answered for, although  *)
(* SetUserinfoFromToken would still find it through its refresh token: the   *)
(* lookup of the binding fails closed (userinfo.go:190-199).                 *)
RevokedNotServed ==
    Answered("userinfo") => ~answer.to.revoked

(* A client registered for signed userinfo gets an unsigned answer only if   *)
(* its token was deleted while the answer was written (userinfo.go:265-271). *)
SignedUnlessRevoked ==
    Answered("userinfo") =>
        LET t == answer.to.token
        IN  tokData[t].client \in SignedClients => answer.signed \/ t \notin tokens

(* A resource server that relies on introspection enforces the binding that  *)
(* userinfo enforces, except for a deleted token that userinfo refuses       *)
(* (storage/userinfo.go:22-57).                                              *)
IntrospectionTellsBinding ==
    \A t \in Known(tokData) :
        LET introspected == SetIntrospectionFromToken(t)
        IN  introspected.active => introspected.cnf = tokData[t].cnf \/ t \notin tokens

(* Where the engine or the client requires sender-constrained tokens, no     *)
(* token leaves the token endpoint unbound but one from a token exchange,    *)
(* whichever of the two has the requirement and however the client           *)
(* authenticates (token.go:1448-1482, token.go:907).                         *)
RequiredMeansBound ==
    Answered("issued") =>
        LET token == tokData[answer.token]
        IN  token.client \in RequireDPoP \cup RequireMtls \/ GlobalDPoP \/ GlobalMtls => token.cnf # NoCNF

(* The replay cache of the DPoP plugin does both of its jobs: it never       *)
(* outgrows its limit (dpop.go:155-160), and a proof that passes it again    *)
(* has one of the three excuses.                                             *)
ReplayGuarded == Cardinality(Known(usedNonces)) <= maxNonceCacheSize /\ ReplayNeedsExcuse

(* The userinfo endpoint answers the holder of a live token, signed where    *)
(* the client asked for it, however its three lookups and a revocation       *)
(* interleave (userinfo.go:136-290).                                         *)
UserinfoGuarded == TypeOK /\ HolderOfKey /\ RevokedNotServed /\ SignedUnlessRevoked

(* A required binding is made when a token is issued and is still told when  *)
(* it is introspected.                                                       *)
BindingKept == RequiredMeansBound /\ IntrospectionTellsBinding
=============================================================================
