------------------------------ MODULE Verifier ------------------------------
(***************************************************************************)
(* The checks on signed tokens that the relying party and the provider     *)
(* share (pkg/protocol/verifier.go, pkg/client/rp/verifier.go).  A token   *)
(* is a record of its claims with the key and the algorithm it is signed   *)
(* with; Absent and 0 are missing claims.  Times are in half seconds, as   *)
(* the checks round to seconds and claims are whole seconds.               *)
(***************************************************************************)
EXTENDS Integers, FiniteSets

Absent == "absent"

Second == 2

FromTime(t) == (t \div Second) * Second

\* time.Round: halves are rounded up.
RoundToSecond(t) == FromTime(t + 1)

(* Three parts are a signed token, five an encrypted one (jwe), which only  *)
(* a verifier with a decryption key can read.                               *)
Parses(t, decryptionKey) == t.parts = 3 /\ (t.jwe => decryptionKey)

CheckSubject(t) == t.sub # Absent

CheckIssuer(t, issuer) == t.iss = issuer

CheckAudienceAny(t, allowed) == t.aud \cap allowed # {}

\* The authorized party is looked at only if there is a choice of audiences.
MutCheckAZPVerifier(t, client) == Cardinality(t.aud) > 1 => t.azp # Absent

CheckAZPVerifier(t, client) ==
    /\ Cardinality(t.aud) > 1 => t.azp # Absent
    /\ t.azp \in {Absent, client}

isSupportedSigAlg(alg, supported) == supported = {} \/ alg \in supported

CheckSignature(t, supported, keySet) ==
    isSupportedSigAlg(t.alg, supported) /\ t.key \in keySet

CheckExpiration(t, offset, now) == now + offset < t.exp

\* The allowance for the other side's clock is taken off instead of granted.
MutCheckIssuedAt(t, maxAgeIAT, offset, now) ==
    /\ t.iat # 0
    /\ t.iat <= RoundToSecond(now - offset)
    /\ maxAgeIAT # 0 => t.iat >= RoundToSecond(now - maxAgeIAT)

CheckIssuedAt(t, maxAgeIAT, offset, now) ==
    /\ t.iat # 0
    /\ t.iat <= RoundToSecond(now + offset)
    /\ maxAgeIAT # 0 => t.iat >= RoundToSecond(now - maxAgeIAT)

CheckNonce(t, nonce) == t.nonce = nonce

CheckAuthorizationContextClassReference(t, acrs) == acrs # {} => t.acr \in acrs

CheckAuthTime(t, maxAge, now) ==
    maxAge # 0 => t.authTime # 0 /\ t.authTime >= RoundToSecond(now - maxAge)

(* A verifier is a record of what it expects: acrs {} and the ages 0 switch  *)
(* a check off, an empty set of algorithms allows every one.                 *)
NewIDTokenVerifier(issuer, client, keySet) ==
    [issuer |-> issuer, client |-> client, keySet |-> keySet, offset |-> Second, nonce |-> Absent, algs |-> {},
     maxAgeIAT |-> 0, maxAge |-> 0, acrs |-> {}, decryptionKey |-> FALSE]

VerifyIDToken(t, v, now) ==
    /\ Parses(t, v.decryptionKey)
    /\ CheckSubject(t)
    /\ CheckIssuer(t, v.issuer)
    /\ CheckAudienceAny(t, {v.client})
    /\ CheckAZPVerifier(t, v.client)
    /\ CheckSignature(t, v.algs, v.keySet)
    /\ CheckExpiration(t, v.offset, now)
    /\ CheckIssuedAt(t, v.maxAgeIAT, v.offset, now)
    /\ CheckNonce(t, v.nonce)
    /\ CheckAuthorizationContextClassReference(t, v.acrs)
    /\ CheckAuthTime(t, v.maxAge, now)

\* at_hash is optional.
AccessTokenHashMatches(t, accessToken) == t.atHash \in {Absent, accessToken}

VerifyTokens(accessToken, t, v, now) ==
    VerifyIDToken(t, v, now) /\ AccessTokenHashMatches(t, accessToken)

VerifyJWTAssertion(t, audiences, keys, offset, now) ==
    /\ t.parts = 3
    /\ ~t.audIsArray
    /\ CheckAudienceAny(t, audiences)
    /\ CheckExpiration(t, offset, now)
    /\ t.iat <= RoundToSecond(now + offset)
    /\ t.nbf <= RoundToSecond(now + offset)
    /\ t.iss = t.sub
    /\ t.key \in keys

VerifyLogoutToken(t, v, now) ==
    /\ Parses(t, FALSE)
    /\ CheckAudienceAny(t, {v.client})
    /\ CheckIssuer(t, v.issuer)
    /\ CheckSignature(t, v.algs, v.keySet)
    /\ t.event
    /\ t.nonce = Absent
    /\ CheckIssuedAt(t, 0, Second, now)
    /\ CheckExpiration(t, 0, now)
    /\ t.sub # Absent \/ t.sid # Absent

=============================================================================
