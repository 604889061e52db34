-------------------------- MODULE MCRelyingParty --------------------------
(* Two browsers, two logins, three callback requests, against a provider      *)
(* with and without PKCE support and one whose document names another issuer. *)
EXTENDS RelyingParty, TLC

MCDocuments ==
    [reachable : {TRUE}, issuer : {Issuer}, methods : {{}, {"S256"}}, algs : {{"RS256"}}]
        \cup [reachable : BOOLEAN, issuer : {"other"}, methods : {{}}, algs : {{}}]

MCKinds == {"genuine", "shared", "forOther", "unclear", "otherAzp", "otherKey", "otherAlg", "nonce", "swapped",
            "encrypted", "missing", "otherUser"}

MCSkews == {-4, -3, 0}

Symmetry == Permutations(Browsers)

=============================================================================
