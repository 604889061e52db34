--------------------------- MODULE MCClientRegistry ---------------------------
(* Two clients, two management requests against one that authenticates.  The *)
(* first key a client publishes has no use, so the second is not recorded;   *)
(* later the client replaces the first by a third.                           *)
EXTENDS ClientRegistry, TLC

MCFirstKeys == <<1, 2>>
MCNewKeys == <<2, 3>>

Profile(method, uri, grants) == [method |-> method, uri |-> uri, grants |-> grants]

MCProfiles ==
    {Profile("client_secret_basic", FALSE, {"client_credentials", "token-exchange"}),
     Profile("private_key_jwt", TRUE, {"client_credentials", "jwt-bearer"}),
     Profile("private_key_jwt", FALSE, {"token-exchange"}),
     Profile("self_signed_tls_client_auth", TRUE, {"client_credentials"}),
     Profile("tls_client_auth", FALSE, {"client_credentials"}),
     Profile("none", FALSE, {"jwt-bearer"})}

Credential(endpoint, grant, type, key, shape) ==
    [endpoint |-> endpoint, grant |-> grant, type |-> type, key |-> key, shape |-> shape]

\* Introspection has no grant and a secret no key.
MCCredentials ==
    {Credential("token", grant, "assertion", key, "plain") :
        grant \in {"client_credentials", "jwt-bearer"}, key \in {1, 2, 3}}
    \cup {Credential("token", "client_credentials", "assertion", 2, shape) : shape \in {"array", "short"}}
    \cup {Credential("token", "token-exchange", type, 1, "plain") : type \in {"assertion", "secret"}}
    \cup {Credential("token", "client_credentials", "cert", key, "plain") : key \in {1, 2, 3}}
    \cup {Credential("token", "client_credentials", "secret", 2, "plain")}
    \cup {Credential("introspection", "none", type, 2, "plain") : type \in {"assertion", "cert", "secret"}}

Symmetry == Permutations(Ids) \cup Permutations(Managers)

=============================================================================
