---------------------------- MODULE ClientRegistry ----------------------------
(***************************************************************************)
(* The clients of the provider: dynamic registration (plugins/dcr and      *)
(* storage/dcr.go), client authentication at the token endpoint and at the *)
(* endpoints that share the ClientAuthHelper (shared/clientauth.go), and   *)
(* the grants a client uses on its own behalf: client_credentials,         *)
(* jwt-bearer and token-exchange.                                          *)
(*                                                                         *)
(* Every section under the storage lock is a step, and so is every fetch   *)
(* of a client's keys, which may fail.  The software of client c has a     *)
(* secret, a certificate and signing keys of its own; the id, the secret   *)
(* and the registration token that it is given are all written c, since    *)
(* each is drawn at random for c alone.                                    *)
(***************************************************************************)
EXTENDS Verifier, Sequences, SequencesExt

CONSTANTS Ids,             \* clients
          Managers,        \* requests to the registration endpoint in flight
          Callers,         \* requests that authenticate a client in flight
          Users,           \* resource owners
          FirstKeys, NewKeys,     \* the documents at a client's jwks_uri, before and after it changes its keys
          AnyUse,          \* keys without a use, which may also encrypt
          Profiles,        \* what a registration may ask for: method, uri (it has a jwks_uri) and grants
          Credentials      \* what a request may ask for and present: endpoint, grant, type, key and shape

VARIABLES clients,             \* Storage.clients
          registrations,       \* Storage.registrations: the ids that have one
          registrationTokens,  \* Storage.registrationTokens: the ids whose token is known
          jwks,                \* what each client's jwks_uri serves
          manager, caller,     \* requests and how far they have come
          subjects,            \* the users for which an access token was issued
          deleted,             \* history: the ids that were registered and deleted
          vouched,             \* history: the users a client has signed a grant assertion for
          outcome              \* how the last step ended a request

vars == <<clients, registrations, registrationTokens, jwks, manager, caller, subjects, deleted, vouched, outcome>>

(* A client is registered with one method, keeps its keys at a jwks_uri or   *)
(* not, and what the registry knows a client by is none of the methods.  The *)
(* assertion of a jwt-bearer grant is the credential of its request.         *)
ASSUME RegistryAssumption ==
    /\ Profiles \subseteq [method : STRING \ {"unregistered"}, uri : BOOLEAN, grants : SUBSET STRING]
    /\ \A x \in Credentials :
          /\ DOMAIN x = {"endpoint", "grant", "type", "key", "shape"}
          /\ x.grant = "jwt-bearer" => x.type = "assertion"

Idle == [pc |-> "idle"]

Pending == [kind |-> "pending"]

Unregistered == [method |-> "unregistered"]

Registered(c) == clients[c] # Unregistered

Published(c) == ToSet(jwks[c])

\* The keys that a client has taken out of the document it began with.
Withdrawn(c) == ToSet(FirstKeys) \ Published(c)

-----------------------------------------------------------------------------
(* Registration.                                                             *)

(* The keys kept from the document: its keys up to the first one that can   *)
(* be used for encryption.                                                  *)
Recorded(document) ==
    {document[i] : i \in {j \in DOMAIN document : \A u \in DOMAIN document : document[u] \in AnyUse => j <= u}}

FinishManager(m) ==
    /\ manager' = [manager EXCEPT ![m] = Idle]
    /\ outcome' = Pending

(* Metadata that is refused leaves no trace.  The document is in the request *)
(* or fetched from its jwks_uri before the client is stored, under an id     *)
(* that nobody else has; if the keys change in between, that is no different *)
(* from a change right after it.                                             *)
handleCreate(c) == jwks[c]

CreateClient(c, profile) ==
    /\ ~Registered(c) /\ c \notin deleted
    /\ clients' = [clients EXCEPT ![c] =
          [method |-> profile.method, uri |-> profile.uri, grants |-> profile.grants,
           redirects |-> 1, keys |-> Recorded(handleCreate(c))]]
    /\ registrations' = registrations \cup {c}
    /\ registrationTokens' = registrationTokens \cup {c}
    /\ outcome' = Pending
    /\ UNCHANGED <<jwks, manager, caller, subjects, deleted, vouched>>

GetClientRegistrationByToken(token) == token \in registrationTokens \cap registrations

authenticateRegistrationToken(token, c) == GetClientRegistrationByToken(token) /\ token = c

\* PUT and DELETE, up to the second time they take the lock.
Manage(m, op, token, c) ==
    /\ manager[m] = Idle
    /\ authenticateRegistrationToken(token, c)
    /\ manager' = [manager EXCEPT ![m] = [pc |-> op, id |-> c]]
    /\ outcome' = Pending
    /\ UNCHANGED <<clients, registrations, registrationTokens, jwks, caller, subjects, deleted, vouched>>

\* Mutant: a client that is missing is put back.
MutUpdateClientRegistration(m) ==
    /\ manager[m].pc = "update"
    /\ clients' = [clients EXCEPT ![manager[m].id] =
          IF @ = Unregistered
          THEN (CHOOSE profile \in Profiles : TRUE) @@ [redirects |-> 2, keys |-> {}]
          ELSE [@ EXCEPT !.redirects = 2]]
    /\ FinishManager(m)
    /\ UNCHANGED <<registrations, registrationTokens, jwks, caller, subjects, deleted, vouched>>

\* Nothing else that the request holds is taken over, and its redirect URIs are not checked.
UpdateClientRegistration(m) ==
    /\ manager[m].pc = "update"
    /\ LET c == manager[m].id
       IN  IF Registered(c) /\ c \in registrations
           THEN clients' = [clients EXCEPT ![c].redirects = 2]
           ELSE UNCHANGED clients
    /\ FinishManager(m)
    /\ UNCHANGED <<registrations, registrationTokens, jwks, caller, subjects, deleted, vouched>>

\* Deleting twice is no error.  The client's tokens stay.
DeleteClientRegistration(m) ==
    /\ manager[m].pc = "delete"
    /\ LET c == manager[m].id
       IN  /\ registrationTokens' = IF c \in registrations THEN registrationTokens \ {c} ELSE registrationTokens
           /\ registrations' = registrations \ {c}
           /\ clients' = [clients EXCEPT ![c] = Unregistered]
           /\ deleted' = deleted \cup {c}
    /\ FinishManager(m)
    /\ UNCHANGED <<jwks, caller, subjects, vouched>>

\* A client changes the keys it publishes at its jwks_uri.
Rotate(c) ==
    /\ Registered(c) /\ clients[c].uri /\ jwks[c] = FirstKeys
    /\ jwks' = [jwks EXCEPT ![c] = NewKeys]
    /\ outcome' = Pending
    /\ UNCHANGED <<clients, registrations, registrationTokens, manager, caller, subjects, deleted, vouched>>

-----------------------------------------------------------------------------
(* Client authentication.  A credential is a secret, a certificate or an     *)
(* assertion, made by the software of its owner with one of the owner's      *)
(* keys; id is the client it is presented for.                               *)

Unmoved == <<clients, registrations, registrationTokens, jwks, manager, deleted>>

Proceed(p, pc) ==
    /\ caller' = [caller EXCEPT ![p].pc = pc]
    /\ outcome' = Pending

FinishCaller(p, result) ==
    /\ caller' = [caller EXCEPT ![p] = Idle]
    /\ outcome' = [kind |-> result, by |-> caller[p]]

\* dead and retired are history: the client was deleted, the key withdrawn, before the request.
Call(p, credential, id, owner) ==
    /\ caller[p] = Idle
    /\ caller' = [caller EXCEPT ![p] =
          [pc |-> "lookup", id |-> id, owner |-> owner, client |-> Unregistered, fallback |-> FALSE,
           dead |-> id \in deleted, retired |-> credential.key \in Withdrawn(owner),
           endpoint |-> credential.endpoint, grant |-> credential.grant, type |-> credential.type,
           key |-> credential.key, shape |-> credential.shape]]
    /\ outcome' = Pending
    /\ UNCHANGED <<Unmoved, subjects, vouched>>

\* Introspection and revocation have their answer; a token request goes on to its grant.
Authenticated(p) == IF caller[p].endpoint = "token" THEN Proceed(p, "grant") ELSE FinishCaller(p, "accepted")

\* Mutant: a client that is not found is taken for a public one.
MutGetClientByClientID(p) ==
    /\ caller[p].pc = "lookup"
    /\ caller' = [caller EXCEPT
          ![p].client = IF Registered(caller[p].id) THEN clients[caller[p].id]
                        ELSE [method |-> "none", uri |-> FALSE, grants |-> {}, redirects |-> 1, keys |-> {}],
          ![p].pc = IF caller[p].grant = "jwt-bearer" THEN "bearer" ELSE "method"]
    /\ outcome' = Pending
    /\ UNCHANGED <<Unmoved, subjects, vouched>>

(* GetClientByClientID: from here on the request has the client's record,   *)
(* whatever becomes of the registration.                                    *)
GetClientByClientID(p) ==
    /\ caller[p].pc = "lookup"
    /\ IF Registered(caller[p].id)
       THEN /\ caller' = [caller EXCEPT ![p].client = clients[caller[p].id],
                                        ![p].pc = IF caller[p].grant = "jwt-bearer" THEN "bearer" ELSE "method"]
            /\ outcome' = Pending
       ELSE FinishCaller(p, "refused")
    /\ UNCHANGED <<Unmoved, subjects, vouched>>

\* An assertion authenticates a private_key_jwt client, and nothing else does.
authenticateClient(p) ==
    /\ caller[p].pc = "method"
    /\ LET r == caller[p]
           method == r.client.method
       IN  IF (r.type = "assertion") # (method = "private_key_jwt") THEN FinishCaller(p, "refused")
           ELSE CASE method = "private_key_jwt"                                  -> Proceed(p, "keys")
                  [] method = "none"                                             -> Authenticated(p)
                  [] method = "self_signed_tls_client_auth" /\ r.type = "cert"   -> Proceed(p, "keys")
                  [] method = "tls_client_auth" /\ r.type = "cert"               -> Authenticated(p)
                  [] method = "client_secret_basic"                              -> Proceed(p, "secret")
                  [] OTHER                                                       -> FinishCaller(p, "refused")
    /\ UNCHANGED <<Unmoved, subjects, vouched>>

\* The client is looked up a second time.
AuthorizeClientIDSecret(p) ==
    /\ caller[p].pc = "secret"
    /\ LET r == caller[p]
       IN  IF Registered(r.id) /\ r.type = "secret" /\ r.owner = r.id
           THEN Authenticated(p)
           ELSE FinishCaller(p, "refused")
    /\ UNCHANGED <<Unmoved, subjects, vouched>>

\* Mutant: no fallback.
MutFetchKeys(r, fails) == IF r.client.uri /\ fails THEN {} ELSE IF r.client.uri THEN Published(r.id) ELSE r.client.keys

\* The keys at the client's jwks_uri, or the recorded ones when they cannot be had.
FetchKeys(r, fails) == IF r.client.uri /\ ~fails THEN Published(r.id) ELSE r.client.keys

Now == 100
Offset == 10 * Second

\* The helper of the other endpoints gives no audience.
assertionAudiences(endpoint) == IF endpoint = "token" THEN {"issuer", "token", "bc-authorize"} ELSE {}

Assertion(r) ==
    [parts |-> 3, audIsArray |-> r.shape = "array", aud |-> {"issuer"}, iat |-> Now, nbf |-> Now,
     exp |-> Now + (IF r.shape = "short" THEN Offset ELSE 6 * Offset), iss |-> r.id, sub |-> r.id,
     key |-> <<r.owner, r.key>>]

\* Mutant: the key is looked for at the issuer of the credential.
MutVerifies(r, keys) ==
    LET own == {r.owner} \X keys
    IN  IF r.type = "assertion"
        THEN VerifyJWTAssertion(Assertion(r), assertionAudiences(r.endpoint), own, Offset, Now)
        ELSE <<r.owner, r.key>> \in own

Verifies(r, keys) ==
    LET own == {r.id} \X keys
    IN  IF r.type = "assertion"
        THEN VerifyJWTAssertion(Assertion(r), assertionAudiences(r.endpoint), own, Offset, Now)
        ELSE <<r.owner, r.key>> \in own

\* Mutant: recorded keys that will do are not looked up again.
MutAuthenticateByKey(p, fails) ==
    /\ caller[p].pc = "keys"
    /\ fails => caller[p].client.uri
    /\ IF Verifies(caller[p], caller[p].client.keys) \/ Verifies(caller[p], FetchKeys(caller[p], fails))
       THEN IF caller[p].endpoint = "token"
            THEN /\ caller' = [caller EXCEPT ![p].pc = "grant", ![p].fallback = fails]
                 /\ outcome' = Pending
            ELSE FinishCaller(p, IF fails THEN "acceptedByFallback" ELSE "accepted")
       ELSE FinishCaller(p, IF fails THEN "refusedByFallback" ELSE "refused")
    /\ UNCHANGED <<Unmoved, subjects, vouched>>

\* AuthenticatePrivateKeyJWT and VerifySelfSignedTLSClientAuth after their lookup.
AuthenticateByKey(p, fails) ==
    /\ caller[p].pc = "keys"
    /\ fails => caller[p].client.uri
    /\ IF Verifies(caller[p], FetchKeys(caller[p], fails))
       THEN IF caller[p].endpoint = "token"
            THEN /\ caller' = [caller EXCEPT ![p].pc = "grant", ![p].fallback = fails]
                 /\ outcome' = Pending
            ELSE FinishCaller(p, IF fails THEN "acceptedByFallback" ELSE "accepted")
       ELSE FinishCaller(p, IF fails THEN "refusedByFallback" ELSE "refused")
    /\ UNCHANGED <<Unmoved, subjects, vouched>>

-----------------------------------------------------------------------------
(* Grants.                                                                   *)

validateGrantType(client, grant) == grant \in client.grants

\* A client that authenticated with an assertion is looked up again.
Grant(p) ==
    /\ caller[p].pc = "grant"
    /\ LET r == caller[p]
       IN  IF (r.type = "assertion" => Registered(r.id)) /\ validateGrantType(r.client, r.grant)
           THEN Proceed(p, "issue")
           ELSE FinishCaller(p, "unauthorized")
    /\ UNCHANGED <<Unmoved, subjects, vouched>>

(* The assertion is a grant and the client does not authenticate.  It is    *)
(* verified with the recorded keys, for any subject it names.               *)
handleJWTProfile(p) ==
    /\ caller[p].pc = "bearer"
    /\ LET r == caller[p]
       IN  IF validateGrantType(r.client, "jwt-bearer") /\ r.owner = r.id /\ r.key \in r.client.keys
           THEN Proceed(p, "issue")
           ELSE FinishCaller(p, "unauthorized")
    /\ UNCHANGED <<Unmoved, subjects, vouched>>

Issue(p, grant) ==
    /\ caller[p].pc = "issue" /\ caller[p].grant = grant
    /\ FinishCaller(p, "issued")
    /\ UNCHANGED Unmoved

(* A client's own token is about the client, and exchanging it gives no     *)
(* more than the client has: only tokens about users are remembered.        *)
handleClientCredentials(p) == Issue(p, "client_credentials") /\ UNCHANGED <<subjects, vouched>>

createTokenResponseFromTokenRequest(p, user) ==
    /\ Issue(p, "jwt-bearer")
    /\ subjects' = subjects \cup {user}
    /\ vouched' = vouched \cup {user}

\* Mutant: any subject token will do.
MutresolveExchangeToken(user) == TRUE

\* The access token need not be stored any more: it is only decrypted.
resolveExchangeToken(user) == user \in subjects

handleTokenExchange(p, user) ==
    \/ /\ resolveExchangeToken(user)
       /\ Issue(p, "token-exchange")
       /\ subjects' = subjects \cup {user}
       /\ UNCHANGED vouched
    \/ /\ ~resolveExchangeToken(user)
       /\ caller[p].pc = "issue" /\ caller[p].grant = "token-exchange"
       /\ FinishCaller(p, "unauthorized")
       /\ UNCHANGED <<Unmoved, subjects, vouched>>

-----------------------------------------------------------------------------

Init ==
    /\ clients = [c \in Ids |-> Unregistered]
    /\ registrations = {} /\ registrationTokens = {}
    /\ jwks = [c \in Ids |-> FirstKeys]
    /\ manager = [m \in Managers |-> Idle]
    /\ caller = [p \in Callers |-> Idle]
    /\ subjects = {} /\ deleted = {} /\ vouched = {}
    /\ outcome = Pending

SomeKey == ToSet(FirstKeys) \cup ToSet(NewKeys)

Next ==
    \/ \E m \in Managers :
          \/ \E op \in {"update", "delete"}, token, c \in Ids : Manage(m, op, token, c)
          \/ UpdateClientRegistration(m)
          \/ DeleteClientRegistration(m)
    \/ \E c \in Ids : Rotate(c) \/ \E profile \in Profiles : CreateClient(c, profile)
    \/ \E p \in Callers :
          \/ \E credential \in Credentials, id, owner \in Ids : Call(p, credential, id, owner)
          \/ GetClientByClientID(p)
          \/ authenticateClient(p)
          \/ AuthorizeClientIDSecret(p)
          \/ \E fails \in BOOLEAN : AuthenticateByKey(p, fails)
          \/ Grant(p)
          \/ handleJWTProfile(p)
          \/ handleClientCredentials(p)
          \/ \E user \in Users : createTokenResponseFromTokenRequest(p, user) \/ handleTokenExchange(p, user)

Spec == Init /\ [][Next]_vars

-----------------------------------------------------------------------------
(* Properties.                                                               *)

Done(kinds) == outcome.kind \in kinds

Served == Done({"issued", "accepted", "acceptedByFallback"})

FellBack == outcome.by.fallback \/ Done({"acceptedByFallback"})

\* The state of the registry and of the requests is what the program can hold.
TypeOK ==
    /\ \A c \in Ids : Registered(c) =>
          /\ [method |-> clients[c].method, uri |-> clients[c].uri, grants |-> clients[c].grants] \in Profiles
          /\ clients[c].keys \subseteq SomeKey /\ clients[c].redirects \in 1..2
    /\ \A c \in Ids : jwks[c] \in {FirstKeys, NewKeys}
    /\ \A m \in Managers : manager[m].pc \in {"idle", "update", "delete"}
    /\ \A p \in Callers :
          caller[p].pc \in {"idle", "lookup", "method", "secret", "keys", "grant", "bearer", "issue"}
    /\ subjects \subseteq Users /\ vouched \subseteq Users

(* Updates and deletions that passed their token check together never leave  *)
(* half a client behind: the three maps hold the same clients, and a deleted *)
(* one does not come back (storage/dcr.go:190-228).                          *)
RegistryAgrees ==
    /\ registrations = {c \in Ids : Registered(c)}
    /\ registrationTokens = registrations
    /\ registrations \cap deleted = {}

(* A client that is registered with a secret or with keys is served only     *)
(* through its own secret or a key of its own, presented by the method it is *)
(* registered with, and nobody else's certificate or assertion will do       *)
(* (clientauth.go:112-237, token.go:1288-1381).                              *)
OwnCredential ==
    Served =>
        LET r == outcome.by
            proves == {"client_secret_basic", "private_key_jwt", "self_signed_tls_client_auth"}
        IN  /\ r.client.method \in proves \/ r.grant = "jwt-bearer" => r.owner = r.id
            /\ r.client.method = "private_key_jwt" => r.type = "assertion"

(* A key the client had withdrawn from its jwks_uri before the request opens *)
(* nothing, except while the jwks_uri cannot be fetched or as the signature  *)
(* of a jwt-bearer grant, which uses the keys recorded at registration       *)
(* (clientauth.go:336-361).                                                  *)
WithdrawnKeyRefused ==
    Served =>
        LET r == outcome.by
            byKey == r.client.method \in {"private_key_jwt", "self_signed_tls_client_auth"}
        IN  r.retired /\ r.client.uri /\ byKey => FellBack \/ r.grant = "jwt-bearer"

(* A client that was deleted before the request is not served, however the   *)
(* deletion and the lookups of other requests interleave (dcr.go:251-265).   *)
DeletedNotServed == Served => ~outcome.by.dead

(* A client that presents its own credential, by its registered method and   *)
(* with a key it publishes, is refused only if it was deleted meanwhile, if  *)
(* the assertion's audience is an array, if it expires within the leeway, if *)
(* the endpoint names no audience for assertions, or if the recorded keys    *)
(* are used and the key came after one fit for encryption or after the       *)
(* registration (storage/dcr.go:60-76, verifier.go:627-689).                 *)
GenuineNotRefused ==
    Done({"refused", "refusedByFallback"}) =>
        LET r == outcome.by
            genuine == /\ r.owner = r.id /\ Registered(r.id) /\ r.client # Unregistered
                       /\ r.key \in Published(r.id)
                       /\ <<r.client.method, r.type>> \in {<<"client_secret_basic", "secret">>,
                             <<"private_key_jwt", "assertion">>, <<"self_signed_tls_client_auth", "cert">>}
            recorded == ~r.client.uri \/ Done({"refusedByFallback"})
        IN  genuine => \/ r.type = "assertion" /\ (r.shape # "plain" \/ r.endpoint # "token")
                       \/ recorded /\ r.key \notin r.client.keys

(* Exchanging tokens makes no new subjects: whichever user an access token   *)
(* speaks for, a client that has the jwt-bearer grant has signed for them    *)
(* before (token.go:929-976).                                                *)
SubjectsVouched == subjects \subseteq vouched

(* Nobody is served who has no right to be: the client exists, has shown its *)
(* own current credential, and asks for users that were vouched for.         *)
ServedByRight ==
    TypeOK /\ OwnCredential /\ WithdrawnKeyRefused /\ DeletedNotServed /\ SubjectsVouched
=============================================================================
