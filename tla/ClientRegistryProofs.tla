------------------------ MODULE ClientRegistryProofs ------------------------
(***************************************************************************)
(* Theorems about ClientRegistry: for any number of clients, registration  *)
(* requests and requests that authenticate, for every choice of methods,   *)
(* keys and credentials.  The second part is about RateLimiter, which      *)
(* counts the requests of each client and address.                         *)
(***************************************************************************)
EXTENDS ClientRegistry, RateLimiter, FiniteSetTheorems, TLAPS

-----------------------------------------------------------------------------
(* The invariant.                                                          *)

Client == [method : STRING \ {"unregistered"}, uri : BOOLEAN, grants : SUBSET STRING,
           redirects : 1..2, keys : SUBSET SomeKey]

Field(f) == {x[f] : x \in Credentials}

CallRec == [pc : {"lookup", "method", "secret", "keys", "grant", "bearer", "issue"}, id : Ids, owner : Ids,
            client : Client \cup {Unregistered}, fallback : BOOLEAN, dead : BOOLEAN, retired : BOOLEAN,
            endpoint : Field("endpoint"), grant : Field("grant"), type : Field("type"),
            key : Field("key"), shape : Field("shape")]

ManageRec == [pc : {"update", "delete"}, id : Ids]

Shape ==
    /\ clients \in [Ids -> Client \cup {Unregistered}]
    /\ \A c \in Ids : Registered(c) =>
          [method |-> clients[c].method, uri |-> clients[c].uri, grants |-> clients[c].grants] \in Profiles
    /\ deleted \subseteq Ids
    /\ jwks \in [Ids -> {FirstKeys, NewKeys}]
    /\ manager \in [Managers -> {Idle} \cup ManageRec]
    /\ caller \in [Callers -> {Idle} \cup CallRec]
    /\ subjects \subseteq vouched /\ vouched \subseteq Users

ByKey == {"private_key_jwt", "self_signed_tls_client_auth"}

\* What a request has shown when it may be served.
Entitled(r) ==
    /\ r.client.method \in ByKey \cup {"client_secret_basic"} \/ r.grant = "jwt-bearer" => r.owner = r.id
    /\ r.client.method = "private_key_jwt" => r.type = "assertion"

\* A withdrawn key has been used only with the recorded keys.
Current(r) ==
    r.retired /\ r.client.uri /\ r.client.method \in ByKey => r.fallback \/ r.grant = "jwt-bearer"

\* A request carries its client from the lookup on, which a deleted client does not
\* pass; a key that was withdrawn when it came stays withdrawn; and each step has
\* established what the next one builds upon.
CallOK(r) ==
    /\ r.grant = "jwt-bearer" => r.type = "assertion"
    /\ r.dead => r.id \in deleted /\ r.pc = "lookup"
    /\ r.retired => r.key \in Withdrawn(r.owner)
    /\ r.pc # "lookup" => r.client \in Client
    /\ r.pc \in {"lookup", "method", "secret", "keys"} => ~r.fallback
    /\ r.pc \in {"method", "secret", "keys"} => r.grant # "jwt-bearer"
    /\ r.pc = "secret" => r.client.method = "client_secret_basic"
    /\ r.pc = "keys" => /\ r.client.method \in ByKey
                        /\ r.client.method = "private_key_jwt" <=> r.type = "assertion"
    /\ r.pc = "bearer" => r.grant = "jwt-bearer"
    /\ r.pc \in {"grant", "issue"} => Entitled(r) /\ Current(r)

RegistryInv ==
    /\ Shape
    /\ RegistryAgrees
    /\ \A p \in Callers : caller[p] # Idle => CallOK(caller[p])

OutcomeInv == OwnCredential /\ WithdrawnKeyRefused /\ DeletedNotServed /\ GenuineNotRefused

-----------------------------------------------------------------------------
(* Lemmas.                                                                 *)

\* A request in flight is not idle, and a client record is that of a client.
LEMMA Kinds ==
  /\ Idle \notin CallRec /\ Idle \notin ManageRec
  /\ Unregistered \notin Client
  /\ \A r \in CallRec : r # Idle
  BY DEF Idle, CallRec, ManageRec, Unregistered, Client

\* A step that ends no request owes nothing.
LEMMA PendingStep ==
  ASSUME outcome' = Pending
  PROVE  OutcomeInv'
  BY DEF Pending, OutcomeInv, OwnCredential, WithdrawnKeyRefused, DeletedNotServed, GenuineNotRefused,
         Served, Done

\* What a request in flight relies on survives registration, deletion and rotation.
LEMMA CallsStay ==
  ASSUME Shape, deleted \subseteq deleted',
         \A c \in Ids : Withdrawn(c) \subseteq Withdrawn(c)'
  PROVE  \A r \in CallRec : CallOK(r) => CallOK(r)'
<1> TAKE r \in CallRec
<1>1. r.owner \in Ids
  BY DEF CallRec
<1>2. r.key \in Withdrawn(r.owner) => r.key \in Withdrawn(r.owner)'
  BY <1>1
<1> QED
  BY <1>2 DEF CallOK, Entitled, Current

\* One request moves and the registry stays.
LEMMA CallerMoves ==
  ASSUME RegistryInv, UNCHANGED Unmoved, NEW p \in Callers, NEW r \in {Idle} \cup CallRec,
         caller' = [caller EXCEPT ![p] = r], r # Idle => CallOK(r),
         subjects' \subseteq vouched', vouched' \subseteq Users
  PROVE  RegistryInv'
<1> USE DEF RegistryInv
<1>1. caller' \in [Callers -> {Idle} \cup CallRec]
  BY DEF Shape
<1>2. Shape'
  BY <1>1 DEF Shape, Unmoved, Registered
<1>3. RegistryAgrees'
  BY DEF RegistryAgrees, Unmoved, Registered
<1>4. \A q \in Callers : caller'[q] # Idle => CallOK(caller'[q])
  BY DEF Shape
<1>5. \A c : Withdrawn(c)' = Withdrawn(c)
  BY DEF Withdrawn, Published, Unmoved
<1>6. \A x : CallOK(x)' <=> CallOK(x)
  BY <1>5 DEF CallOK, Entitled, Current, Unmoved
<1> QED
  BY <1>2, <1>3, <1>4, <1>6

-----------------------------------------------------------------------------
(* The registry.                                                           *)

\* What is recorded of a document are keys of it.
LEMMA RecordedKeys ==
  ASSUME NEW d \in {FirstKeys, NewKeys}
  PROVE  Recorded(d) \subseteq SomeKey
  BY DEF Recorded, SomeKey, ToSet

\* A step of the registry that no request in flight takes part in.
LEMMA RegistryMoves ==
  ASSUME RegistryInv, Shape', RegistryAgrees', caller' = caller, deleted \subseteq deleted',
         \A c \in Ids : Withdrawn(c) \subseteq Withdrawn(c)'
  PROVE  RegistryInv'
<1>1. \A p \in Callers : caller[p] # Idle => caller[p] \in CallRec /\ CallOK(caller[p])
  BY DEF RegistryInv, Shape
<1>2. \A r \in CallRec : CallOK(r) => CallOK(r)'
  BY CallsStay DEF RegistryInv
<1>3. \A p \in Callers : caller'[p] # Idle => CallOK(caller[p])'
  BY <1>1, <1>2 DEF CallOK, Entitled, Current
<1> QED
  BY <1>3 DEF RegistryInv

\* POST: a new client enters all three maps.
LEMMA CreateStep ==
  ASSUME RegistryInv, NEW c \in Ids, NEW profile \in Profiles, CreateClient(c, profile)
  PROVE  RegistryInv'
<1> DEFINE new == [method |-> profile.method, uri |-> profile.uri, grants |-> profile.grants,
                   redirects |-> 1, keys |-> Recorded(handleCreate(c))]
<1>1. /\ clients' = [clients EXCEPT ![c] = new]
      /\ registrations' = registrations \cup {c} /\ registrationTokens' = registrationTokens \cup {c}
      /\ UNCHANGED <<jwks, manager, caller, subjects, deleted, vouched>>
      /\ c \notin deleted
  BY DEF CreateClient
<1>2. Shape
  BY DEF RegistryInv
<1>3. Recorded(handleCreate(c)) \subseteq SomeKey
  BY <1>2, RecordedKeys DEF handleCreate, Shape
<1>4. new \in Client /\ [method |-> new.method, uri |-> new.uri, grants |-> new.grants] = profile
  BY <1>3, RegistryAssumption DEF Client
<1> HIDE DEF new
<1>5. new # Unregistered
  BY <1>4, Kinds
<1>6. clients' \in [Ids -> Client \cup {Unregistered}]
  BY <1>1, <1>2, <1>4 DEF Shape
<1>7. \A x \in Ids : Registered(x)' =>
        [method |-> clients'[x].method, uri |-> clients'[x].uri, grants |-> clients'[x].grants] \in Profiles
  BY <1>1, <1>2, <1>4 DEF Shape, Registered
<1>8. Shape'
  BY <1>1, <1>2, <1>6, <1>7 DEF Shape
<1>9. \A x \in Ids : Registered(x)' <=> Registered(x) \/ x = c
  BY <1>1, <1>2, <1>5 DEF Registered, Shape
<1>10. RegistryAgrees'
  BY <1>1, <1>9 DEF RegistryInv, RegistryAgrees
<1>11. \A x \in Ids : Withdrawn(x) \subseteq Withdrawn(x)'
  BY <1>1 DEF Withdrawn, Published
<1> QED
  BY <1>1, <1>8, <1>10, <1>11, RegistryMoves

\* PUT and DELETE, the token check.
LEMMA ManageStep ==
  ASSUME RegistryInv, NEW m \in Managers, NEW op \in {"update", "delete"}, NEW token \in Ids, NEW c \in Ids,
         Manage(m, op, token, c)
  PROVE  RegistryInv'
<1>1. /\ manager' = [manager EXCEPT ![m] = [pc |-> op, id |-> c]]
      /\ UNCHANGED <<clients, registrations, registrationTokens, jwks, caller, subjects, deleted, vouched>>
  BY DEF Manage
<1>2. manager' \in [Managers -> {Idle} \cup ManageRec]
  BY <1>1 DEF RegistryInv, Shape, ManageRec
<1>3. Shape'
  BY <1>1, <1>2 DEF RegistryInv, Shape, Registered
<1>4. RegistryAgrees' /\ \A x \in Ids : Withdrawn(x) \subseteq Withdrawn(x)'
  BY <1>1 DEF RegistryInv, RegistryAgrees, Registered, Withdrawn, Published
<1> QED
  BY <1>1, <1>3, <1>4, RegistryMoves

\* Which request is about to write, and to which client.
LEMMA ManagerIs ==
  ASSUME Shape, NEW m \in Managers, manager[m].pc \in {"update", "delete"}
  PROVE  manager[m].id \in Ids
  BY DEF Shape, Idle, ManageRec

\* PUT, the write: whoever is in the maps stays there.
LEMMA UpdateStep ==
  ASSUME RegistryInv, NEW m \in Managers, UpdateClientRegistration(m)
  PROVE  RegistryInv'
<1> DEFINE c == manager[m].id
<1>1. /\ manager' = [manager EXCEPT ![m] = Idle]
      /\ UNCHANGED <<registrations, registrationTokens, jwks, caller, subjects, deleted, vouched>>
      /\ clients' = clients \/ (Registered(c) /\ clients' = [clients EXCEPT ![c].redirects = 2])
  BY DEF UpdateClientRegistration, FinishManager
<1>2. Shape
  BY DEF RegistryInv
<1>3. c \in Ids
  BY <1>2, ManagerIs DEF UpdateClientRegistration
<1> HIDE DEF c
<1>4. ASSUME NEW x \in Client
      PROVE  LET y == [x EXCEPT !.redirects = 2]
             IN  y \in Client /\ y.method = x.method /\ y.uri = x.uri /\ y.grants = x.grants
  BY DEF Client
<1>5. /\ clients' \in [Ids -> Client \cup {Unregistered}]
      /\ \A x \in Ids : Registered(x)' <=> Registered(x)
      /\ \A x \in Ids : Registered(x) =>
            /\ clients'[x].method = clients[x].method
            /\ clients'[x].uri = clients[x].uri
            /\ clients'[x].grants = clients[x].grants
  <2>1. CASE clients' = clients
    BY <1>2, <2>1 DEF Shape, Registered
  <2>2. CASE Registered(c) /\ clients' = [clients EXCEPT ![c].redirects = 2]
    <3>1. clients[c] \in Client
      BY <1>2, <1>3, <2>2 DEF Shape, Registered
    <3>2. clients' = [clients EXCEPT ![c] = [clients[c] EXCEPT !.redirects = 2]]
      BY <1>2, <1>3, <2>2 DEF Shape
    <3> QED
      BY <1>2, <1>3, <1>4, <2>2, <3>1, <3>2, Kinds DEF Shape, Registered
  <2> QED
    BY <1>1, <2>1, <2>2
<1>6. manager' \in [Managers -> {Idle} \cup ManageRec]
  BY <1>1, <1>2 DEF Shape
<1>7. Shape'
  BY <1>1, <1>2, <1>5, <1>6 DEF Shape
<1>8. RegistryAgrees' /\ \A x \in Ids : Withdrawn(x) \subseteq Withdrawn(x)'
  BY <1>1, <1>5 DEF RegistryInv, RegistryAgrees, Withdrawn, Published
<1> QED
  BY <1>1, <1>7, <1>8, RegistryMoves

\* DELETE, the write: the client leaves all three maps.
LEMMA DeleteStep ==
  ASSUME RegistryInv, NEW m \in Managers, DeleteClientRegistration(m)
  PROVE  RegistryInv'
<1> DEFINE c == manager[m].id
<1>1. /\ manager' = [manager EXCEPT ![m] = Idle]
      /\ UNCHANGED <<jwks, caller, subjects, vouched>>
      /\ registrationTokens' = IF c \in registrations THEN registrationTokens \ {c} ELSE registrationTokens
      /\ registrations' = registrations \ {c}
      /\ clients' = [clients EXCEPT ![c] = Unregistered]
      /\ deleted' = deleted \cup {c}
  BY DEF DeleteClientRegistration, FinishManager
<1>2. Shape
  BY DEF RegistryInv
<1>3. c \in Ids
  BY <1>2, ManagerIs DEF DeleteClientRegistration
<1> HIDE DEF c
<1>4. /\ clients' \in [Ids -> Client \cup {Unregistered}]
      /\ manager' \in [Managers -> {Idle} \cup ManageRec]
      /\ \A x \in Ids : Registered(x)' <=> Registered(x) /\ x # c
      /\ \A x \in Ids : x # c => clients'[x] = clients[x]
  BY <1>1, <1>2, <1>3 DEF Shape, Registered
<1>5. Shape'
  BY <1>1, <1>2, <1>3, <1>4 DEF Shape
<1>6. RegistryAgrees' /\ \A x \in Ids : Withdrawn(x) \subseteq Withdrawn(x)'
  BY <1>1, <1>3, <1>4 DEF RegistryInv, RegistryAgrees, Withdrawn, Published
<1> QED
  BY <1>1, <1>5, <1>6, RegistryMoves

\* A client changes its keys once: before, it had withdrawn none.
LEMMA RotateStep ==
  ASSUME RegistryInv, NEW c \in Ids, Rotate(c)
  PROVE  RegistryInv'
<1>1. /\ jwks[c] = FirstKeys /\ jwks' = [jwks EXCEPT ![c] = NewKeys]
      /\ UNCHANGED <<clients, registrations, registrationTokens, manager, caller, subjects, deleted, vouched>>
  BY DEF Rotate
<1>2. Shape'
  BY <1>1 DEF RegistryInv, Shape, Registered
<1>3. RegistryAgrees'
  BY <1>1 DEF RegistryInv, RegistryAgrees, Registered
<1>4. \A x \in Ids : Withdrawn(x) \subseteq Withdrawn(x)'
  BY <1>1 DEF Withdrawn, Published, RegistryInv, Shape
<1> QED
  BY <1>1, <1>2, <1>3, <1>4, RegistryMoves

-----------------------------------------------------------------------------
(* Requests that authenticate.                                             *)

\* Facts about the request that takes a step.
LEMMA InFlight ==
  ASSUME RegistryInv, NEW p \in Callers, caller[p].pc # "idle"
  PROVE  caller[p] \in CallRec /\ caller[p] # Idle /\ CallOK(caller[p])
  BY Kinds DEF RegistryInv, Shape, Idle

\* A request that goes on is the same request.
LEMMA Advance ==
  ASSUME NEW r \in CallRec, NEW pc \in {"lookup", "method", "secret", "keys", "grant", "bearer", "issue"}
  PROVE  LET s == [r EXCEPT !.pc = pc]
         IN  /\ s \in CallRec /\ s.pc = pc /\ s.id = r.id /\ s.owner = r.owner /\ s.client = r.client
             /\ s.fallback = r.fallback /\ s.dead = r.dead /\ s.retired = r.retired
             /\ s.endpoint = r.endpoint /\ s.grant = r.grant /\ s.type = r.type
             /\ s.key = r.key /\ s.shape = r.shape
  BY DEF CallRec

\* A request that ends leaves the others and the registry as they are.
LEMMA FinishMoves ==
  ASSUME RegistryInv, NEW p \in Callers, NEW k, FinishCaller(p, k), UNCHANGED Unmoved,
         subjects' \subseteq vouched', vouched' \subseteq Users
  PROVE  RegistryInv'
  BY CallerMoves DEF FinishCaller

\* One that is served owes its credential, its key and its client.
LEMMA ServedOwes ==
  ASSUME NEW r, NEW k \in {"issued", "accepted", "acceptedByFallback"},
         outcome' = [kind |-> k, by |-> r], Entitled(r), Current(r) \/ k = "acceptedByFallback", ~r.dead
  PROVE  OutcomeInv'
<1>1. outcome'.kind = k /\ outcome'.by = r
  OBVIOUS
<1>2. OwnCredential'
  BY <1>1 DEF OwnCredential, Entitled, ByKey
<1>3. WithdrawnKeyRefused'
  BY <1>1 DEF WithdrawnKeyRefused, FellBack, Done, Current, ByKey
<1>4. DeletedNotServed'
  BY <1>1 DEF DeletedNotServed
<1>5. GenuineNotRefused'
  BY <1>1 DEF GenuineNotRefused, Done
<1> QED
  BY <1>2, <1>3, <1>4, <1>5 DEF OutcomeInv

\* One that gets no grant owes nothing.
LEMMA UnauthorizedOwes ==
  ASSUME NEW r, outcome' = [kind |-> "unauthorized", by |-> r]
  PROVE  OutcomeInv'
  BY DEF OutcomeInv, OwnCredential, WithdrawnKeyRefused, DeletedNotServed, GenuineNotRefused, Served, Done

\* What makes a request genuine, in the state before its last step.
Genuine(r) ==
    /\ r.owner = r.id /\ Registered(r.id) /\ r.client # Unregistered
    /\ r.key \in Published(r.id)
    /\ \/ r.client.method = "client_secret_basic" /\ r.type = "secret"
       \/ r.client.method = "private_key_jwt" /\ r.type = "assertion"
       \/ r.client.method = "self_signed_tls_client_auth" /\ r.type = "cert"

\* One that is refused owes the reason, if it was genuine.
LEMMA RefusedOwes ==
  ASSUME NEW r, NEW k \in {"refused", "refusedByFallback"}, UNCHANGED Unmoved,
         outcome' = [kind |-> k, by |-> r],
         Genuine(r) => \/ r.type = "assertion" /\ (r.shape # "plain" \/ r.endpoint # "token")
                       \/ (~r.client.uri \/ k = "refusedByFallback") /\ r.key \notin r.client.keys
  PROVE  OutcomeInv'
<1>1. outcome'.kind = k /\ outcome'.by = r
  OBVIOUS
<1>2. OwnCredential' /\ WithdrawnKeyRefused' /\ DeletedNotServed'
  BY <1>1 DEF OwnCredential, WithdrawnKeyRefused, DeletedNotServed, Served, Done
<1>3. clients' = clients /\ jwks' = jwks
  BY DEF Unmoved
<1>4. GenuineNotRefused'
  BY <1>1, <1>3 DEF GenuineNotRefused, Done, Genuine, Registered, Published
<1> QED
  BY <1>2, <1>4 DEF OutcomeInv

\* Facts about requests that are only authenticated, and go on or are answered.
LEMMA AuthenticatedStep ==
  ASSUME RegistryInv, NEW p \in Callers, caller[p].pc \in {"method", "secret"}, Authenticated(p),
         UNCHANGED <<Unmoved, subjects, vouched>>, Entitled(caller[p]), Current(caller[p])
  PROVE  RegistryInv' /\ OutcomeInv'
<1> DEFINE r == caller[p]
<1>1. r \in CallRec /\ r # Idle /\ CallOK(r)
  BY InFlight
<1>2. subjects' \subseteq vouched' /\ vouched' \subseteq Users /\ UNCHANGED Unmoved
  BY DEF RegistryInv, Shape
<1>3. CASE r.endpoint = "token"
  <2> DEFINE s == [r EXCEPT !.pc = "grant"]
  <2>1. caller' = [caller EXCEPT ![p] = s] /\ outcome' = Pending
    BY <1>3 DEF Authenticated, Proceed
  <2>2. /\ s \in CallRec /\ s.pc = "grant" /\ s.id = r.id /\ s.owner = r.owner /\ s.client = r.client
        /\ s.fallback = r.fallback /\ s.dead = r.dead /\ s.retired = r.retired
        /\ s.grant = r.grant /\ s.type = r.type /\ s.key = r.key
    BY <1>1, Advance
  <2> HIDE DEF s
  <2>3. CallOK(s)
    BY <1>1, <2>2 DEF CallOK, Entitled, Current
  <2> QED
    BY <1>2, <2>1, <2>2, <2>3, CallerMoves, PendingStep
<1>4. CASE r.endpoint # "token"
  <2>1. FinishCaller(p, "accepted")
    BY <1>4 DEF Authenticated
  <2>2. ~r.dead
    BY <1>1 DEF CallOK
  <2> QED
    BY <1>2, <2>1, <2>2, FinishMoves, ServedOwes DEF FinishCaller
<1> QED
  BY <1>3, <1>4

\* A request arrives.
LEMMA CallStep ==
  ASSUME RegistryInv, NEW p \in Callers, NEW credential \in Credentials, NEW id \in Ids, NEW owner \in Ids,
         Call(p, credential, id, owner)
  PROVE  RegistryInv' /\ OutcomeInv'
<1> DEFINE r == [pc |-> "lookup", id |-> id, owner |-> owner, client |-> Unregistered, fallback |-> FALSE,
                 dead |-> id \in deleted, retired |-> credential.key \in Withdrawn(owner),
                 endpoint |-> credential.endpoint, grant |-> credential.grant, type |-> credential.type,
                 key |-> credential.key, shape |-> credential.shape]
<1>1. caller' = [caller EXCEPT ![p] = r] /\ outcome' = Pending /\ UNCHANGED <<Unmoved, subjects, vouched>>
  BY DEF Call
<1>2. r \in CallRec
  BY DEF CallRec, Field
<1>3. CallOK(r)
  BY RegistryAssumption DEF CallOK
<1>4. subjects' \subseteq vouched' /\ vouched' \subseteq Users /\ UNCHANGED Unmoved
  BY <1>1 DEF RegistryInv, Shape
<1> HIDE DEF r
<1> QED
  BY <1>1, <1>2, <1>3, <1>4, CallerMoves, PendingStep

\* The client is looked up: a client that was deleted before the request is not found.
LEMMA LookupStep ==
  ASSUME RegistryInv, NEW p \in Callers, GetClientByClientID(p)
  PROVE  RegistryInv' /\ OutcomeInv'
<1> DEFINE r == caller[p]
           pc == IF r.grant = "jwt-bearer" THEN "bearer" ELSE "method"
<1>0. r.pc = "lookup"
  BY DEF GetClientByClientID
<1>1. r \in CallRec /\ r # Idle /\ CallOK(r)
  BY <1>0, InFlight
<1>2. subjects' \subseteq vouched' /\ vouched' \subseteq Users /\ UNCHANGED Unmoved
  BY DEF RegistryInv, Shape, GetClientByClientID
<1>3. CASE Registered(r.id)
  <2> DEFINE s == [r EXCEPT !.client = clients[r.id], !.pc = pc]
  <2>1. caller' = [caller EXCEPT ![p] = s] /\ outcome' = Pending
    BY <1>3 DEF GetClientByClientID
  <2>2. r.id \in Ids /\ clients[r.id] \in Client
    BY <1>1, <1>3 DEF RegistryInv, Shape, CallRec, Registered
  <2>3. /\ s \in CallRec /\ s.pc = pc /\ s.id = r.id /\ s.owner = r.owner /\ s.client = clients[r.id]
        /\ s.fallback = r.fallback /\ s.dead = r.dead /\ s.retired = r.retired
        /\ s.grant = r.grant /\ s.type = r.type /\ s.key = r.key
    BY <1>1, <2>2 DEF CallRec
  <2>4. ~r.dead
    BY <1>1, <1>3, <2>2 DEF CallOK, RegistryInv, RegistryAgrees
  <2>5. ~r.fallback
    BY <1>0, <1>1 DEF CallOK
  <2> HIDE DEF s
  <2>6. CallOK(s)
    BY <1>1, <2>2, <2>3, <2>4, <2>5 DEF CallOK
  <2> QED
    BY <1>2, <2>1, <2>3, <2>6, CallerMoves, PendingStep
<1>4. CASE ~Registered(r.id)
  <2>1. FinishCaller(p, "refused")
    BY <1>4 DEF GetClientByClientID
  <2>2. ~Genuine(r)
    BY <1>4 DEF Genuine
  <2> QED
    BY <1>2, <2>1, <2>2, FinishMoves, RefusedOwes DEF FinishCaller
<1> QED
  BY <1>3, <1>4

\* The method is chosen: whoever is refused here has not used the registered one.
LEMMA MethodStep ==
  ASSUME RegistryInv, NEW p \in Callers, authenticateClient(p)
  PROVE  RegistryInv' /\ OutcomeInv'
<1> DEFINE r == caller[p]
           method == r.client.method
<1>0. r.pc = "method"
  BY DEF authenticateClient
<1>1. r \in CallRec /\ r # Idle /\ CallOK(r)
  BY <1>0, InFlight
<1>2. subjects' \subseteq vouched' /\ vouched' \subseteq Users /\ UNCHANGED Unmoved
      /\ UNCHANGED <<Unmoved, subjects, vouched>>
  BY DEF RegistryInv, Shape, authenticateClient
<1>3. ASSUME NEW pc \in {"secret", "keys"}, Proceed(p, pc),
             pc = "secret" => method = "client_secret_basic",
             pc = "keys" => method \in ByKey /\ (method = "private_key_jwt" <=> r.type = "assertion")
      PROVE  RegistryInv' /\ OutcomeInv'
  <2> DEFINE s == [r EXCEPT !.pc = pc]
  <2>1. caller' = [caller EXCEPT ![p] = s] /\ outcome' = Pending
    BY <1>3 DEF Proceed
  <2>2. /\ s \in CallRec /\ s.pc = pc /\ s.id = r.id /\ s.owner = r.owner /\ s.client = r.client
        /\ s.fallback = r.fallback /\ s.dead = r.dead /\ s.retired = r.retired
        /\ s.grant = r.grant /\ s.type = r.type /\ s.key = r.key
    BY <1>1, <1>3 DEF CallRec
  <2> HIDE DEF s
  <2>3. CallOK(s)
    BY <1>0, <1>1, <1>3, <2>2 DEF CallOK
  <2> QED
    BY <1>2, <2>1, <2>2, <2>3, CallerMoves, PendingStep
<1>4. ASSUME Authenticated(p), method \in {"none", "tls_client_auth"}
      PROVE  RegistryInv' /\ OutcomeInv'
  <2>1. Entitled(r) /\ Current(r)
    BY <1>0, <1>1, <1>4 DEF CallOK, Entitled, Current, ByKey
  <2> QED
    BY <1>0, <1>2, <1>4, <2>1, AuthenticatedStep
<1>5. ASSUME FinishCaller(p, "refused"), ~Genuine(r)
      PROVE  RegistryInv' /\ OutcomeInv'
  BY <1>2, <1>5, FinishMoves, RefusedOwes DEF FinishCaller
<1>6. CASE (r.type = "assertion") # (method = "private_key_jwt")
  <2>1. FinishCaller(p, "refused") /\ ~Genuine(r)
    BY <1>6 DEF authenticateClient, Genuine
  <2> QED
    BY <1>5, <2>1
<1>7. CASE r.type = "assertion" /\ method = "private_key_jwt"
  <2>1. Proceed(p, "keys")
    BY <1>7 DEF authenticateClient
  <2> QED
    BY <1>3, <1>7, <2>1 DEF ByKey
<1>8. CASE r.type # "assertion" /\ method # "private_key_jwt"
  <2>1. CASE method = "none" \/ (method = "tls_client_auth" /\ r.type = "cert")
    <3>1. Authenticated(p)
      BY <1>8, <2>1 DEF authenticateClient
    <3> QED
      BY <1>4, <2>1, <3>1
  <2>2. CASE method = "self_signed_tls_client_auth" /\ r.type = "cert"
    <3>1. Proceed(p, "keys")
      BY <1>8, <2>2 DEF authenticateClient
    <3> QED
      BY <1>3, <1>8, <2>2, <3>1 DEF ByKey
  <2>3. CASE method = "client_secret_basic"
    <3>1. Proceed(p, "secret")
      BY <1>8, <2>3 DEF authenticateClient
    <3> QED
      BY <1>3, <2>3, <3>1
  <2>4. CASE /\ method \notin {"none", "client_secret_basic"}
             /\ method \in {"tls_client_auth", "self_signed_tls_client_auth"} => r.type # "cert"
    <3>1. FinishCaller(p, "refused") /\ ~Genuine(r)
      BY <1>8, <2>4 DEF authenticateClient, Genuine
    <3> QED
      BY <1>5, <3>1
  <2> QED
    BY <2>1, <2>2, <2>3, <2>4
<1> QED
  BY <1>6, <1>7, <1>8

\* The secret is the client's own, or the client is gone.
LEMMA SecretStep ==
  ASSUME RegistryInv, NEW p \in Callers, AuthorizeClientIDSecret(p)
  PROVE  RegistryInv' /\ OutcomeInv'
<1> DEFINE r == caller[p]
<1>0. r.pc = "secret"
  BY DEF AuthorizeClientIDSecret
<1>1. r \in CallRec /\ r # Idle /\ CallOK(r)
  BY <1>0, InFlight
<1>2. subjects' \subseteq vouched' /\ vouched' \subseteq Users /\ UNCHANGED Unmoved
      /\ UNCHANGED <<Unmoved, subjects, vouched>>
  BY DEF RegistryInv, Shape, AuthorizeClientIDSecret
<1>3. CASE Registered(r.id) /\ r.type = "secret" /\ r.owner = r.id
  <2>1. Authenticated(p)
    BY <1>3 DEF AuthorizeClientIDSecret
  <2>2. Entitled(r) /\ Current(r)
    BY <1>0, <1>1, <1>3 DEF CallOK, Entitled, Current, ByKey
  <2> QED
    BY <1>0, <1>2, <2>1, <2>2, AuthenticatedStep
<1>4. CASE ~(Registered(r.id) /\ r.type = "secret" /\ r.owner = r.id)
  <2>1. FinishCaller(p, "refused")
    BY <1>4 DEF AuthorizeClientIDSecret
  <2>2. ~Genuine(r)
    BY <1>0, <1>1, <1>4 DEF Genuine, CallOK
  <2> QED
    BY <1>2, <2>1, <2>2, FinishMoves, RefusedOwes DEF FinishCaller
<1> QED
  BY <1>3, <1>4

\* Only a key of the client's own verifies.
LEMMA VerifiesOwn ==
  ASSUME NEW r, NEW keys, Verifies(r, keys)
  PROVE  r.owner = r.id /\ r.key \in keys
<1>1. <<r.owner, r.key>> \in {r.id} \X keys
  <2>1. CASE r.type = "assertion"
    <3>1. Assertion(r).key \in {r.id} \X keys
      BY <2>1 DEF Verifies, VerifyJWTAssertion
    <3> QED
      BY <3>1 DEF Assertion
  <2>2. CASE r.type # "assertion"
    BY <2>2 DEF Verifies
  <2> QED
    BY <2>1, <2>2
<1> QED
  BY <1>1

\* A key of the client's own does verify: a certificate always, an assertion if it is plain
\* and made for the token endpoint.
LEMMA OwnVerifies ==
  ASSUME NEW r, NEW keys, r.owner = r.id, r.key \in keys,
         r.type = "assertion" => r.shape = "plain" /\ r.endpoint = "token"
  PROVE  Verifies(r, keys)
<1>1. <<r.owner, r.key>> \in {r.id} \X keys
  OBVIOUS
<1>2. CASE r.type = "assertion"
  <2> DEFINE t == Assertion(r)
             own == {r.id} \X keys
  <2>1. /\ t.parts = 3 /\ ~t.audIsArray /\ t.aud = {"issuer"} /\ t.iat = 100 /\ t.nbf = 100 /\ t.exp = 220
        /\ t.iss = t.sub /\ t.key \in own
    <3>1. r.shape = "plain" /\ r.shape # "array" /\ r.shape # "short"
      BY <1>2
    <3>2. t.exp = 100 + (IF r.shape = "short" THEN 10 * 2 ELSE 6 * (10 * 2))
      BY DEF Assertion, Now, Offset, Second
    <3>3. t.exp = 220
      BY <3>1, <3>2
    <3>4. t.key \in own
      BY <1>1 DEF Assertion
    <3> QED
      BY <3>1, <3>3, <3>4 DEF Assertion, Now
  <2>2. CheckAudienceAny(t, assertionAudiences(r.endpoint))
    BY <1>2, <2>1 DEF CheckAudienceAny, assertionAudiences
  <2>3. CheckExpiration(t, Offset, Now)
    BY <2>1 DEF CheckExpiration, Offset, Now, Second
  <2>4. t.iat <= RoundToSecond(Now + Offset) /\ t.nbf <= RoundToSecond(Now + Offset)
    BY <2>1 DEF RoundToSecond, FromTime, Now, Offset, Second
  <2> HIDE DEF t
  <2>5. VerifyJWTAssertion(t, assertionAudiences(r.endpoint), own, Offset, Now)
    BY <2>1, <2>2, <2>3, <2>4 DEF VerifyJWTAssertion
  <2> QED
    BY <1>2, <2>5 DEF Verifies, t
<1>3. CASE r.type # "assertion"
  BY <1>1, <1>3 DEF Verifies
<1> QED
  BY <1>2, <1>3

\* The key is one of the client's, and a current one unless the document could not be had.
LEMMA KeyStep ==
  ASSUME RegistryInv, NEW p \in Callers, NEW fails \in BOOLEAN, AuthenticateByKey(p, fails)
  PROVE  RegistryInv' /\ OutcomeInv'
<1> DEFINE r == caller[p]
           keys == FetchKeys(r, fails)
<1>0. r.pc = "keys" /\ (fails => r.client.uri)
  BY DEF AuthenticateByKey
<1>1. r \in CallRec /\ r # Idle /\ CallOK(r)
  BY <1>0, InFlight
<1>2. subjects' \subseteq vouched' /\ vouched' \subseteq Users /\ UNCHANGED Unmoved
  BY DEF RegistryInv, Shape, AuthenticateByKey
<1>3. ASSUME Verifies(r, keys)
      PROVE  RegistryInv' /\ OutcomeInv'
  <2>1. r.owner = r.id /\ r.key \in keys
    BY <1>3, VerifiesOwn
  <2>2. Entitled(r)
    BY <1>0, <1>1, <2>1 DEF Entitled, CallOK
  <2>3. r.retired /\ r.client.uri => fails
    BY <1>1, <2>1 DEF CallOK, Withdrawn, FetchKeys
  <2>4. ~r.dead
    BY <1>0, <1>1 DEF CallOK
  <2>5. CASE r.endpoint = "token"
    <3> DEFINE s == [r EXCEPT !.pc = "grant", !.fallback = fails]
    <3>1. caller' = [caller EXCEPT ![p] = s] /\ outcome' = Pending
      BY <1>3, <2>5 DEF AuthenticateByKey
    <3>2. /\ s \in CallRec /\ s.pc = "grant" /\ s.id = r.id /\ s.owner = r.owner /\ s.client = r.client
          /\ s.fallback = fails /\ s.dead = r.dead /\ s.retired = r.retired
          /\ s.grant = r.grant /\ s.type = r.type /\ s.key = r.key
      BY <1>1 DEF CallRec
    <3> HIDE DEF s
    <3>3. CallOK(s)
      BY <1>0, <1>1, <2>2, <2>3, <3>2 DEF CallOK, Entitled, Current
    <3> QED
      BY <1>2, <3>1, <3>2, <3>3, CallerMoves, PendingStep
  <2>6. CASE r.endpoint # "token"
    <3>1. FinishCaller(p, IF fails THEN "acceptedByFallback" ELSE "accepted")
      BY <1>3, <2>6 DEF AuthenticateByKey
    <3>2. Current(r) \/ fails
      BY <2>3 DEF Current
    <3> QED
      BY <1>2, <2>2, <2>4, <3>1, <3>2, FinishMoves, ServedOwes DEF FinishCaller
  <2> QED
    BY <2>5, <2>6
<1>4. ASSUME ~Verifies(r, keys)
      PROVE  RegistryInv' /\ OutcomeInv'
  <2> DEFINE k == IF fails THEN "refusedByFallback" ELSE "refused"
  <2>1. FinishCaller(p, k)
    BY <1>4 DEF AuthenticateByKey
  <2>2. Genuine(r) => \/ r.type = "assertion" /\ (r.shape # "plain" \/ r.endpoint # "token")
                      \/ (~r.client.uri \/ fails) /\ r.key \notin r.client.keys
    BY <1>4, OwnVerifies DEF Genuine, FetchKeys
  <2>3. k \in {"refused", "refusedByFallback"} /\ (fails => k = "refusedByFallback")
    OBVIOUS
  <2> HIDE DEF k
  <2> QED
    BY <1>2, <2>1, <2>2, <2>3, FinishMoves, RefusedOwes DEF FinishCaller
<1> QED
  BY <1>3, <1>4

-----------------------------------------------------------------------------
(* Grants.                                                                 *)

\* A client that may use the grant keeps what it has shown.
LEMMA GrantStep ==
  ASSUME RegistryInv, NEW p \in Callers, Grant(p) \/ handleJWTProfile(p)
  PROVE  RegistryInv' /\ OutcomeInv'
<1> DEFINE r == caller[p]
<1>0. r.pc \in {"grant", "bearer"} /\ (Proceed(p, "issue") \/ FinishCaller(p, "unauthorized"))
  BY DEF Grant, handleJWTProfile
<1>1. r \in CallRec /\ r # Idle /\ CallOK(r)
  BY <1>0, InFlight
<1>2. subjects' \subseteq vouched' /\ vouched' \subseteq Users /\ UNCHANGED Unmoved
  BY DEF RegistryInv, Shape, Grant, handleJWTProfile
<1>3. CASE Proceed(p, "issue")
  <2>1. Entitled(r) /\ Current(r)
    <3>1. CASE r.pc = "grant"
      BY <1>1, <3>1 DEF CallOK
    <3>2. CASE r.pc = "bearer"
      <4>1. r.owner = r.id
        BY <1>3, <3>2 DEF Grant, handleJWTProfile, Proceed, FinishCaller, Pending
      <4> QED
        BY <1>1, <3>2, <4>1 DEF CallOK, Entitled, Current
    <3> QED
      BY <1>0, <3>1, <3>2
  <2> DEFINE s == [r EXCEPT !.pc = "issue"]
  <2>2. caller' = [caller EXCEPT ![p] = s] /\ outcome' = Pending
    BY <1>3 DEF Proceed
  <2>3. /\ s \in CallRec /\ s.pc = "issue" /\ s.id = r.id /\ s.owner = r.owner /\ s.client = r.client
        /\ s.fallback = r.fallback /\ s.dead = r.dead /\ s.retired = r.retired
        /\ s.grant = r.grant /\ s.type = r.type /\ s.key = r.key
    BY <1>1, Advance
  <2> HIDE DEF s
  <2>4. CallOK(s)
    BY <1>0, <1>1, <2>1, <2>3 DEF CallOK, Entitled, Current
  <2> QED
    BY <1>2, <2>2, <2>3, <2>4, CallerMoves, PendingStep
<1>4. CASE FinishCaller(p, "unauthorized")
  BY <1>2, <1>4, FinishMoves, UnauthorizedOwes DEF FinishCaller
<1> QED
  BY <1>0, <1>3, <1>4

\* Tokens are issued to a client that has shown who it is.
LEMMA IssueStep ==
  ASSUME RegistryInv, NEW p \in Callers, NEW grant, Issue(p, grant),
         subjects' \subseteq vouched', vouched' \subseteq Users
  PROVE  RegistryInv' /\ OutcomeInv'
<1> DEFINE r == caller[p]
<1>1. r.pc = "issue" /\ FinishCaller(p, "issued") /\ UNCHANGED Unmoved
  BY DEF Issue
<1>2. r \in CallRec /\ CallOK(r)
  BY <1>1, InFlight
<1>3. Entitled(r) /\ Current(r) /\ ~r.dead
  BY <1>1, <1>2 DEF CallOK
<1> QED
  BY <1>1, <1>3, FinishMoves, ServedOwes DEF FinishCaller

\* An exchanged token speaks for a user who was vouched for.
LEMMA ExchangeStep ==
  ASSUME RegistryInv, NEW p \in Callers, NEW user \in Users, handleTokenExchange(p, user)
  PROVE  RegistryInv' /\ OutcomeInv'
<1>1. CASE resolveExchangeToken(user) /\ Issue(p, "token-exchange")
           /\ subjects' = subjects \cup {user} /\ UNCHANGED vouched
  <2>1. subjects' \subseteq vouched' /\ vouched' \subseteq Users
    BY <1>1 DEF RegistryInv, Shape, resolveExchangeToken
  <2> QED
    BY <1>1, <2>1, IssueStep
<1>2. CASE FinishCaller(p, "unauthorized") /\ UNCHANGED <<Unmoved, subjects, vouched>>
  <2>1. subjects' \subseteq vouched' /\ vouched' \subseteq Users /\ UNCHANGED Unmoved
    BY <1>2 DEF RegistryInv, Shape
  <2> QED
    BY <1>2, <2>1, FinishMoves, UnauthorizedOwes DEF FinishCaller
<1> QED
  BY <1>1, <1>2 DEF handleTokenExchange

-----------------------------------------------------------------------------
(* Theorems.                                                               *)

\* Every step keeps the invariant, and ends a request only with what it owes.
LEMMA NextHolds ==
  ASSUME RegistryInv, OutcomeInv, [Next]_vars
  PROVE  RegistryInv' /\ OutcomeInv'
<1>1. ASSUME NEW m \in Managers, NEW op \in {"update", "delete"}, NEW token \in Ids, NEW c \in Ids,
             Manage(m, op, token, c)
      PROVE  RegistryInv' /\ OutcomeInv'
  BY <1>1, ManageStep, PendingStep DEF Manage
<1>2. ASSUME NEW m \in Managers, UpdateClientRegistration(m)
      PROVE  RegistryInv' /\ OutcomeInv'
  BY <1>2, UpdateStep, PendingStep DEF UpdateClientRegistration, FinishManager
<1>3. ASSUME NEW m \in Managers, DeleteClientRegistration(m)
      PROVE  RegistryInv' /\ OutcomeInv'
  BY <1>3, DeleteStep, PendingStep DEF DeleteClientRegistration, FinishManager
<1>4. ASSUME NEW c \in Ids, Rotate(c)
      PROVE  RegistryInv' /\ OutcomeInv'
  BY <1>4, RotateStep, PendingStep DEF Rotate
<1>5. ASSUME NEW c \in Ids, NEW profile \in Profiles, CreateClient(c, profile)
      PROVE  RegistryInv' /\ OutcomeInv'
  BY <1>5, CreateStep, PendingStep DEF CreateClient
<1>6. ASSUME NEW p \in Callers, NEW credential \in Credentials, NEW id \in Ids, NEW owner \in Ids,
             Call(p, credential, id, owner)
      PROVE  RegistryInv' /\ OutcomeInv'
  BY <1>6, CallStep
<1>7. ASSUME NEW p \in Callers,
             \/ GetClientByClientID(p) \/ authenticateClient(p) \/ AuthorizeClientIDSecret(p)
             \/ Grant(p) \/ handleJWTProfile(p)
      PROVE  RegistryInv' /\ OutcomeInv'
  BY <1>7, LookupStep, MethodStep, SecretStep, GrantStep
<1>8. ASSUME NEW p \in Callers, NEW fails \in BOOLEAN, AuthenticateByKey(p, fails)
      PROVE  RegistryInv' /\ OutcomeInv'
  BY <1>8, KeyStep
<1>9. ASSUME NEW p \in Callers, handleClientCredentials(p)
      PROVE  RegistryInv' /\ OutcomeInv'
  BY <1>9, IssueStep DEF handleClientCredentials, RegistryInv, Shape
<1>10. ASSUME NEW p \in Callers, NEW user \in Users, createTokenResponseFromTokenRequest(p, user)
       PROVE  RegistryInv' /\ OutcomeInv'
  <2>1. Issue(p, "jwt-bearer") /\ subjects' \subseteq vouched' /\ vouched' \subseteq Users
    BY <1>10 DEF createTokenResponseFromTokenRequest, RegistryInv, Shape
  <2> QED
    BY <2>1, IssueStep
<1>11. ASSUME NEW p \in Callers, NEW user \in Users, handleTokenExchange(p, user)
       PROVE  RegistryInv' /\ OutcomeInv'
  BY <1>11, ExchangeStep
<1>12. CASE UNCHANGED vars
  <2>1. RegistryInv'
    BY <1>12 DEF vars, RegistryInv, Shape, RegistryAgrees, Registered, CallOK, Entitled, Current,
                 Withdrawn, Published
  <2>2. OutcomeInv'
    BY <1>12 DEF vars, OutcomeInv, OwnCredential, WithdrawnKeyRefused, DeletedNotServed, GenuineNotRefused,
                 Served, Done, FellBack, Registered, Published
  <2> QED
    BY <2>1, <2>2
<1> QED
  BY <1>1, <1>2, <1>3, <1>4, <1>5, <1>6, <1>7, <1>8, <1>9, <1>10, <1>11, <1>12 DEF Next

(* The registry and every request in flight are as the steps of clientauth.go, token.go *)
(* and dcr.go rely on, and whoever was answered last was answered rightly.              *)
THEOREM RegistryInvariance == Spec => [](RegistryInv /\ OutcomeInv)
<1>1. Init => RegistryInv /\ OutcomeInv
  <2> SUFFICES ASSUME Init
               PROVE  RegistryInv /\ OutcomeInv
    OBVIOUS
  <2>1. \A c \in Ids : ~Registered(c)
    BY DEF Init, Registered
  <2>2. RegistryInv
    BY <2>1 DEF Init, RegistryInv, Shape, RegistryAgrees
  <2>3. OutcomeInv
    BY DEF Init, Pending, OutcomeInv, OwnCredential, WithdrawnKeyRefused, DeletedNotServed,
           GenuineNotRefused, Served, Done
  <2> QED
    BY <2>2, <2>3
<1>2. RegistryInv /\ OutcomeInv /\ [Next]_vars => (RegistryInv /\ OutcomeInv)'
  BY NextHolds
<1> QED
  BY <1>1, <1>2, PTL DEF Spec

(* The three maps of the registry hold the same clients and a deleted one does not come *)
(* back, however many updates and deletions passed their token check together.          *)
THEOREM RegistryAgreesHolds == Spec => []RegistryAgrees
<1>1. RegistryInv => RegistryAgrees
  BY DEF RegistryInv
<1> QED
  BY <1>1, RegistryInvariance, PTL

(* Whoever is served has shown a credential of its own by its registered method, with a *)
(* key it has not withdrawn unless its keys could not be had, is no deleted client, and *)
(* speaks only for users that were vouched for.                                         *)
THEOREM ServedByRightHolds == Spec => []ServedByRight
<1>1. RegistryInv => TypeOK
  <2> SUFFICES ASSUME RegistryInv
               PROVE  TypeOK
    OBVIOUS
  <2>1. \A c \in Ids : Registered(c) => clients[c].keys \subseteq SomeKey /\ clients[c].redirects \in 1..2
    BY DEF RegistryInv, Shape, Registered, Client
  <2>2. \A m \in Managers : manager[m].pc \in {"idle", "update", "delete"}
    BY DEF RegistryInv, Shape, ManageRec, Idle
  <2>3. \A p \in Callers :
          caller[p].pc \in {"idle", "lookup", "method", "secret", "keys", "grant", "bearer", "issue"}
    BY DEF RegistryInv, Shape, CallRec, Idle
  <2> QED
    BY <2>1, <2>2, <2>3 DEF RegistryInv, Shape, TypeOK
<1>2. RegistryInv /\ OutcomeInv => ServedByRight
  BY <1>1 DEF RegistryInv, Shape, OutcomeInv, ServedByRight, SubjectsVouched
<1> QED
  BY <1>2, RegistryInvariance, PTL

(* A client that presents its own credential by its registered method, with a key it    *)
(* publishes, is refused only for one of the causes that the property lists.            *)
THEOREM GenuineNotRefusedHolds == Spec => []GenuineNotRefused
<1>1. OutcomeInv => GenuineNotRefused
  BY DEF OutcomeInv
<1> QED
  BY <1>1, RegistryInvariance, PTL

-----------------------------------------------------------------------------
(***************************************************************************)
(* The rate limiters: RateLimiter for any number of keys, any limits and   *)
(* windows and any number of requests.                                     *)
(***************************************************************************)

(* The inductive invariant.  SlidingWindow speaks of all the requests ever *)
(* admitted, the code only sees its buckets: they hold every admitted      *)
(* request that is still within the window, and the history is finite,     *)
(* numbered from 0 and not in the future.                                  *)

BucketsHoldLive ==
  \A k \in Keys :
    /\ buckets[k] \subseteq admitted[k]
    /\ \A r \in admitted[k] : Alive(r, k) => r \in buckets[k]

HistoryWellFormed ==
  \A k \in Keys :
    /\ IsFiniteSet(admitted[k])
    /\ \A r \in admitted[k] : r.at <= now /\ r.id < Cardinality(admitted[k])

LimiterInv ==
  /\ LimiterTypeOK
  /\ BucketsHoldLive
  /\ HistoryWellFormed

(* Lemmas about the buckets *)

\* What Allow counts after pruning a bucket is the window that ends now.
LEMMA ValidIsWindow ==
  ASSUME LimiterInv, NEW k \in Keys
  PROVE  Valid(k) = InWindow(k, now)
  <1>1. \A r \in admitted[k] : r.at \in Int /\ r.at <= now
    BY DEF LimiterInv, LimiterTypeOK, HistoryWellFormed, Requests, Time
  <1>2. now \in Int /\ Window[k] \in Int
    BY LimiterAssumption DEF LimiterInv, LimiterTypeOK, Time
  <1>3. /\ buckets[k] \subseteq admitted[k]
        /\ \A r \in admitted[k] : r.at > now - Window[k] => r \in buckets[k]
    BY DEF LimiterInv, BucketsHoldLive, Alive
  <1> QED
    BY <1>1, <1>2, <1>3 DEF Valid, InWindow, Alive

\* Windows are finite, so their cardinalities are numbers and grow with them.
LEMMA WindowFinite ==
  ASSUME LimiterInv, NEW k \in Keys, NEW t
  PROVE  /\ IsFiniteSet(InWindow(k, t))
         /\ Cardinality(InWindow(k, t)) \in Nat
  <1>1. IsFiniteSet(admitted[k])
    BY DEF LimiterInv, HistoryWellFormed
  <1>2. InWindow(k, t) \in SUBSET admitted[k]
    BY DEF InWindow
  <1>3. IsFiniteSet(InWindow(k, t))
    BY <1>1, <1>2, FS_Subset
  <1> QED
    BY <1>3, FS_CardinalityType

\* The request that Admit records is new.
LEMMA FreshIsNew ==
  ASSUME LimiterInv, NEW k \in Keys
  PROVE  /\ Fresh(k) \in Requests
         /\ Fresh(k) \notin admitted[k]
         /\ Fresh(k).at = now
         /\ Fresh(k).id = Cardinality(admitted[k])
         /\ Cardinality(admitted[k]) \in Nat
  <1>1. Cardinality(admitted[k]) \in Nat
    BY FS_CardinalityType DEF LimiterInv, HistoryWellFormed
  <1>2. \A r \in admitted[k] : r.id < Cardinality(admitted[k])
    BY DEF LimiterInv, HistoryWellFormed
  <1>3. now \in Time
    BY DEF LimiterInv, LimiterTypeOK
  <1> QED
    BY <1>1, <1>2, <1>3 DEF Fresh, Requests

(* Invariance *)

\* The limiter starts with empty maps.
LEMMA LimiterStart ==
  LimiterInit => LimiterInv
  <1> SUFFICES ASSUME LimiterInit PROVE LimiterInv
    OBVIOUS
  <1>1. LimiterTypeOK
    <2>1. now \in Time
      BY LimiterAssumption DEF LimiterInit, Time
    <2>2. stopped \in BOOLEAN
      BY Zenon DEF LimiterInit
    <2>3. /\ buckets \in [Keys -> SUBSET Requests]
          /\ admitted \in [Keys -> SUBSET Requests]
          /\ refused \in [Keys -> SUBSET Time]
          /\ \A k \in Keys \ known : buckets[k] = {}
          /\ known \subseteq Keys
      BY DEF LimiterInit
    <2> QED
      BY <2>1, <2>2, <2>3 DEF LimiterTypeOK
  <1>2. BucketsHoldLive
    BY DEF LimiterInit, BucketsHoldLive
  <1>3. HistoryWellFormed
    BY FS_EmptySet DEF LimiterInit, HistoryWellFormed
  <1> QED
    BY <1>1, <1>2, <1>3 DEF LimiterInv

\* Every step of the limiter keeps the buckets in line with the history.
LEMMA LimiterStep ==
  LimiterInv /\ [LimiterNext]_limiterVars => LimiterInv'
  <1> SUFFICES ASSUME LimiterInv, [LimiterNext]_limiterVars PROVE LimiterInv'
    OBVIOUS
  <1> USE LimiterAssumption
  <1>1. CASE Tick
    <2>1. LimiterTypeOK'
      BY <1>1 DEF LimiterInv, LimiterTypeOK, Tick, Time, Requests
    <2>2. \A k \in Keys : \A r \in admitted[k] :
            r.at \in Int /\ (Alive(r, k)' => Alive(r, k))
      BY <1>1 DEF LimiterInv, LimiterTypeOK, Tick, Time, Requests, Alive
    <2>3. BucketsHoldLive'
      BY <1>1, <2>2 DEF LimiterInv, BucketsHoldLive, Tick
    <2>4. HistoryWellFormed'
      <3>1. \A k \in Keys : \A r \in admitted[k] : r.at <= now'
        BY <1>1, <2>2 DEF LimiterInv, LimiterTypeOK, HistoryWellFormed, Tick, Time
      <3> QED
        BY <1>1, <3>1 DEF LimiterInv, HistoryWellFormed, Tick
    <2> QED
      BY <2>1, <2>3, <2>4 DEF LimiterInv
  <1>2. ASSUME NEW k \in Keys, Admit(k) PROVE LimiterInv'
    <2> DEFINE A == admitted[k]
    <2>0. /\ Fresh(k) \in Requests
          /\ Fresh(k) \notin A
          /\ Fresh(k).at = now
          /\ Fresh(k).id = Cardinality(A)
          /\ Cardinality(A) \in Nat
      BY FreshIsNew
    <2>1. Valid(k) \subseteq buckets[k]
      BY DEF Valid
    <2>2. LimiterTypeOK'
      BY <1>2, <2>0, <2>1 DEF LimiterInv, LimiterTypeOK, Admit
    <2>3. BucketsHoldLive'
      <3> SUFFICES ASSUME NEW j \in Keys
                   PROVE  /\ buckets'[j] \subseteq admitted'[j]
                          /\ \A r \in admitted'[j] : Alive(r, j) => r \in buckets'[j]
        BY <1>2 DEF BucketsHoldLive, Admit, Alive
      <3>1. CASE j = k
        BY <1>2, <2>1, <3>1 DEF LimiterInv, LimiterTypeOK, BucketsHoldLive, Admit, Valid
      <3>2. CASE j # k
        BY <1>2, <3>2 DEF LimiterInv, LimiterTypeOK, BucketsHoldLive, Admit
      <3> QED
        BY <3>1, <3>2
    <2>4. HistoryWellFormed'
      <3>1. /\ IsFiniteSet(A)
            /\ \A r \in A : r.at <= now /\ r.id < Cardinality(A)
        BY DEF LimiterInv, HistoryWellFormed
      <3>2. /\ IsFiniteSet(A \cup {Fresh(k)})
            /\ Cardinality(A \cup {Fresh(k)}) = Cardinality(A) + 1
        BY <2>0, <3>1, FS_AddElement
      <3>3. \A r \in A : r.id \in Nat
        BY DEF LimiterInv, LimiterTypeOK, Requests
      <3>4. now \in Int
        BY DEF LimiterInv, LimiterTypeOK, Time
      <3>5. \A r \in A \cup {Fresh(k)} : r.at <= now /\ r.id < Cardinality(A) + 1
        BY <2>0, <3>1, <3>3, <3>4
      <3>6. admitted' = [admitted EXCEPT ![k] = A \cup {Fresh(k)}] /\ now' = now
        BY <1>2 DEF Admit
      <3> SUFFICES ASSUME NEW j \in Keys
                   PROVE  /\ IsFiniteSet(admitted'[j])
                          /\ \A r \in admitted'[j] :
                               r.at <= now /\ r.id < Cardinality(admitted'[j])
        BY <3>6 DEF HistoryWellFormed
      <3>7. CASE j = k
        <4>1. admitted'[j] = A \cup {Fresh(k)}
          BY <3>6, <3>7 DEF LimiterInv, LimiterTypeOK
        <4> QED
          BY <3>2, <3>5, <4>1
      <3>8. CASE j # k
        <4>1. admitted'[j] = admitted[j]
          BY <3>6, <3>8 DEF LimiterInv, LimiterTypeOK
        <4> QED
          BY <4>1 DEF LimiterInv, HistoryWellFormed
      <3> QED
        BY <3>7, <3>8
    <2> QED
      BY <2>2, <2>3, <2>4 DEF LimiterInv
  <1>3. ASSUME NEW k \in Keys, Refuse(k) PROVE LimiterInv'
    <2>1. Valid(k) \subseteq buckets[k]
      BY DEF Valid
    <2>2. LimiterTypeOK'
      BY <1>3, <2>1 DEF LimiterInv, LimiterTypeOK, Refuse
    <2>3. BucketsHoldLive'
      BY <1>3 DEF LimiterInv, LimiterTypeOK, BucketsHoldLive, Refuse, Valid, Alive
    <2>4. HistoryWellFormed'
      BY <1>3 DEF LimiterInv, HistoryWellFormed, Refuse
    <2> QED
      BY <2>2, <2>3, <2>4 DEF LimiterInv
  <1>4. CASE Cleanup
    <2>1. LimiterTypeOK'
      BY <1>4 DEF LimiterInv, LimiterTypeOK, Cleanup
    <2>2. BucketsHoldLive'
      BY <1>4 DEF LimiterInv, LimiterTypeOK, BucketsHoldLive, Cleanup, IdleKey, Alive
    <2>3. HistoryWellFormed'
      BY <1>4 DEF LimiterInv, HistoryWellFormed, Cleanup
    <2> QED
      BY <2>1, <2>2, <2>3 DEF LimiterInv
  <1>5. CASE Stop
    BY <1>5 DEF LimiterInv, LimiterTypeOK, BucketsHoldLive, HistoryWellFormed, Alive, Stop
  <1>6. CASE UNCHANGED limiterVars
    BY <1>6 DEF LimiterInv, LimiterTypeOK, BucketsHoldLive, HistoryWellFormed, Alive, limiterVars
  <1> QED
    BY <1>1, <1>2, <1>3, <1>4, <1>5, <1>6 DEF LimiterNext

\* The buckets always hold exactly what the limiter must remember.
THEOREM LimiterInvariance ==
  LimiterSpec => []LimiterInv
  BY LimiterStart, LimiterStep, PTL DEF LimiterSpec

(* The limit *)

\* A step that admits nothing leaves every window as it was.
LEMMA WindowsUnchanged ==
  ASSUME UNCHANGED admitted
  PROVE  \A k, t : InWindow(k, t)' = InWindow(k, t)
  BY DEF InWindow

\* Admit adds one request to the windows that contain now: they had room.
LEMMA SlidingWindowStep ==
  LimiterInv /\ SlidingWindow /\ [LimiterNext]_limiterVars => SlidingWindow'
  <1> SUFFICES ASSUME LimiterInv, SlidingWindow, [LimiterNext]_limiterVars PROVE SlidingWindow'
    OBVIOUS
  <1> USE LimiterAssumption
  <1>1. ASSUME NEW k \in Keys, Admit(k) PROVE SlidingWindow'
    <2> SUFFICES ASSUME NEW j \in Keys, NEW t \in Time
                 PROVE  Cardinality(InWindow(j, t)') <= Limit[j]
      BY DEF SlidingWindow
    <2>1. Cardinality(InWindow(j, t)) <= Limit[j]
      BY DEF SlidingWindow
    <2>2. admitted' = [admitted EXCEPT ![k] = admitted[k] \cup {Fresh(k)}]
      BY <1>1 DEF Admit
    <2>3. CASE j # k
      <3>1. InWindow(j, t)' = InWindow(j, t)
        BY <2>2, <2>3 DEF InWindow, LimiterInv, LimiterTypeOK
      <3> QED
        BY <2>1, <3>1
    <2>4. CASE j = k
      <3>1. admitted'[j] = admitted[j] \cup {Fresh(j)}
        BY <2>2, <2>4 DEF LimiterInv, LimiterTypeOK
      <3>2. /\ Fresh(j).at = now
            /\ now \in Int /\ t \in Int /\ Window[j] \in Nat \ {0} /\ Limit[j] \in Nat
            /\ \A r \in admitted[j] : r.at \in Int /\ r.at <= now
        BY FreshIsNew DEF LimiterInv, LimiterTypeOK, HistoryWellFormed, Time, Requests
      <3>3. CASE ~(t - Window[j] < now /\ now <= t)
        <4>1. InWindow(j, t)' = InWindow(j, t)
          BY <3>1, <3>2, <3>3 DEF InWindow
        <4> QED
          BY <2>1, <4>1
      <3>4. CASE t - Window[j] < now /\ now <= t
        <4>1. InWindow(j, t)' \subseteq InWindow(j, now) \cup {Fresh(j)}
          BY <3>1, <3>2, <3>4 DEF InWindow
        <4>2. Cardinality(InWindow(j, now)) < Limit[j]
          BY <1>1, <2>4, ValidIsWindow DEF Admit
        <4>3. /\ IsFiniteSet(InWindow(j, now))
              /\ Cardinality(InWindow(j, now)) \in Nat
          BY WindowFinite
        <4>4. /\ IsFiniteSet(InWindow(j, now) \cup {Fresh(j)})
              /\ Cardinality(InWindow(j, now) \cup {Fresh(j)})
                   <= Cardinality(InWindow(j, now)) + 1
          <5>1. /\ IsFiniteSet(InWindow(j, now) \cup {Fresh(j)})
                /\ Cardinality(InWindow(j, now) \cup {Fresh(j)}) =
                     IF Fresh(j) \in InWindow(j, now)
                       THEN Cardinality(InWindow(j, now))
                       ELSE Cardinality(InWindow(j, now)) + 1
            BY <4>3, FS_AddElement, Zenon
          <5> QED
            BY <4>3, <5>1
        <4>5. /\ IsFiniteSet(InWindow(j, t)')
              /\ Cardinality(InWindow(j, t)')
                   <= Cardinality(InWindow(j, now) \cup {Fresh(j)})
          BY <4>1, <4>4, FS_Subset
        <4>6. /\ Cardinality(InWindow(j, t)') \in Nat
              /\ Cardinality(InWindow(j, now) \cup {Fresh(j)}) \in Nat
          BY <4>4, <4>5, FS_CardinalityType
        <4> QED
          BY <3>2, <4>2, <4>3, <4>4, <4>5, <4>6
      <3> QED
        BY <3>3, <3>4
    <2> QED
      BY <2>3, <2>4
  <1>2. CASE UNCHANGED admitted
    BY <1>2, WindowsUnchanged DEF SlidingWindow
  <1> QED
    BY <1>1, <1>2 DEF LimiterNext, Tick, Refuse, Cleanup, Stop, limiterVars

\* storm.RateLimiter.Allow and checkClientRateLimit keep their limit in every
\* window, wherever it ends, for any limits, windows, keys and request pattern.
THEOREM SlidingWindowHolds ==
  LimiterSpec => []SlidingWindow
  <1>1. LimiterInit => SlidingWindow
    <2> SUFFICES ASSUME LimiterInit, NEW k \in Keys, NEW t \in Time
                 PROVE  Cardinality(InWindow(k, t)) <= Limit[k]
      BY DEF SlidingWindow
    <2>1. InWindow(k, t) = {}
      BY DEF LimiterInit, InWindow
    <2> QED
      BY <2>1, FS_EmptySet, LimiterAssumption
  <1> QED
    BY <1>1, SlidingWindowStep, LimiterInvariance, PTL DEF LimiterSpec

(* Refusals *)

\* A refusal happens in a full window, and windows of the past stay full.
LEMMA RefusedStep ==
  LimiterInv /\ LimiterInv' /\ RefusedOnlyWhenFull /\ [LimiterNext]_limiterVars
    => RefusedOnlyWhenFull'
  <1> SUFFICES ASSUME LimiterInv, LimiterInv', RefusedOnlyWhenFull, [LimiterNext]_limiterVars
               PROVE  RefusedOnlyWhenFull'
    OBVIOUS
  <1> USE LimiterAssumption
  <1>1. ASSUME NEW k \in Keys, Admit(k) PROVE RefusedOnlyWhenFull'
    <2> SUFFICES ASSUME NEW j \in Keys, NEW t \in refused[j]
                 PROVE  Cardinality(InWindow(j, t)') >= Limit[j]
      BY <1>1 DEF RefusedOnlyWhenFull, Admit
    <2>1. /\ Cardinality(InWindow(j, t)) >= Limit[j]
          /\ Limit[j] \in Nat
      BY DEF RefusedOnlyWhenFull
    <2>2. InWindow(j, t) \subseteq InWindow(j, t)'
      BY <1>1 DEF Admit, InWindow, LimiterInv, LimiterTypeOK
    <2>3. IsFiniteSet(InWindow(j, t)')
      <3>1. IsFiniteSet(admitted'[j])
        BY DEF LimiterInv, HistoryWellFormed
      <3>2. InWindow(j, t)' \in SUBSET admitted'[j]
        BY DEF InWindow
      <3> QED
        BY <3>1, <3>2, FS_Subset
    <2>4. Cardinality(InWindow(j, t)) <= Cardinality(InWindow(j, t)')
      BY <2>2, <2>3, FS_Subset
    <2>5. Cardinality(InWindow(j, t)') \in Nat /\ Cardinality(InWindow(j, t)) \in Nat
      BY <2>3, FS_CardinalityType, WindowFinite
    <2> QED
      BY <2>1, <2>4, <2>5
  <1>2. ASSUME NEW k \in Keys, Refuse(k) PROVE RefusedOnlyWhenFull'
    <2>1. \A j, t : InWindow(j, t)' = InWindow(j, t)
      BY <1>2, WindowsUnchanged DEF Refuse
    <2>2. Cardinality(InWindow(k, now)) >= Limit[k]
      BY <1>2, ValidIsWindow DEF Refuse
    <2> SUFFICES ASSUME NEW j \in Keys, NEW t \in refused'[j]
                 PROVE  Cardinality(InWindow(j, t)) >= Limit[j]
      BY <2>1 DEF RefusedOnlyWhenFull
    <2>3. t \in refused[j] \/ (j = k /\ t = now)
      BY <1>2 DEF Refuse, LimiterInv, LimiterTypeOK
    <2> QED
      BY <2>2, <2>3 DEF RefusedOnlyWhenFull
  <1>3. CASE UNCHANGED <<admitted, refused>>
    BY <1>3, WindowsUnchanged DEF RefusedOnlyWhenFull
  <1> QED
    BY <1>1, <1>2, <1>3 DEF LimiterNext, Tick, Cleanup, Stop, limiterVars

\* A request is refused only when the window that ends with it holds the limit:
\* the pruning under the lock never leaves an expired timestamp that counts.
THEOREM RefusedOnlyWhenFullHolds ==
  LimiterSpec => []RefusedOnlyWhenFull
  <1>1. LimiterInit => RefusedOnlyWhenFull
    BY DEF LimiterInit, RefusedOnlyWhenFull
  <1> QED
    BY <1>1, RefusedStep, LimiterInvariance, PTL DEF LimiterSpec

=============================================================================
