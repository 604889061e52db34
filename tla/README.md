# A TLA+ verification of kexcore-oidc

kexcore-oidc is an OpenID Connect library in Go: `pkg/storm` is an engine that
runs an OpenID Provider as a set of plugins, one per endpoint or feature,
against storage interfaces that an application implements;
`example/storm-server/storage` is the in-memory implementation the tests and
the example server run with; `pkg/client` holds the relying-party side. This
directory models the parts whose correctness depends on the *order* in which
requests, goroutines, messages and clock ticks meet or on the *combination* of
options and parameters, checks them with TLC on small instances, and proves every
safety property with TLAPS for every instance.

Contents: [the system](#the-system) · [modules and code](#modules-and-code) ·
[runs](#runs) · [proofs](#proofs) · [disagreements](#where-code-and-text-disagree) ·
[not modelled](#what-is-not-modelled) · [plan](#plan).

## The system

`net/http` starts a goroutine per request. A plugin's handler validates its
parameters and then makes a *sequence* of storage calls. Every method of the
reference storage takes a lock for its own body, so one call is atomic and a
handler is not; some methods hand out a pointer to a stored record, which the
handlers then read, and at places write, outside the lock. Everything hard in
this code follows from that.

| Component | State | Operations | Meets |
|---|---|---|---|
| Reference storage (`example/storm-server/storage`) | auth requests, codes and used codes, access and refresh tokens, code→token tracking, DPoP bindings, client sessions, signing keys | one method per storage interface of `pkg/storm/storage.go` | every plugin |
| Authorization endpoint (`plugins/authorization`) | none of its own | authorize, accept, callback; the example's login form | storage, PAR, JARM |
| Token endpoint (`plugins/token`) | per-client rate buckets | authorization_code, refresh_token, device_code, ciba, client_credentials, jwt-bearer, token exchange | storage, DPoP, mTLS, pairwise |
| Revocation and introspection | none | revoke, introspect | storage, token crypto |
| CIBA (`plugins/ciba`) | `cibaRequests` in the storage | backchannel request, approval page, ping notification | token endpoint |
| Device grant (`plugins/device`) | `DeviceAuthStore`: two maps, cleanup goroutine | authorize, approve or deny, poll | token endpoint |
| Rate limiter (`storm/ratelimit.go`) | timestamps per IP, eviction goroutine | Allow, cleanup, Stop | every route |
| Remote key set (`client/rp/jwks.go`) | cached keys, the fetch in flight | VerifySignature | provider's JWKS endpoint |
| DPoP, mTLS, userinfo, introspection | replay cache, nonces; bindings in the storage's tokens | validate proof, bind, look up, answer | token endpoint, storage |
| Logout (`plugins/endsession`, `plugins/backchannel`) | login and client sessions in the storage | end session, send logout tokens | storage, RPs |
| PAR (`plugins/par`) | stored requests with expiry | push, look up | authorization |
| Client authentication (`storm/shared/clientauth.go`, `plugins/mtls`) | keys recorded or fetched per client | authenticate | all back-channel endpoints |
| Dynamic registration (`plugins/dcr`) | clients, registrations, registration tokens | create, read, update, delete | storage |
| Engine (`storm/engine.go`, `plugin.go`, `validate.go`) | plugins, router, connections, middleware layers | configure, register, validate, connect, build | all plugins |
| Pairwise, JARM, discovery, WebFinger, keys | configuration | format, sign | — |
| Relying party, resource server, token exchange clients | cookies, key set | redirect, callback, verify | provider |

The behaviours that are hard to test, each with the line where it bites, are the
`hazards` of `PROJECT.json`. They fall into seven groups:

* *check in one lock section, act in another*: rotation of refresh tokens,
  consumption of a CIBA request, uniqueness of user codes, recording a token for
  code-reuse detection;
* *a shared record changed under a reader*: narrowing of refresh-token scopes,
  the approval page's second write of a CIBA status, a late login form;
* *long chains of legal calls*: a refresh of a refresh of a narrowed token must
  keep client, scopes, subject and DPoP key; revocation and replay must stay
  effective whatever is issued meanwhile;
* *time*: poll intervals at their boundary, expiry against a late poll, sliding
  windows with evictions in between;
* *a fetch that several wait for*: who starts it, who joins it, whose
  cancellation ends it, and what the waiters may conclude from its answer;
* *parameters and options from several places*: a request put together from query,
  object and push; a binding required here or there; plugins that find each other
  by priority;
* *messages between two programs*: callbacks of several tabs, logout tokens that
  are late or lost, keys that the other side has rotated.

What makes each component correct:

* codes and tokens — a code buys one token; a lineage stays with its client, its
  scopes, its user and its key; what was revoked, rotated away or replayed stays
  dead;
* CIBA and device grant — tokens only after (and for) the user who approved; a
  denial is final; a well-behaved client is neither throttled nor starved;
* limiter — never more than the limit in any window, never a refusal without a
  full window, memory bounded by the active addresses;
* key set — one fetch at a time, no genuine token refused for a stale reason, no
  caller left waiting;
* authorization — every answer goes to a place the client registered, in the form
  it asked for; no silent completion the request forbids;
* relying party — a login ends in its own browser, with its own verifier, with a
  token that was made for it, and is refused only for a reason;
* logout — what was recorded is told, nobody else is, nothing lives on;
* bound tokens — only the holder is answered; a proof opens the door once;
* registry — the maps agree, and only the client itself, with a current
  credential, is served;
* engine — the discovery document tells the truth about what was built.

## Modules and code

`PROJECT.json` maps every definition to its lines. Throughout, an action is one
critical section: a handler that makes one deciding storage call is one action,
a handler that makes several moves through program counters named after the next
call. Failing validations that change nothing are not steps. Identifiers drawn at
random are members of small sets, each drawn once; tokens, scopes, users and keys
are model values. Variables marked *history* in a module are read by properties
only, except where a bound (`Max...`) needs a count. Answers that end a request are
kept in one variable (`out`, `answer`, `outcome`) until the next step, for the properties
to read.

**OPStorage** — the maps of `Storage` as variables and its methods as operators
that constrain next-state values. Objects that Go shares by pointer (`reqData`,
`tokData`, `rtData`) are kept apart from the maps that reach them
(`authRequests`, `tokens`, `refreshTokens`), because deleting a map entry leaves
the object alive in a handler that holds it. A subject is a user with the number
of pairwise transformations applied to it: the HMAC is injective for all the
model cares, but *how often* it is applied is what matters.

**TokenEndpoint** (extends OPStorage) — requests are created, completed by the
accept page or by the login form, and turned into codes; the two token grants run
as `Procs` through `createAT`, `createRT`, `rotate`, `respond`, `track`, `delete`;
refresh requests first check scopes and proof of possession and then narrow the
shared record; the revocation endpoint runs against them. The response fails at
any time (`RespondFails`), leaving behind what was stored. `Decrypt` models the
token string as what was done to the id (encrypted, encoded), which is what
decides whether revocation finds it.

**CodeGrant** — what the code grant promises, without requests or maps: a code is
minted for a client, spent or lapsed once and for good, and the root of at most
one lineage of tokens, all its client's. `TokenEndpoint!CodeGrantSpec` is the
refinement mapping: a code is *live* while `codeToAuthReq` knows it, *spent* while
`usedCodes` does, *lapsed* when it was minted and neither does; a token's grant is
the code, the client and the generation it was created with.
`ImplementsCodeGrant` says that every step of the detailed specification is a step
of the abstract one or a stutter.

**CibaGrant** — the shared `CIBARequest` record, pollers (`handleCIBA`) and
approval handlers (`handleApprovalAction`) that read it whenever the code does
and write it in separate steps: interval, poll time, status, status again,
notification. Time is an integer clock.

**DeviceGrant** — `entries` and `byCode` of `DeviceAuthStore`, which works with
copies: a poller acts on the copy it read. User codes are drawn in one step and
stored in another. Device codes are not consumed by the code, so `DenialStops`
speaks of a budget: what had been read before the denial.

**RateLimiter** — both limiters. A timestamp is paired with the number of its
request because the Go slice may hold equal timestamps.

**RemoteKeySet** — callers inside `VerifySignature`, the `inflight` objects with
the state of their `updateKeys` goroutine, the cache, and a provider that
prepends new keys (`RotateSigningKey`) and, as other providers do, retires old
ones (external). `FindMatchingKey` is modelled for keys of one type and use.

**Engine** — `New` registers the offered plugins one by one in the order of their
priorities, skipping what is disabled, declining or panicking without a store as
each plugin's `New` does; `Register` adds one by hand, before or after `Build`;
`Build` validates, connects the plugins and computes the layers. A plugin instance
is known by its place in `plugins`; routing overwrites (chi). `Document` is what
the discovery plugins contribute in that order, plugin by plugin.
`Overridden` is the assignment of several keys of a Go map.

**Authorize** — one action per endpoint (authorize, push, accept, reject, callback)
and one for each way a browser gets a session. `Received` puts the parameters
together from query, request object and pushed request as `handler.go`,
`request_object.go` and `requestobject.go` do; a list of checks in the order of the
code decides between an error page, an error redirect and a stored request; the
callback answers by response type and mode. URIs are records of their parts, JWTs
records of claims and verdicts.

**Verifier** — the token checks of `pkg/protocol/verifier.go` as operators, in half
seconds because the code rounds to seconds. Used by the next two modules and by
`ClientRegistry`.

**RelyingParty** (extends Verifier) — construction from a discovery document,
`AuthURLHandler`, and callbacks that read cookies, exchange the code and verify the
answer in separate steps; `SetCookies` reaches the browser when it follows the
redirect, deletions when the reply arrives. The provider is external: it answers
with genuine, misdirected or malformed tokens (`Kinds`).

**Logout** (extends Verifier) — logins that go through the storage's lock sections
(session, access token, refresh token, client session), refreshes, end_session
requests that validate, push logout tokens and terminate in separate steps, and
mail that is delivered, late or lost.

**ResourceAccess** — requests that pass the DPoP middleware (age check, then the
cache under its lock), the token endpoint's choice of a binding, the userinfo
endpoint's three lookups, introspection, revocation and token exchange.

**ClientRegistry** (extends Verifier) — registration requests as token check and
write, authentication as lookup, method, key fetch (which may fail) and
verification, and the grants a client uses on its own.

**MC…** modules give constants that a configuration cannot write, and symmetry
sets; **…Proofs** modules hold the theorems.

## Runs

Passing runs (TLC with the configuration of the same name):

| Run | States | What it shows |
|---|---|---|
| `MCCodeExchange` | 558 559 | `CodeSingleUse` and the refinement `ImplementsCodeGrant` with two requests, two codes, two concurrent token requests, two clients (one pairwise), the login form, expiry and revocation |
| `MCRefresh` | 186 045 | a lineage through two refreshes with rotation: `LineageFaithful`, `SubjectStable`, `DPoPContinuity`, `ReplayRevokesTracked`, `RotatedIsDead`, `RevokedStaysInactive` for a public, non-pairwise client with two keys |
| `MCCibaGrant` | 741 501 | `TokensNeedApproval`, `AnswersSound` (pings and pending answers) and, under fairness, `ApprovedIsServed` with two pollers and two approval pages |
| `MCDeviceGrant` | 289 990 | `ApprovalIsOwn`, `DenialStops`, `PatientNeverSlowed` with two device codes that compete for one user code |
| `MCRateLimiter` | 309 614 | `SlidingWindow`, `RefusedOnlyWhenFull` and, under fairness, `IdleEvicted` |
| `MCRemoteKeySet` | 710 013 | `RejectedForCause`, `CacheNeverGoesBack` and, under fairness, `EveryCallReturns` |
| `MCEngine` | 394 336 | `DocumentTruthful` (complete, served, connected, enforced) and `DocumentOrderSafe` for the seventeen built-in plugins and an optional one, one disabled, one doubled, one store missing, two registered by hand |
| `MCAuthorize` | 461 663 | `RedirectFaithful`, `ParametersVouched`, `SilentFaithful`, `PushedLifetime`, `ResponsesSound` for four clients with different policies |
| `MCRelyingParty` | 5 036 706 | `LoginIsOwn`, `RefusedForCause`, `AcceptedIsOurs` for two browsers, two logins and three callbacks under every combination of the options |
| `MCLogout` | 2 477 556 | `LogoutTokensFindTheirWay`, `NoStrayLogout`, `LoggedOutIsOver` for two users, two clients, two logins and two logouts |
| `MCResourceAccess` | 2 804 992 | `ReplayGuarded`, `UserinfoGuarded`, `BindingKept` for two requests in flight, two proofs and a cache of one |
| `MCClientRegistry` | 1 985 786 | `RegistryAgrees`, `ServedByRight`, `GenuineNotRefused` for two clients, two management requests and one that authenticates |

Properties that belong together are conjunctions of named parts, the type invariant
among them; each part has its own comment in its module and, but for the types, its
own mutant.

Each property comes with at least one mutant in `PROJECT.json`, a form of one mapped
definition as a plausible slip would leave it (`Mut…`, just before the
definition), under which TLC finds the property violated.

**Bounds.** Every race modelled here is between two requests, so two `Procs`,
`Pollers`, `Approvers` or `Callers` suffice to have every pair of steps in every
order. Two codes for one request (a second callback) and two requests (a code
that is presented by the wrong client) are both in `MCCodeExchange`; three tokens
are the root, its refresh and the refresh of that, or two refreshes of one, in
`MCRefresh`. Scopes are two, so that there is a proper narrowing. Clocks run two
to six steps with intervals of one or two: a poll exactly at, before and after
the boundary, expiry, and an eviction between two requests all occur. In
`MCRemoteKeySet` two fetches and two changes of the key set allow a key to appear
before, during and after the fetch a caller waits for; the three provider keys
have two kids and none, and the forged key carries the kid of the first.
`Increment` and the intervals are one in `MCCibaGrant` and one in
`MCDeviceGrant`; the code's values (5 seconds each) have the same relation.

`MCEngine` disables, doubles or adds by hand the plugins that others depend on.
`MCAuthorize` has one stored and one pushed request: its properties relate a request
to its own sources and answers, never two requests to each other; the requests it
enumerates differ from a sound one in what one check looks at, or two look at
together. `MCRelyingParty` needs three callbacks so that a reload or a foreign link
comes before, between and after the answers of two logins; clocks are off by the
permitted amount and by one half second more. In `MCLogout` two logins of one user
at one client, at two clients, or of two users are all there, and a logout token may
travel shorter, as long and longer than it lives. `MCResourceAccess` has a cache of
one for two proofs, so that expiry, cleanup and eviction all meet a replay; proofs
are signed up to `LastSigned`, early enough to be repeated after they expire. In
`MCClientRegistry` the second published key is one that registration does not record,
and the first is later replaced by a third, so that recorded and fetched keys differ both
ways and a key may be withdrawn, new, or both in turn.

**Deadlock** is checked where the system always has something to do
(`TokenEndpoint`: requests with unknown codes are always possible). It is off
where a bound on the clock, on the requests or on the fetches lets the model end
while the program would go on.

**Fairness.** `CibaGrant`: a started handler is run to its end by the Go
scheduler (WF); a client polls each request over and over (SF, since a poller may
be busy whenever asked), which the protocol tells it to do until the request
expires; nobody is obliged to approve, and token creation may fail only a bounded
number of times. `RateLimiter`: the clock advances and the ticker of
`cleanupLoop` fires (WF). `RemoteKeySet`: goroutines run (WF), and a fetch ends,
with an answer or an error, because the default HTTP client of `pkg/util/http/http.go:23`
has a 30-second timeout (WF on the fetch as a whole, never on its success);
no caller need ever be cancelled. The other specifications are checked for safety
only: their handlers wait for nobody, and nothing in the code retries a lost logout
token or obliges a browser to come back.

## Proofs

Eight modules prove theorems for all values of the constants that satisfy the named
assumptions, so for any number of clients, codes, tokens, requests, goroutines and time
steps; the bounds of the runs play no part. Every inductive invariant below was checked
with TLC on the run of its component before it was proved. Together they state every
invariant and every action property that the runs check, the refinement included.

| Module | Theorems | States the runs' properties |
|---|---|---|
| `TokenEndpointProofs` | `TypeCorrect`, `LineageCorrect`, `CodeSingleUseHolds`; `RotatedIsDeadHolds`, `RevokedStaysInactiveHolds`, `ReplayRevokesTrackedHolds`, `DPoPContinuityHolds`, `SubjectStableHolds`; `RefinesCodeGrant` | `TypeOK`, `LineageFaithful`, `CodeSingleUse`; the same names without `Holds`; `ImplementsCodeGrant` |
| `DeviceGrantProofs` | `TokensNeedApprovalHolds`, `DenialStopsHolds`, `PatientNeverSlowedHolds`, `ApprovalIsOwnHolds` | `DenialStops`, `PatientNeverSlowed`, `ApprovalIsOwn` |
| `CibaGrantProofs` | `TokensNeedApprovalHolds`, `AnswersSoundHolds` | `TokensNeedApproval`, `AnswersSound` |
| `AuthorizeProofs` | `RedirectFaithfulHolds`, `ResponsesSoundHolds`, `ParametersVouchedHolds`, `SilentFaithfulHolds`, `PushedLifetimeHolds` | all of the run |
| `LogoutProofs` | `LoggedOutIsOverHolds`, `LogoutTokensFindTheirWayHolds`, `NoStrayLogoutHolds` | all of the run |
| `ClientRegistryProofs` | `RegistryAgreesHolds`, `ServedByRightHolds`, `GenuineNotRefusedHolds` | all of the run |
| its second part, on `RateLimiter` | `SlidingWindowHolds`, `RefusedOnlyWhenFullHolds` | the two invariants of the run |
| `RelyingPartyProofs` | `LoginIsOwnHolds`, `RefusedForCauseHolds`, `AcceptedIsOursHolds` | all of the run |
| its second part, on `RemoteKeySet` | `RejectedForCauseHolds`, `CacheNeverGoesBackHolds` | the invariant and the action property of the run |
| `ResourceAccessProofs` | `ReplayGuardedHolds`, `UserinfoGuardedHolds`, `BindingKeptHolds` | all of the run |
| its second part, on `Engine` | `DocumentTruthfulHolds`, `DocumentOrderSafeHolds` | all of the run |

Three proof modules have a second part about a neighbouring component: the limiter counts the
requests of the clients in the registry, the key set serves the relying party, the engine
carries the endpoints of `ResourceAccess` as plugins. They extend both, so the names that
every specification has carry a prefix in these components (`LimiterSpec`, `KeySetSpec`,
`EngineSpec`).

**Assumptions on the constants.** They stand in the modules that declare the constants,
and TLC evaluates them in every run: `Nil` and its like are none of the model's values or
records, subsets are subsets, limits and clocks are natural numbers, windows and
intervals positive (`StorageAssumption`, `ObjectAssumption`, `EndpointAssumption`,
`GrantAssumption`, `LimiterAssumption`, `DeviceAssumption`, `EntryAssumption`,
`CibaAssumption`, `RequestAssumption`, `ResourceAssumption`, `ServerAssumption`,
`EngineAssumption`). Some say more. `LogoutAssumption` numbers logins and logouts from one,
since they are drawn in order, and so does `RelyingPartyAssumption`, which also says what
the provider is (external): it signs with RS256, not with HS256, and lists RS256 if its
document lists algorithms at all. `RegistryAssumption` gives profiles and credentials their
fields, and a jwt-bearer request its assertion as credential. `KeySetAssumption` says that
two keys of the provider do not share a kid, because kids are random UUIDs
(`S/storage.go:444`, paths as below); a forged key may carry any of them. `InputAssumption` gives the parameters of `Authorize` their form (`Params`): every
input has the same fields, a URI the same parts, and a client pushes under its own
id, another registered one's, or none.

**The arguments.**

* *Token endpoint.* `TypeOK` alone is not inductive: a goroutine dereferences the request,
  token or refresh token it holds, so `TypeInv` adds that map entries lead to existing
  objects (`ObjectsExist`) and that each program counter has the pointers it needs
  (`PointersValid`). `LineageInv` states faithfulness for tokens, refresh tokens and
  goroutines alike, because each is made from another; it rests on `CodeMaps` (a code is
  in one of the two maps, and what is in `usedCodes` stays). `ExchangeInv` says that at
  most one goroutine *or* access token stands for a code.
* *Life of tokens.* `PairInv` says that an access token has at most one refresh token and
  that whoever holds one between two storage calls holds his own; without it a revocation
  could be undone by a goroutine that is about to store the refresh token. A token is
  `Dead` when it is inactive *and* no goroutine is about to do so, and `LifeInv` says
  that what was revoked or replayed is dead. `BindingInv` follows the key from the request
  through the goroutines that have passed the proof-of-possession check (not those that
  are still about to narrow scopes) to the tokens.
* *Refinement.* `RootInv` (a lineage with a refresh token has a root) makes a refreshed
  token a legal step of `CodeGrant`; one lemma per action shows which step of `CodeGrant`
  it is, or that it is none.
* *Subjects.* `SubjectStableHolds` has two hypotheses, and both are needed: the login form
  overwrites the user of a completed request (`LoginForm`), and the subject of a pairwise
  client is transformed again at every refresh.
* *Device grant.* `CleanupExpired` deletes an entry with the user code it names, so the
  type invariant needs `CodesLead`, the way back. `ApprovalInv` follows the approver from
  the entry to the copy a poll works on to the token. `DenialInv` counts: tokens issued
  and polls in flight together stay within the budget of the denial. `PatientInv` says
  that a patient device has one poll at a time, whose predecessor was answered after
  `lastPoll`; it needs `PollInterval <= Advertised`, which is where the token endpoint and
  the device endpoint have to agree. `UniqueInv` needs authorizations one at a time
  (`SerialAuthorization`), because a code is looked up in one lock section and stored in
  another; `TokensNeedApprovalHolds` needs neither.
* *CIBA.* `ApprovalInv` follows the approval through the stored status and the locals of
  both kinds of handler. `SpacedInv` speaks of requests whose polls have not overlapped:
  one handler at a time works on such a request, and the stored time is the last pending
  answer's.
* *Authorization.* `StoreInv` says of every stored and pushed request what validation has
  established, with the source of each parameter, and `OutInv` the same of the last answer.
  The callbacks only copy parameters of a stored request into an answer, so
  faithfulness of the answer is faithfulness of the store. The lemmas about operators
  (`RedirectRegistered` and those after it) say what passing the checks establishes.
* *Logout.* `CountInv` ties a session's age to the number of completed logouts; `DeadInv`
  adds to "has no token" that the login is not refreshing, or the next step would undo it.
  `TellInv` speaks of a login that is the only one of its user at its client, since
  another one takes its record: its record lasts until a logout has read it, and then
  it has been told, is being told, or the message was lost.
* *Bound tokens.* `CachedOK` says why a proof that was accepted and is no longer in the
  cache may be gone: evicted, accepted early, or too old to be fresh. That the
  eviction makes room needs the existence of a cutoff among finitely many times
  (`CutoffExists`), obtained from the least-element principle (`Least`).
* *Limiters.* `LimiterInv` says that a bucket holds at least the admitted requests that
  are still alive and that history is finite, numbered and not in the future. A new
  window ending now is therefore counted by `Valid`; windows ending earlier do not change;
  windows ending later hold no more than the one ending now.
* *Registry.* `RegistryAgrees` is inductive with the types, because update and delete look
  again under the lock. For the requests, `CallOK` says for each program counter what the
  steps before it have established: who the credential belongs to, whether the recorded
  keys were used, that a deleted client is not past its lookup. That a withdrawn key stays
  withdrawn holds because a client changes its document once.
* *Relying party.* `JarOK` says that the cookies of a browser belong to one login that
  this browser began, `ReqOK` what a callback has passed, `CookieKept` where the state
  cookie of a login may have gone: overwritten by another login of the same browser or
  taken by a callback of its own. `InOrder` (callbacks begin in the order of their numbers)
  turns "has been brought" into "has been brought before". The lemmas about
  tokens take each kind of answer through the verifier.
* *Key set.* `FetchInv` says that a fetch in progress is the one in flight and is not older
  than the cache, and that the published keys a fetch lacks are later than its answer; so
  the cache only moves forward. `CallInv` ties a waiting call to a fetch that was not over
  when the call began. The lemmas about `FindMatchingKey` say that a key whose kid nobody
  else of the provider's has is found whenever it is in the set.
* *Engine.* `RouterInv` says that every path of a plugin is served by it or by a later
  plugin with that endpoint; `HookInv` that the connections are between the last plugins of
  their names as long as nobody came after `Build`; `BuiltInv` what `Validate` and the loop
  over the middleware have established; `SortedInv` that what is left to register has no
  smaller priority than what is registered. `Document` and `Layers` are loops over the
  plugins, and what they compute is shown by a least counterexample: were there a plugin
  after which the claim fails, there would be a first one (`Least`), and one step of
  the loop refutes it.

**What the proofs changed.** The history of `ClientRegistry` called a key withdrawn when it
was not in the client's document *at the time of the request*; with a document that brings
a new key, a request could come with that key just before the change and rightly be served
just after, which `WithdrawnKeyRefused` forbade. The run had too few keys to show it. A key
is now withdrawn when it was published and is no longer (`Withdrawn`), and the run has a
third key. `KeySetAssumption` did not say that kids are distinct, without which a genuine
token can meet another key of the provider under its kid.

**Only model-checked.** Liveness (`ApprovedIsServed`, `IdleEvicted`, `EveryCallReturns`),
because the prover does not reason about fairness.

**Written for the prover.** In `Authorize` and `Verifier` an empty parameter or claim is
`Absent`, in `Engine` the path or URL that was not configured is `"default"`, and the words of
a response type are joined by `+`, because the SMT translation accepts neither an empty
string nor one with a space. For the same reason `Engine` has `Overridden` and recursive
functions in the place of `@@` and folds. Guards of a `CASE` that can hold together choose
arbitrarily in TLA+ and the first in TLC; where a property depends on the code's order, the
definitions say so with `IF` or guards that exclude each other, and elsewhere no theorem
depends on which of two refusals is named.

## Where code and text disagree

The models follow the code. Where a comment, a document or an option says something
else, the properties above state what the code does achieve, and the difference is
listed here. In the paths, `P` is `src/pkg/storm/plugins` and `S` is
`src/example/storm-server/storage`.

**Codes and tokens**

* The revocation endpoint decrypts an opaque access token without base64-decoding it
  (`P/revocation/revocation.go:200` against `P/token/token.go:1810`): nothing is found
  and the token stays active after a 200, though `revocation.go:3-4` says "allowing
  clients to invalidate access tokens and refresh tokens".
* The pairwise transformation is applied again at each refresh
  (`P/token/util.go:193`), so `sub` changes; `src/pkg/storm/storage.go:386-387` says "The
  returned RefreshTokenRequest carries the original subject".
* Two concurrent refreshes with one refresh token both succeed (`S/token_store.go:45`);
  `P/token/types.go:73-76` says the storage "can atomically invalidate it".
* A replay detected between issuing and recording a token revokes nothing
  (`P/token/token.go:437`), and a refreshed token survives the replay of its code;
  `src/pkg/storm/storage.go:339-341` says all tokens issued from the code are revoked.
* Revoking a refresh token leaves access tokens obtained with it later
  (`storage.go:534-535`).
* A narrowed scope is written back to the shared refresh token before the proof of
  possession is checked (`P/token/util.go:91`).

**CIBA and device grant**

* Two concurrent polls of an approved CIBA request both get tokens
  (`P/token/token.go:1279`); `src/pkg/protocol/ciba.go:117` says "auth_req_id cannot be
  reused". The approval page's second write can turn a consumed request back into an
  approved one. The first `slow_down` does not lengthen the interval, which starts at
  zero.
* The token endpoint ignores the per-client interval that the device endpoint
  advertises (`P/token/token.go:1075` against `P/device/device.go:147-151`).
* Two concurrent device authorizations may store one user code (`P/device/util.go:82`);
  `ApprovalIsOwn` is checked and proved for one authorization at a time.

**Engine**

* Core plugins can be disabled, although `engine.go:193-195` says they cannot; the
  factories of the built-in plugins panic on a missing store instead of declining.
* Two plugins on one path are not detected (`engine.go:490-491`, `:504` and
  `validate.go:18` say they are); the last one registered serves.
* `connectDPoPNonceSender` never finds a token plugin, because the interface it asks for
  has an anonymous parameter type (`engine.go:710-714` against `P/token/token.go:118`).
* mtls aliases four endpoints whether or not their plugins are registered
  (`P/mtls/mtls.go:55-61`); the rate limiter runs inside the plugins' middleware
  (`engine.go:543`).

**Authorization**

* An expired `id_token_hint` is refused although the code means to accept it: the test
  with `errors.As` names a value where the verifier returns a pointer
  (`P/authorization/request_object.go:133-136`, `src/pkg/protocol/verifier.go:572`).
* `prompt=consent` and `select_account` do not keep a request with `max_age` from being
  completed silently (`P/authorization/handler.go:364-396`); `prompt=none` does not look
  at `max_age`; the silent `max_age` path does not look at the hint.
* `expires_in` of a push ignores the client's own lifetime (`P/par/par.go:243` against
  `:228-233`), a `request_uri` is reusable until it expires, and its binding compares
  the client that the query names (`request_object.go:66-68`).
* Errors of hybrid and implicit requests do not travel in the mode of their success,
  and hybrid responses ignore `response_mode` and JARM (`P/authorization/util.go:191-195`).
* A rejected request can still be accepted afterwards.
* A FAPI client's request object sent by value is refused (`handler.go:188-205`).

**Relying party and verifiers**

* `Offset` shortens a token's life as well as allowing for a slow clock.
* A late answer to one login deletes the cookies of a newer one
  (`src/pkg/client/rp/relying_party.go:675`), which `RefusedForCause` therefore admits.
* Without an algorithm list every algorithm of the key set is accepted
  (`src/pkg/protocol/verifier.go:427-430`), while `src/pkg/client/rp/verifier.go:189` speaks of
  "the default RS256 signing algorithm".
* PKCE uses S256 also where the provider offers only `plain`.
* The client assertion that `src/pkg/client/client.go:231-241` makes has an array as
  audience, which `VerifyJWTAssertion` (`verifier.go:636-643`) refuses; introspection and
  revocation name no audience at all (`shared/clientauth.go:126`) and refuse every
  assertion.

**Logout**

* One session id is kept per user and client, so an earlier session of the same user at
  the same client is not told (`S/session.go:88`, `P/backchannel/backchannel.go:142-143`).
* A logout without a hint ends nothing, though the page says so; `TerminateSession` ends
  the tokens of one client and the login sessions of all.
* A refresh that runs across a logout leaves its new tokens behind.

**Bound tokens**

* A proof dated in the future is acceptable for twice `MaxProofAge` and remembered for
  once (`P/dpop/dpop.go:208`); its age is checked before the lock; a full cache forgets
  fresh proofs (`:155`), all of them when their times are equal. `ReplayGuarded` names
  the three excuses.
* Token exchange issues unbound tokens whatever is required (`P/token/token.go:907`).
* Expired opaque tokens are still served (`storage.go:525-526`); introspection through a
  refresh token drops `cnf`; a signed userinfo answer falls back to JSON when the token
  goes away meanwhile.

**Client registry**

* An update checks nothing of what registration checks and takes over the redirect URIs
  and the login URI only; only the keys up to the first without a use are recorded
  (`S/dcr.go:74-75`).
* A jwks_uri that cannot be fetched leaves the recorded keys in force, withdrawn or not;
  the jwt-bearer grant always uses the recorded ones, authenticates no client and accepts
  its assertion again.
* A deleted client's tokens live on; token exchange accepts revoked and expired ones.
* `tls_client_auth` without a registered name accepts any certificate
  (`S/client.go:133-135`).

## What is not modelled

* Cryptography, JSON and JWT formats, WebFinger, error rendering, logging and telemetry:
  values and formats, without control that the properties could tell apart.
* Engine: key strength and production safety checks, custom factories.
* Authorization: redirect URI globs, the `AuthorizeValidator` hook, failing storage calls.
* Token endpoint: JWT access tokens, ID token contents, actor tokens, ID and refresh
  tokens as subject tokens; the eviction of the per-client rate buckets, which the code
  does not have.
* CIBA: hint resolution, the signed request object, user codes and the CSRF cookie.
* Relying party: `RefreshTokens`, `EndSession`, `RevokeToken`, client credentials, device
  polling, the request signer, failures of the cookie encoding; the resource server and
  token exchange clients, one HTTP call each.
* Remote key set: the GM/T keys with their own lookup. Whether one ever reaches the cache
  depends on how the JWX library treats a key set with a curve it does not know, and no
  test of the repository exercises it.
* DPoP: server nonces, since the token endpoint never gets its nonce sender.
* Registration: the sector identifier document.
* Claims, consent and user data: what userinfo and ID tokens contain.

## Plan

Model and proofs are complete as planned: every safety property of the runs is a theorem.
What could be added:

1. liveness proofs, should the prover come to reason about fairness;
2. the parts of the relying party that are one HTTP call each, when they get state of their
   own (refreshing, device polling);
3. server nonces of DPoP, once the token endpoint gets its nonce sender.
