---------------------------- MODULE RemoteKeySet ----------------------------
(***************************************************************************)
(* The relying party's view of the provider's signing keys: remoteKeySet   *)
(* verifies a token with its cached keys and, when these cannot decide,    *)
(* loads the provider's JWK set, one fetch shared by everybody who waits.  *)
(*                                                                         *)
(* Callers are goroutines inside VerifySignature.  r.mu guards the cache   *)
(* and the inflight pointer, so reading the cache, joining the fetch and   *)
(* updateKeys' last section are steps of their own; in between the         *)
(* provider rotates its keys and contexts are cancelled.  An inflight      *)
(* object outlives the pointer to it: fetches have numbers.                *)
(*                                                                         *)
(* A signature verifies with the key that made it and with no other.  Keys *)
(* are those of one key type; the GM/T keys have a lookup of their own.    *)
(***************************************************************************)
EXTENDS Integers, Sequences, FiniteSets, FiniteSetsExt, Functions

CONSTANTS
  Callers,          \* concurrent calls of VerifySignature
  Keys,             \* signing keys, the provider's and others
  Foreign,          \* keys the provider never has
  FirstKey,         \* the key the provider starts with
  Kids,             \* key ids
  Kid,              \* the key id of each key (Nil: none)
  SkipRemoteCheck,  \* the option of NewRemoteKeySet
  MaxChanges,       \* bound: changes of the published key set
  MaxFetches,       \* bound: fetches
  Nil

\* The kids of the provider's own keys are drawn at random.
ASSUME KeySetAssumption ==
  /\ Nil \notin Callers \cup Keys \cup Kids \cup Int
  /\ Foreign \subseteq Keys
  /\ FirstKey \in Keys \ Foreign
  /\ Kid \in [Keys -> Kids \cup {Nil}]
  /\ \A k, l \in Keys \ Foreign : Kid[k] = Kid[l] /\ Kid[k] # Nil => k = l
  /\ SkipRemoteCheck \in BOOLEAN
  /\ MaxChanges \in Nat /\ MaxFetches \in Nat

VARIABLES
  published,  \* the provider's key set, newest key first
  version,    \* history: number of the published key set
  firstPub,   \* history: the version that first held each key (Nil: none yet)
  cached,     \* r.cachedKeys (<<>>: empty)
  cachedVer,  \* history: the version the cache holds
  inflight,   \* r.inflight: the number of the running fetch, or Nil
  fetches,    \* the inflight objects, in the order of their creation
  call        \* the callers: where they stand and their locals

keySetVars == <<published, version, firstPub, cached, cachedVer, inflight, fetches, call>>

Versions == 0..MaxChanges
KeySets == {s \in UNION {[1..n -> Keys \ Foreign] : n \in 0..MaxChanges + 1} :
              \A i, j \in DOMAIN s : s[i] = s[j] => i = j}

\* A token: who signed it and the kid in its header.
Token == [signer : Keys, kid : Kids \cup {Nil}]

\* An inflight object with the state of its updateKeys goroutine.  from, ver and
\* until are history: the versions when it was created, answered and done.
Fetch == [state : {"sent", "answered", "done"}, err : BOOLEAN, keys : KeySets,
          from : Versions, ver : Versions, until : Versions]

\* A call; since is history: the version when it began.
IdleCall == [pc |-> "idle", token |-> Nil, fetch |-> Nil, since |-> 0]

KeySetTypeOK ==
  /\ published \in KeySets
  /\ version \in Versions
  /\ firstPub \in [Keys -> Versions \cup {Nil}]
  /\ cached \in KeySets
  /\ cachedVer \in Versions \cup {-1}
  /\ Len(fetches) <= MaxFetches
  /\ \A f \in DOMAIN fetches : fetches[f] \in Fetch
  /\ inflight \in DOMAIN fetches \cup {Nil}
  /\ \A c \in Callers :
       /\ call[c].pc \in {"idle", "join", "wait", "rejected", "mismatch"}
       /\ call[c].token \in Token \cup {Nil}
       /\ call[c].fetch \in DOMAIN fetches \cup {Nil}
       /\ call[c].since \in Versions

KeySetInit ==
  /\ published = <<FirstKey>>
  /\ version = 0
  /\ firstPub = [k \in Keys |-> IF k = FirstKey THEN 0 ELSE Nil]
  /\ cached = <<>>
  /\ cachedVer = -1
  /\ inflight = Nil
  /\ fetches = <<>>
  /\ call = [c \in Callers |-> IdleCall]

-----------------------------------------------------------------------------
(* The provider *)

\* RotateSigningKey prepends a new key and keeps the old ones.
RotateSigningKey(k) ==
  /\ version < MaxChanges
  /\ k \notin Foreign
  /\ firstPub[k] = Nil
  /\ published' = <<k>> \o published
  /\ firstPub' = [firstPub EXCEPT ![k] = version + 1]
  /\ version' = version + 1
  /\ UNCHANGED <<cached, cachedVer, inflight, fetches, call>>

\* Another provider may also retire its oldest key.
RetireKey ==
  /\ version < MaxChanges
  /\ Len(published) > 1
  /\ published' = SubSeq(published, 1, Len(published) - 1)
  /\ version' = version + 1
  /\ UNCHANGED <<firstPub, cached, cachedVer, inflight, fetches, call>>

-----------------------------------------------------------------------------
(* VerifySignature *)

\* Mutant: several candidates are an error even if one has the token's kid.
MutFindMatchingKey(kid, keys) ==
  LET exact == {i \in DOMAIN keys : kid # Nil /\ Kid[keys[i]] = kid}
      loose == {i \in DOMAIN keys : kid = Nil \/ Kid[keys[i]] = Nil}
  IN IF Cardinality(exact \cup loose) = 1 THEN keys[Min(exact \cup loose)] ELSE Nil

\* FindMatchingKey: the first key with the token's kid; otherwise the only key
\* for which one of the two kids is missing; otherwise none (or ErrKeyMultiple).
FindMatchingKey(kid, keys) ==
  LET exact == {i \in DOMAIN keys : kid # Nil /\ Kid[keys[i]] = kid}
      loose == {i \in DOMAIN keys : kid = Nil \/ Kid[keys[i]] = Nil}
  IN CASE exact # {} -> keys[Min(exact)]
       [] exact = {} /\ Cardinality(loose) = 1 -> keys[Min(loose)]
       [] OTHER -> Nil

exactMatch(jwkID, jwsID) ==
  IF jwkID = Nil /\ jwsID = Nil THEN SkipRemoteCheck ELSE jwkID = jwsID

\* Where verifySignatureCached leads.  A caller that got its payload, or an error
\* that says nothing about the token, is idle again.
CachedVerdict(token) ==
  LET k == FindMatchingKey(token.kid, cached) IN
  CASE k = token.signer -> "idle"
    [] k \notin {Nil, token.signer} /\ exactMatch(Kid[k], token.kid) -> "mismatch"
    [] OTHER -> "join"

\* The caller ends up at pc; what it needs no longer is forgotten.
Ends(c, pc) == IF pc = "idle" THEN IdleCall ELSE [call[c] EXCEPT !.pc = pc]

\* There is a fetch left for every caller that may still start one.
Room == Len(fetches) + Cardinality({c \in Callers : call[c].pc = "join"}) < MaxFetches

\* A call begins and looks at the cache, without finding the key of the token.
VerifySignatureCached(c, token) ==
  /\ call[c].pc = "idle"
  /\ Room
  /\ CachedVerdict(token) # "idle"
  /\ call' = [call EXCEPT ![c] = [pc |-> CachedVerdict(token), token |-> token,
                                  fetch |-> Nil, since |-> version]]
  /\ UNCHANGED <<published, version, firstPub, cached, cachedVer, inflight, fetches>>

\* Mutant: the inflight pointer is not looked at.
MutStartFetch(c) ==
  /\ call[c].pc = "join"
  /\ Len(fetches) < MaxFetches
  /\ fetches' = Append(fetches, [state |-> "sent", err |-> FALSE, keys |-> <<>>,
                                 from |-> version, ver |-> 0, until |-> 0])
  /\ inflight' = Len(fetches) + 1
  /\ call' = [call EXCEPT ![c].pc = "wait", ![c].fetch = Len(fetches) + 1]
  /\ UNCHANGED <<published, version, firstPub, cached, cachedVer>>

\* keysFromRemote when nothing is in flight: a new fetch, under the context of
\* this caller.
StartFetch(c) ==
  /\ call[c].pc = "join"
  /\ inflight = Nil
  /\ Len(fetches) < MaxFetches
  /\ fetches' = Append(fetches, [state |-> "sent", err |-> FALSE, keys |-> <<>>,
                                 from |-> version, ver |-> 0, until |-> 0])
  /\ inflight' = Len(fetches) + 1
  /\ call' = [call EXCEPT ![c].pc = "wait", ![c].fetch = Len(fetches) + 1]
  /\ UNCHANGED <<published, version, firstPub, cached, cachedVer>>

\* keysFromRemote when a fetch is in flight, whenever it was sent.
JoinFetch(c) ==
  /\ call[c].pc = "join"
  /\ inflight # Nil
  /\ call' = [call EXCEPT ![c].pc = "wait", ![c].fetch = inflight]
  /\ UNCHANGED <<published, version, firstPub, cached, cachedVer, inflight, fetches>>

\* select: the caller's context is done (its own client went away).
GiveUp(c) ==
  /\ call[c].pc = "wait"
  /\ call' = [call EXCEPT ![c] = IdleCall]
  /\ UNCHANGED <<published, version, firstPub, cached, cachedVer, inflight, fetches>>

\* Mutant: a caller that finds its key missing in the result waits for it.
MutRemoteVerdict(c) ==
  LET f == fetches[call[c].fetch]
      k == FindMatchingKey(call[c].token.kid, f.keys)
  IN IF f.err \/ k = call[c].token.signer THEN "idle" ELSE "wait"

\* verifySignatureRemote with the result of the fetch.
RemoteVerdict(c) ==
  LET f == fetches[call[c].fetch]
      k == FindMatchingKey(call[c].token.kid, f.keys)
  IN IF f.err \/ k = call[c].token.signer THEN "idle" ELSE "rejected"

\* select: the fetch is done.
VerifySignatureRemote(c) ==
  /\ call[c].pc = "wait"
  /\ fetches[call[c].fetch].state = "done"
  /\ call' = [call EXCEPT ![c] = Ends(c, RemoteVerdict(c))]
  /\ UNCHANGED <<published, version, firstPub, cached, cachedVer, inflight, fetches>>

\* The caller is served and the goroutine calls again some time.
Return(c) ==
  /\ call[c].pc \in {"rejected", "mismatch"}
  /\ call' = [call EXCEPT ![c] = IdleCall]
  /\ UNCHANGED <<published, version, firstPub, cached, cachedVer, inflight, fetches>>

-----------------------------------------------------------------------------
(* updateKeys *)

\* The provider answers with the key set of this moment.
Serve(f) ==
  /\ fetches[f].state = "sent"
  /\ fetches' = [fetches EXCEPT ![f].state = "answered", ![f].keys = published,
                                ![f].ver = version]
  /\ UNCHANGED <<published, version, firstPub, cached, cachedVer, inflight, call>>

\* Mutant: the inflight pointer is not cleared.
MutFetchSucceeds(f) ==
  /\ fetches[f].state = "answered"
  /\ cached' = fetches[f].keys
  /\ cachedVer' = fetches[f].ver
  /\ fetches' = [fetches EXCEPT ![f].state = "done", ![f].until = version]
  /\ UNCHANGED <<published, version, firstPub, inflight, call>>

\* The answer is parsed; cache, waiters and pointer in one lock section.
FetchSucceeds(f) ==
  /\ fetches[f].state = "answered"
  /\ cached' = fetches[f].keys
  /\ cachedVer' = fetches[f].ver
  /\ fetches' = [fetches EXCEPT ![f].state = "done", ![f].until = version]
  /\ inflight' = Nil
  /\ UNCHANGED <<published, version, firstPub, call>>

\* Mutant: the keys of a failed fetch, none, go into the cache.
MutFetchFails(f) ==
  /\ fetches[f].state \in {"sent", "answered"}
  /\ cached' = <<>>
  /\ cachedVer' = -1
  /\ fetches' = [fetches EXCEPT ![f].state = "done", ![f].until = version,
                                ![f].err = TRUE, ![f].keys = <<>>]
  /\ inflight' = Nil
  /\ UNCHANGED <<published, version, firstPub, call>>

\* The network, the 30-second timeout, the parser or the cancelled context of
\* the caller that started the fetch: the cache stays.
FetchFails(f) ==
  /\ fetches[f].state \in {"sent", "answered"}
  /\ fetches' = [fetches EXCEPT ![f].state = "done", ![f].until = version,
                                ![f].err = TRUE, ![f].keys = <<>>]
  /\ inflight' = Nil
  /\ UNCHANGED <<published, version, firstPub, cached, cachedVer, call>>

-----------------------------------------------------------------------------
\* The provider's tokens carry the kid of their key or none, a foreign key claims
\* the kid of one of the provider's.
Tokens == {t \in Token : \/ t.kid = Kid[t.signer]
                         \/ t.kid = Nil /\ t.signer \notin Foreign}

ProviderStep == RetireKey \/ \E k \in Keys : RotateSigningKey(k)

CallStep(c) ==
  \/ \E t \in Tokens : VerifySignatureCached(c, t)
  \/ StartFetch(c)
  \/ JoinFetch(c)
  \/ GiveUp(c)
  \/ VerifySignatureRemote(c)
  \/ Return(c)

UpdateKeys(f) == Serve(f) \/ FetchSucceeds(f) \/ FetchFails(f)

KeySetNext ==
  \/ ProviderStep
  \/ \E c \in Callers : CallStep(c)
  \/ \E f \in DOMAIN fetches : UpdateKeys(f)

\* Goroutines that can run do run, and a fetch ends one way or the other: the
\* HTTP client has a timeout.  Nobody's context need ever be cancelled.
Fairness ==
  /\ \A c \in Callers : /\ WF_keySetVars(StartFetch(c) \/ JoinFetch(c))
                         /\ WF_keySetVars(VerifySignatureRemote(c))
  /\ \A f \in 1..MaxFetches : WF_keySetVars(f \in DOMAIN fetches /\ UpdateKeys(f))

KeySetSpec == KeySetInit /\ [][KeySetNext]_keySetVars
FairSpec == KeySetSpec /\ Fairness

-----------------------------------------------------------------------------
(* Properties *)

\* inflight "suppresses parallel execution of updateKeys": whatever callers come,
\* give up or come back, no two fetches run at the same time.
SingleFlight == Cardinality({f \in DOMAIN fetches : fetches[f].state # "done"}) <= 1

\* The cache never returns to an older key set, and a failed fetch does not lose
\* what it held.
CacheNeverGoesBack == [][cachedVer' >= cachedVer]_keySetVars

\* A genuine token that names its key is turned away for want of that key only if
\* the key was published after the fetch was begun, or has been retired; no other
\* key in the set or in the cache gets in its way.
GenuineTurnedAway ==
  \A c \in Callers :
    /\ call[c].pc \in {"rejected", "mismatch"}
    /\ call[c].token.kid # Nil
    /\ call[c].token.signer \notin Foreign
    => /\ call[c].pc = "rejected"
       /\ \/ call[c].token.signer \notin Range(published)
          \/ firstPub[call[c].token.signer] > fetches[call[c].fetch].from

\* No token is rejected on the word of a fetch that was over before the call
\* began: the stalest answer a caller gets is that of the fetch in flight.
RejectedByFreshKeys ==
  \A c \in Callers :
    call[c].pc = "rejected" => fetches[call[c].fetch].until >= call[c].since

\* Whoever has to wait for the provider's keys gets an answer.
EveryCallReturns ==
  \A c \in Callers :
    call[c].pc \in {"join", "wait"} ~> call[c].pc \notin {"join", "wait"}

\* Whoever is rejected is rejected for a reason that holds: by keys from the one
\* shared fetch, not older than the call, and never for a missing key that the
\* provider had published when the fetch began.
RejectedForCause == KeySetTypeOK /\ SingleFlight /\ RejectedByFreshKeys /\ GenuineTurnedAway
=============================================================================
