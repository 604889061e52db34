---------------------------- MODULE RateLimiter ----------------------------
(***************************************************************************)
(* The two sliding-window limiters: storm.RateLimiter in front of every    *)
(* route, one bucket per client IP, and the token endpoint's               *)
(* checkClientRateLimit, one bucket per client that sets a limit.  Both    *)
(* run the same code under a mutex; only the first evicts idle buckets.    *)
(* A timestamp is paired with the number of its request, as two requests   *)
(* of the same instant are two list elements.                              *)
(***************************************************************************)
EXTENDS Integers, FiniteSets

CONSTANTS
  Keys,         \* client IPs and clients with MaxTokenRequests > 0
  Evictable,    \* the client IPs: keys of RateLimiter.buckets
  Limit,        \* requests per window, per key
  Window,       \* sliding window, per key
  MaxArrival,   \* bound: requests arrive until then
  MaxNow,       \* bound: the clock stops here
  MaxRequests   \* bound: requests admitted in all

ASSUME LimiterAssumption ==
  /\ Evictable \subseteq Keys
  /\ Limit \in [Keys -> Nat]
  /\ Window \in [Keys -> Nat \ {0}]
  /\ MaxArrival \in Nat /\ MaxNow \in Nat /\ MaxRequests \in Nat

VARIABLES
  now,       \* the wall clock
  known,     \* the keys of the maps
  buckets,   \* the timestamps of each key ({} for a key not in its map)
  stopped,   \* stopCh is closed
  admitted,  \* history: every admitted request
  refused    \* history: when requests were refused

limiterVars == <<now, known, buckets, stopped, admitted, refused>>

Time == 0..MaxNow
Requests == [id : Nat, at : Time]

LimiterTypeOK ==
  /\ now \in Time
  /\ known \subseteq Keys
  /\ buckets \in [Keys -> SUBSET Requests]
  /\ \A k \in Keys \ known : buckets[k] = {}
  /\ stopped \in BOOLEAN
  /\ admitted \in [Keys -> SUBSET Requests]
  /\ refused \in [Keys -> SUBSET Time]

LimiterInit ==
  /\ now = 0
  /\ known = {}
  /\ buckets = [k \in Keys |-> {}]
  /\ stopped = FALSE
  /\ admitted = [k \in Keys |-> {}]
  /\ refused = [k \in Keys |-> {}]

Tick ==
  /\ now < MaxNow
  /\ now' = now + 1
  /\ UNCHANGED <<known, buckets, stopped, admitted, refused>>

\* Mutant: a timestamp exactly one window old still counts.
MutAlive(r, k) == r.at >= now - Window[k]

\* ts.After(cutoff)
Alive(r, k) == r.at > now - Window[k]

Valid(k) == {r \in buckets[k] : Alive(r, k)}

\* The next request of key k; only admitted ones are counted.
Fresh(k) == [id |-> Cardinality(admitted[k]), at |-> now]

\* Allow and checkClientRateLimit: there is room.
Admit(k) ==
  /\ now <= MaxArrival
  /\ Cardinality(admitted[k]) < MaxRequests
  /\ Cardinality(Valid(k)) < Limit[k]
  /\ known' = known \cup {k}
  /\ buckets' = [buckets EXCEPT ![k] = Valid(k) \cup {Fresh(k)}]
  /\ admitted' = [admitted EXCEPT ![k] = @ \cup {Fresh(k)}]
  /\ UNCHANGED <<now, stopped, refused>>

\* Allow and checkClientRateLimit: the window is full.  The bucket is created
\* and pruned all the same.
Refuse(k) ==
  /\ now <= MaxArrival
  /\ Cardinality(Valid(k)) >= Limit[k]
  /\ known' = known \cup {k}
  /\ buckets' = [buckets EXCEPT ![k] = Valid(k)]
  /\ refused' = [refused EXCEPT ![k] = @ \cup {now}]
  /\ UNCHANGED <<now, stopped, admitted>>

\* Mutant: one expired timestamp makes a bucket idle.
MutIdleKey(k) == k \in known /\ \E r \in buckets[k] : ~Alive(r, k)

\* No timestamp of the bucket is within the window.
IdleKey(k) == k \in known /\ \A r \in buckets[k] : ~Alive(r, k)

\* Mutant: an idle bucket is emptied but stays in the map.
MutCleanup ==
  LET idle == {k \in Evictable : IdleKey(k)} IN
  /\ ~stopped
  /\ idle # {}
  /\ buckets' = [k \in Keys |-> IF k \in idle THEN {} ELSE buckets[k]]
  /\ UNCHANGED <<now, known, stopped, admitted, refused>>

\* One round of cleanupLoop, under the lock.
Cleanup ==
  LET idle == {k \in Evictable : IdleKey(k)} IN
  /\ ~stopped
  /\ idle # {}
  /\ known' = known \ idle
  /\ buckets' = [k \in Keys |-> IF k \in idle THEN {} ELSE buckets[k]]
  /\ UNCHANGED <<now, stopped, admitted, refused>>

\* Stop ends cleanupLoop; Allow goes on working.
Stop ==
  /\ ~stopped
  /\ stopped' = TRUE
  /\ UNCHANGED <<now, known, buckets, admitted, refused>>

LimiterNext ==
  \/ Tick
  \/ \E k \in Keys : Admit(k) \/ Refuse(k)
  \/ Cleanup
  \/ Stop

LimiterSpec == LimiterInit /\ [][LimiterNext]_limiterVars

\* The clock runs and the ticker of cleanupLoop fires again and again.
FairSpec == LimiterSpec /\ WF_limiterVars(Tick) /\ WF_limiterVars(Cleanup)

-----------------------------------------------------------------------------
(* Properties *)

\* The admitted requests of key k in the window that ends at t.
InWindow(k, t) == {r \in admitted[k] : t - Window[k] < r.at /\ r.at <= t}

\* However requests, prunings, evictions and the clock interleave, no window of
\* the configured length, wherever it ends, holds more admitted requests of a
\* key than its limit.
SlidingWindow ==
  \A k \in Keys, t \in Time : Cardinality(InWindow(k, t)) <= Limit[k]

\* A request is refused only when the window that ends with it is full: neither
\* an old timestamp nor a refused request uses up a slot.
RefusedOnlyWhenFull ==
  \A k \in Keys : \A t \in refused[k] : Cardinality(InWindow(k, t)) >= Limit[k]

\* Unless it was stopped, the limiter forgets every IP that falls silent, so its
\* map does not grow with every address ever seen.
IdleEvicted == \A k \in Evictable : <>[](stopped \/ k \notin known)
=============================================================================
