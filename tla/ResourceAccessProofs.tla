------------------------ MODULE ResourceAccessProofs ------------------------
(***************************************************************************)
(* Theorems about ResourceAccess: for any number of requests in flight,    *)
(* proofs, tokens and clients, and a replay cache of any size; and, in the *)
(* second part, about the engine that carries these endpoints.             *)
(***************************************************************************)
EXTENDS ResourceAccess, Engine, Sequences, FiniteSetTheorems, NaturalsInduction, WellFoundedInduction, TLAPS

-----------------------------------------------------------------------------
(* The invariant.                                                          *)

\* A request before and after its proof of possession has been looked at.
Waiting == [pc : {"record", "token", "userinfo"}, target : Targets, jti : Jtis \cup {Nil},
            cert : Certs \cup {Nil}, token : Tokens \cup {Nil}, parsed : Nat \cup {Nil}, revoked : BOOLEAN]

Serving == [pc : {"claims", "format", "sign"}, token : Tokens, revoked : BOOLEAN, holder : BOOLEAN]

Shape ==
    /\ now \in 0..MaxTime
    /\ proofs \in [Jtis -> Proof \cup {Nil}]
    /\ usedNonces \in [Jtis -> Nat \cup {Nil}]
    /\ tokData \in [Tokens -> Token \cup {Nil}]
    /\ tokens \subseteq Known(tokData) /\ refreshable \subseteq Known(tokData)
    /\ req \in [Procs -> {Idle} \cup Waiting \cup Serving]
    /\ accepted \in [Jtis -> BOOLEAN \cup {Nil}]

\* A waiting request brings a proof that was signed for its endpoint, and one that was
\* fresh when it was parsed; a token deleted before it came is not stored again.
WaitingOK(r) ==
    /\ r.jti # Nil => proofs[r.jti] # Nil /\ proofs[r.jti].target = r.target
    /\ r.pc = "record" => /\ r.jti # Nil /\ r.parsed \in 0..now
                          /\ r.parsed - proofs[r.jti].iat <= MaxProofAge
    /\ r.pc # "record" => r.pc = r.target
    /\ r.target = "userinfo" => r.token \in Known(tokData)
    /\ r.revoked => r.token \in Known(tokData) \ tokens

\* A request past the check of the binding has proved possession, of a token not deleted before it.
ServingOK(r) == r.token \in Known(tokData) /\ r.holder /\ ~r.revoked

\* A proof in the cache was recorded no earlier than it was issued, unless it was
\* accepted early; one that was accepted and is gone has an excuse.
CachedOK(j) ==
    /\ j \in Known(usedNonces) =>
           /\ proofs[j] # Nil /\ accepted[j] # Nil /\ usedNonces[j] <= now
           /\ ~accepted[j] => proofs[j].iat <= usedNonces[j]
    /\ accepted[j] # Nil =>
           /\ proofs[j] # Nil
           /\ \/ j \in Known(usedNonces) \/ j \in evicted \/ accepted[j]
              \/ now - proofs[j].iat > MaxProofAge

AccessInv ==
    /\ Shape
    /\ \A p \in Procs : /\ req[p] \in Waiting => WaitingOK(req[p])
                        /\ req[p] \in Serving => ServingOK(req[p])
    /\ \A j \in Jtis : CachedOK(j)
    /\ Cardinality(Known(usedNonces)) <= maxNonceCacheSize

AnswerInv ==
    /\ ReplayNeedsExcuse /\ HolderOfKey /\ RevokedNotServed /\ SignedUnlessRevoked /\ RequiredMeansBound

-----------------------------------------------------------------------------
(* The replay cache.                                                       *)

\* Every set of natural numbers that is not empty has a least element.
LEMMA Least ==
  ASSUME NEW T \in SUBSET Nat, T # {}
  PROVE  \E x \in T : \A y \in T : x <= y
<1> DEFINE R == OpToRel(<, Nat)
<1>1. IsWellFoundedOn(R, Nat)
  BY NatLessThanWellFounded
<1>2. \A x, y \in Nat : y < x => <<y, x>> \in R
  BY DEF OpToRel
<1> HIDE DEF R
<1>3. PICK x \in T : \A y \in T : ~(<<y, x>> \in R)
  BY <1>1, WFMin
<1>4. ASSUME NEW y \in T PROVE x <= y
  <2>1. x \in Nat /\ y \in Nat
    OBVIOUS
  <2>2. ~(y < x)
    BY <1>2, <1>3, <2>1
  <2> QED
    BY <2>1, <2>2
<1> QED
  BY <1>4

\* A cache is finite, and a smaller one has fewer entries.
LEMMA KnownFinite ==
  ASSUME NEW cache, DOMAIN cache = Jtis
  PROVE  /\ IsFiniteSet(Known(cache)) /\ Cardinality(Known(cache)) \in Nat
         /\ \A S \in SUBSET Known(cache) : /\ IsFiniteSet(S) /\ Cardinality(S) \in Nat
                                           /\ Cardinality(S) <= Cardinality(Known(cache))
                                           /\ S # Known(cache) => Cardinality(S) < Cardinality(Known(cache))
<1>1. Known(cache) \subseteq Jtis
  BY DEF Known
<1>2. IsFiniteSet(Known(cache))
  BY <1>1, ResourceAssumption, FS_Subset
<1> QED
  BY <1>2, FS_Subset, FS_CardinalityType

\* There is a time of the n-th oldest entry.
LEMMA CutoffExists ==
  ASSUME NEW cache \in [Jtis -> Nat \cup {Nil}], NEW n \in Nat \ {0}, n <= Cardinality(Known(cache)),
         NEW last \in Nat, \A j \in Known(cache) : cache[j] <= last
  PROVE  Cutoff(cache, n) \in Times(cache)
<1> DEFINE Upto(t) == {j \in Known(cache) : cache[j] <= t}
           Before(t) == {j \in Known(cache) : cache[j] < t}
           U == {t \in Nat : Cardinality(Upto(t)) >= n}
<1>1. /\ \A t : Cardinality(Upto(t)) \in Nat /\ Cardinality(Before(t)) \in Nat
      /\ \A j \in Known(cache) : cache[j] \in Nat
  BY KnownFinite DEF Known
<1>2. last \in U
  <2>1. Upto(last) = Known(cache)
    OBVIOUS
  <2> QED
    BY <2>1
<1>3. PICK t \in U : \A x \in U : t <= x
  BY <1>2, Least
<1>4. Cardinality(Before(t)) < n
  <2>1. CASE t = 0
    <3>1. Before(t) = {}
      BY <1>1, <2>1
    <3> QED
      BY <3>1, FS_EmptySet
  <2>2. CASE t # 0
    <3>1. t - 1 \in Nat /\ ~(t <= t - 1)
      BY <2>2
    <3>2. t - 1 \notin U
      BY <1>3, <3>1
    <3>3. Before(t) = Upto(t - 1)
      BY <1>1, <3>1
    <3> HIDE DEF Before, Upto
    <3> QED
      BY <1>1, <3>1, <3>2, <3>3
  <2> QED
    BY <2>1, <2>2
<1>5. t \in Times(cache)
  <2>1. ASSUME t \notin Times(cache) PROVE FALSE
    <3>1. Before(t) = Upto(t)
      BY <1>1, <2>1 DEF Times
    <3>2. Cardinality(Upto(t)) >= n /\ Cardinality(Upto(t)) \in Nat
      BY <1>1, <1>3
    <3> HIDE DEF Upto, Before
    <3> QED
      BY <1>4, <3>1, <3>2
  <2> QED
    BY <2>1
<1>6. \E x \in Times(cache) : /\ Cardinality({j \in Known(cache) : cache[j] < x}) < n
                              /\ Cardinality({j \in Known(cache) : cache[j] <= x}) >= n
  BY <1>4, <1>5
<1> QED
  BY <1>6, Zenon DEF Cutoff

\* Making room in a full cache drops an entry at least, and changes none.
LEMMA EvictionMakesRoom ==
  ASSUME NEW cache \in [Jtis -> Nat \cup {Nil}], Cardinality(Known(cache)) = maxNonceCacheSize,
         NEW last \in Nat, \A j \in Known(cache) : cache[j] <= last
  PROVE  LET rest == evictOldestLocked(cache) IN
         /\ rest \in [Jtis -> Nat \cup {Nil}]
         /\ Known(rest) \subseteq Known(cache) /\ Known(rest) # Known(cache)
         /\ \A j \in Known(rest) : rest[j] = cache[j]
<1> DEFINE quarter == maxNonceCacheSize \div 4
           n == IF quarter = 0 THEN 1 ELSE quarter
           cutoff == Cutoff(cache, n)
           rest == evictOldestLocked(cache)
<1>1. n \in Nat \ {0} /\ n <= maxNonceCacheSize
  BY ResourceAssumption
<1> HIDE DEF n
<1>2. cutoff \in Times(cache)
  BY <1>1, CutoffExists
<1>3. rest = [j \in Jtis |-> IF j \in Known(cache) /\ cache[j] > cutoff THEN cache[j] ELSE Nil]
  BY DEF evictOldestLocked, n
<1> HIDE DEF cutoff, rest
<1>4. PICK oldest \in Known(cache) : cache[oldest] = cutoff
  BY <1>2 DEF Times
<1>5. oldest \in Jtis /\ cache[oldest] \in Nat
  BY <1>4 DEF Known
<1>6. rest[oldest] = Nil
  BY <1>3, <1>4, <1>5
<1>7. rest \in [Jtis -> Nat \cup {Nil}] /\ \A j \in Known(rest) : j \in Known(cache) /\ rest[j] = cache[j]
  BY <1>3 DEF Known
<1> QED
  BY <1>4, <1>6, <1>7 DEF Known, rest

-----------------------------------------------------------------------------
(* What the steps have in common.                                          *)

Requests == {Idle} \cup Waiting \cup Serving

RequestOK(r) == (r \in Waiting => WaitingOK(r)) /\ (r \in Serving => ServingOK(r))

\* The control state tells what a request is.
LEMMA Kinds ==
  /\ Idle \notin Waiting /\ Idle \notin Serving
  /\ \A r \in Waiting : r \notin Serving
  /\ \A r \in Requests : /\ r.pc \in {"record", "token", "userinfo"} => r \in Waiting
                         /\ r.pc \in {"claims", "format", "sign"} => r \in Serving
  BY DEF Idle, Waiting, Serving, Requests

\* A proof is signed once, a token is made once, and what was deleted is not stored again.
Grows ==
    /\ now' \in 0..MaxTime /\ now <= now'
    /\ \A j \in Jtis : proofs[j] # Nil => proofs'[j] = proofs[j]
    /\ Known(tokData) \subseteq Known(tokData')
    /\ \A t \in Known(tokData) : t \in tokens' => t \in tokens

\* What a request in flight relies on survives every step that lets time pass, signs new proofs,
\* creates tokens or takes some away.
LEMMA RequestsStay ==
  ASSUME Shape, Grows
  PROVE  \A r : RequestOK(r) => RequestOK(r)'
<1> TAKE r
<1>1. now \in Nat /\ now' \in Nat /\ now <= now' /\ MaxProofAge \in Nat
  BY ResourceAssumption DEF Shape, Grows
<1>2. ASSUME r \in Waiting, WaitingOK(r) PROVE WaitingOK(r)'
  <2>1. r.jti # Nil => r.jti \in Jtis /\ proofs'[r.jti] = proofs[r.jti]
    BY <1>2 DEF Waiting, WaitingOK, Grows
  <2>2. r.pc = "record" => r.parsed \in 0..now'
    BY <1>1, <1>2 DEF WaitingOK
  <2>3. r.revoked => r.token \in Known(tokData') \ tokens'
    BY <1>2 DEF WaitingOK, Grows
  <2>4. r.target = "userinfo" => r.token \in Known(tokData')
    BY <1>2 DEF WaitingOK, Grows
  <2> QED
    BY <1>2, <2>1, <2>2, <2>3, <2>4 DEF WaitingOK
<1>3. ASSUME ServingOK(r) PROVE ServingOK(r)'
  BY <1>3 DEF ServingOK, Grows
<1> QED
  BY <1>2, <1>3 DEF RequestOK

\* A step changes one request at most.
LEMMA OneRequest ==
  ASSUME AccessInv, Grows, NEW p \in Procs
  PROVE  \A r \in Requests : RequestOK(r)' /\ req' = [req EXCEPT ![p] = r] =>
             req' \in [Procs -> Requests] /\ \A q \in Procs : RequestOK(req[q])'
<1> TAKE r \in Requests
<1> HAVE RequestOK(r)' /\ req' = [req EXCEPT ![p] = r]
<1>1. req \in [Procs -> Requests] /\ \A q \in Procs : RequestOK(req[q])
  BY DEF AccessInv, Shape, Requests, RequestOK
<1>2. \A x : RequestOK(x) => RequestOK(x)'
  BY RequestsStay DEF AccessInv
<1>3. req' \in [Procs -> Requests] /\ req'[p] = r /\ \A q \in Procs \ {p} : req'[q] = req[q]
  BY <1>1
<1>4. ASSUME NEW q \in Procs PROVE RequestOK(req[q])'
  <2>1. CASE q = p
    BY <1>3, <2>1 DEF RequestOK, WaitingOK, ServingOK
  <2>2. CASE q # p
    BY <1>1, <1>2, <1>3, <2>2 DEF RequestOK, WaitingOK, ServingOK
  <2> QED
    BY <2>1, <2>2
<1> QED
  BY <1>3, <1>4

\* In particular when no request moves.
LEMMA NoRequest ==
  ASSUME AccessInv, Grows, req' = req
  PROVE  req' \in [Procs -> Requests] /\ \A q \in Procs : RequestOK(req[q])'
<1>1. req \in [Procs -> Requests] /\ \A q \in Procs : RequestOK(req[q])
  BY DEF AccessInv, Shape, Requests, RequestOK
<1>2. \A x : RequestOK(x) => RequestOK(x)'
  BY RequestsStay DEF AccessInv
<1> QED
  BY <1>1, <1>2 DEF RequestOK, WaitingOK, ServingOK

\* Time only adds excuses.
LEMMA CacheStays ==
  ASSUME AccessInv, Grows, UNCHANGED <<usedNonces, accepted, evicted>>
  PROVE  \A j \in Jtis : CachedOK(j)'
<1> TAKE j \in Jtis
<1>1. CachedOK(j) /\ Shape
  BY DEF AccessInv
<1>2. now \in Nat /\ now' \in Nat /\ now <= now' /\ MaxProofAge \in Nat
  BY <1>1, ResourceAssumption DEF Shape, Grows
<1>3. proofs[j] # Nil => proofs'[j] = proofs[j] /\ proofs[j].iat \in Int
  BY <1>1 DEF Grows, Shape, Proof
<1>4. j \in Known(usedNonces) => usedNonces[j] \in Nat
  BY <1>1 DEF Shape, Known
<1>5. Known(usedNonces') = Known(usedNonces)
  BY DEF Known
<1> QED
  BY <1>1, <1>2, <1>3, <1>4, <1>5 DEF CachedOK

\* A step that answers nobody owes nothing.
LEMMA QuietAnswer ==
  ASSUME answer' = Nil
  PROVE  AnswerInv'
  BY DEF AnswerInv, ReplayNeedsExcuse, HolderOfKey, RevokedNotServed, SignedUnlessRevoked, RequiredMeansBound, Answered

\* The invariant is its parts.
LEMMA Parts ==
  ASSUME req' \in [Procs -> Requests], \A q \in Procs : RequestOK(req[q])', \A j \in Jtis : CachedOK(j)',
         now' \in 0..MaxTime, proofs' \in [Jtis -> Proof \cup {Nil}], usedNonces' \in [Jtis -> Nat \cup {Nil}],
         tokData' \in [Tokens -> Token \cup {Nil}], tokens' \subseteq Known(tokData'), refreshable' \subseteq Known(tokData'),
         accepted' \in [Jtis -> BOOLEAN \cup {Nil}],
         Cardinality(Known(usedNonces')) <= maxNonceCacheSize
  PROVE  AccessInv'
<1>1. Shape'
  BY DEF Shape, Requests
<1> QED
  BY <1>1 DEF AccessInv, RequestOK

-----------------------------------------------------------------------------
(* The steps.                                                              *)

\* A proof is parsed: the request waits for the lock, or for its handler when it has none.
LEMMA ArriveStep ==
  ASSUME AccessInv, NEW p \in Procs, NEW target \in Targets, NEW j \in Jtis \cup {Nil}, NEW cert \in Certs \cup {Nil},
         NEW bearer \in Known(tokData) \cup {Nil}, target = "userinfo" => bearer \in Known(tokData),
         Arrive(p, target, j, cert, bearer)
  PROVE  AccessInv' /\ AnswerInv'
<1>0. PICK r : r = [pc |-> IF j = Nil THEN target ELSE "record", target |-> target, jti |-> j, cert |-> cert,
                    token |-> bearer, parsed |-> IF j = Nil THEN Nil ELSE now,
                    revoked |-> bearer # Nil /\ bearer \notin tokens]
  OBVIOUS
<1>1. Shape /\ now \in Nat /\ Nil \notin Jtis /\ Nil \notin Proof /\ Nil \notin Tokens /\ MaxProofAge \in Nat
  BY ResourceAssumption DEF AccessInv, Shape
<1>2. /\ req' = [req EXCEPT ![p] = r] /\ answer' = Nil
      /\ UNCHANGED <<now, usedNonces, tokens, tokData, refreshable, accepted, evicted>>
  BY <1>0 DEF Arrive, NewRequest, storage, history
<1>3. bearer \in Tokens \cup {Nil} /\ (bearer # Nil => bearer \in Known(tokData))
  BY <1>1 DEF Shape, Known
<1>4. /\ proofs' \in [Jtis -> Proof \cup {Nil}]
      /\ \A x \in Jtis : proofs[x] # Nil => proofs'[x] = proofs[x]
      /\ j # Nil => proofs'[j] # Nil /\ ParseProof(proofs'[j], target)
  <2>1. CASE j = Nil \/ proofs[j] # Nil
    BY <1>1, <2>1 DEF Arrive, Shape
  <2>2. CASE j # Nil /\ proofs[j] = Nil
    <3>1. PICK k \in Keys, ath \in {Nil, bearer}, skew \in {0, MaxProofAge} :
             proofs' = [proofs EXCEPT ![j] = [key |-> k, target |-> target, ath |-> ath, iat |-> now + skew]]
      BY <2>2 DEF Arrive
    <3> DEFINE new == [key |-> k, target |-> target, ath |-> ath, iat |-> now + skew]
    <3>2. new \in Proof
      BY <1>1, <1>3 DEF Proof
    <3> HIDE DEF new
    <3>3. ParseProof(proofs'[j], target) /\ j \in Jtis
      BY <2>2 DEF Arrive
    <3>4. proofs \in [Jtis -> Proof \cup {Nil}]
      BY <1>1 DEF Shape
    <3>5. proofs' = [proofs EXCEPT ![j] = new]
      BY <3>1 DEF new
    <3> QED
      BY <1>1, <2>2, <3>2, <3>3, <3>4, <3>5
  <2> QED
    BY <2>1, <2>2
<1>5. Grows
  BY <1>1, <1>2, <1>4 DEF Grows, Shape
<1>6. r \in Waiting
  BY <1>0, <1>1, <1>3 DEF Waiting, Targets
<1>7. WaitingOK(r)'
  <2>1. j # Nil => proofs'[j].target = target /\ now - proofs'[j].iat <= MaxProofAge
    BY <1>4 DEF ParseProof, Fresh
  <2>2. /\ r.jti = j /\ r.target = target /\ r.token = bearer /\ (r.pc = "record" <=> j # Nil) /\ (r.pc # "record" => r.pc = target)
        /\ j # Nil => r.parsed = now
        /\ r.revoked => bearer # Nil /\ bearer \notin tokens
    BY <1>0 DEF Targets
  <2> QED
    BY <1>1, <1>2, <1>3, <1>4, <2>1, <2>2 DEF WaitingOK
<1>8. RequestOK(r)' /\ r \in Requests
  BY <1>6, <1>7, Kinds DEF RequestOK, Requests, WaitingOK
<1>9. req' \in [Procs -> Requests] /\ \A q \in Procs : RequestOK(req[q])'
  BY <1>2, <1>5, <1>8, OneRequest
<1>10. \A x \in Jtis : CachedOK(x)'
  BY <1>2, <1>5, CacheStays
<1>11. Cardinality(Known(usedNonces')) <= maxNonceCacheSize
  BY <1>2 DEF AccessInv
<1>12. AccessInv'
  BY <1>1, <1>2, <1>4, <1>9, <1>10, <1>11, Parts DEF Shape
<1> QED
  BY <1>2, <1>12, QuietAnswer

\* The section under the lock.
LEMMA RecordStep ==
  ASSUME AccessInv, NEW p \in Procs, RecordProof(p)
  PROVE  AccessInv' /\ AnswerInv'
<1> DEFINE r == req[p]
           i == r.jti
<1>1. Shape /\ now \in Nat /\ MaxProofAge \in Nat /\ maxNonceCacheSize \in Nat \ {0}
  BY ResourceAssumption DEF AccessInv, Shape
<1>2. r \in Waiting /\ WaitingOK(r) /\ r.pc = "record"
  BY Kinds DEF AccessInv, Shape, RecordProof, Requests
<1>3. /\ i \in Jtis /\ proofs[i] \in Proof /\ proofs[i].target = r.target
      /\ r.parsed \in 0..now /\ r.parsed - proofs[i].iat <= MaxProofAge
  BY <1>1, <1>2 DEF WaitingOK, Waiting, Shape
<1>4. UNCHANGED <<now, proofs, tokens, tokData, refreshable>>
  BY DEF RecordProof, storage
<1>5. Grows
  BY <1>1, <1>4 DEF Grows, Shape
<1>6. CASE i \in Known(usedNonces)
  <2>1. req' = [req EXCEPT ![p] = Idle] /\ answer' = Nil /\ UNCHANGED <<usedNonces, accepted, evicted>>
    BY <1>6 DEF RecordProof, history
  <2>2. req' \in [Procs -> Requests] /\ \A q \in Procs : RequestOK(req[q])'
    BY <1>5, <2>1, OneRequest, Kinds DEF RequestOK, Requests
  <2>3. \A x \in Jtis : CachedOK(x)'
    BY <1>5, <2>1, CacheStays
  <2>4. Cardinality(Known(usedNonces')) <= maxNonceCacheSize
    BY <2>1 DEF AccessInv
  <2>5. AccessInv'
    BY <1>1, <1>4, <2>1, <2>2, <2>3, <2>4, Parts DEF Shape
  <2> QED
    BY <2>1, <2>5, QuietAnswer
<1>7. CASE i \notin Known(usedNonces)
  <2> DEFINE cache == Room
  <2>0. PICK s : s = [r EXCEPT !.pc = r.target, !.parsed = Nil]
    OBVIOUS
  <2>1. /\ usedNonces' = [cache EXCEPT ![i] = now]
        /\ evicted' = evicted \cup (Known(usedNonces) \ Known(cache))
        /\ accepted' = [accepted EXCEPT ![i] = proofs[i].iat > r.parsed]
        /\ answer' = IF accepted[i] = Nil THEN Nil ELSE [kind |-> "again", to |-> r, early |-> accepted[i]]
        /\ req' = [req EXCEPT ![p] = s]
    BY <1>7, <2>0 DEF RecordProof, Admit
  <2>2. /\ cache \in [Jtis -> Nat \cup {Nil}] /\ Known(cache) \subseteq Known(usedNonces)
        /\ \A j \in Known(cache) : cache[j] = usedNonces[j]
        /\ Cardinality(Known(cache)) < maxNonceCacheSize
    <3>1. /\ usedNonces \in [Jtis -> Nat \cup {Nil}] /\ Cardinality(Known(usedNonces)) <= maxNonceCacheSize
          /\ \A j \in Known(usedNonces) : usedNonces[j] <= now
      <4>1. \A j \in Known(usedNonces) : j \in Jtis
        BY DEF AccessInv, Shape, Known
      <4> QED
        BY <4>1 DEF AccessInv, Shape, CachedOK
    <3>2. Cardinality(Known(usedNonces)) \in Nat
      BY <3>1, KnownFinite
    <3>3. CASE Cardinality(Known(usedNonces)) >= maxNonceCacheSize
      <4>1. Cardinality(Known(usedNonces)) = maxNonceCacheSize
        BY <1>1, <3>1, <3>2, <3>3
      <4>2. cache = evictOldestLocked(usedNonces)
        BY <3>3 DEF Room
      <4>3. /\ cache \in [Jtis -> Nat \cup {Nil}] /\ Known(cache) \subseteq Known(usedNonces)
            /\ \A j \in Known(cache) : cache[j] = usedNonces[j]
            /\ Known(cache) # Known(usedNonces)
        BY <1>1, <3>1, <4>1, <4>2, EvictionMakesRoom
      <4>4. Cardinality(Known(cache)) < Cardinality(Known(usedNonces))
        BY <3>1, <4>3, KnownFinite
      <4> QED
        BY <4>1, <4>3, <4>4
    <3>4. CASE ~(Cardinality(Known(usedNonces)) >= maxNonceCacheSize)
      BY <1>1, <3>1, <3>2, <3>4 DEF Room
    <3> QED
      BY <3>3, <3>4
  <2> HIDE DEF cache
  <2>3. /\ usedNonces' \in [Jtis -> Nat \cup {Nil}] /\ usedNonces'[i] = now
        /\ Known(usedNonces') = Known(cache) \cup {i}
        /\ \A j \in Jtis \ {i} : usedNonces'[j] = cache[j]
    BY <1>1, <1>3, <2>1, <2>2, ResourceAssumption DEF Known
  <2>4. Cardinality(Known(usedNonces')) <= maxNonceCacheSize
    <3>1. IsFiniteSet(Known(cache)) /\ Cardinality(Known(cache)) \in Nat
      BY <2>2, KnownFinite
    <3>2. Cardinality(Known(cache) \cup {i}) \in {Cardinality(Known(cache)), Cardinality(Known(cache)) + 1}
      BY <3>1, FS_AddElement
    <3> QED
      BY <1>1, <2>2, <2>3, <3>1, <3>2
  <2>5. /\ accepted' \in [Jtis -> BOOLEAN \cup {Nil}] /\ accepted'[i] \in BOOLEAN /\ accepted'[i] # Nil
        /\ ~accepted'[i] => ~(proofs[i].iat > r.parsed)
        /\ \A j \in Jtis \ {i} : accepted'[j] = accepted[j]
    <3>1. accepted \in [Jtis -> BOOLEAN \cup {Nil}] /\ Nil \notin BOOLEAN
      BY <1>1, ResourceAssumption DEF Shape
    <3>2. CASE proofs[i].iat > r.parsed
      <4>1. accepted' = [accepted EXCEPT ![i] = TRUE]
        BY <2>1, <3>2
      <4> QED
        BY <1>3, <3>1, <4>1
    <3>3. CASE ~(proofs[i].iat > r.parsed)
      <4>1. accepted' = [accepted EXCEPT ![i] = FALSE]
        <5>1. (proofs[i].iat > r.parsed) = FALSE
          BY <3>3
        <5> QED
          BY <2>1, <5>1, Zenon
      <4> QED
        BY <1>3, <3>1, <3>3, <4>1
    <3> QED
      BY <3>2, <3>3
  <2>6. ASSUME NEW j \in Jtis PROVE CachedOK(j)'
    <3>1. CASE j = i
      <4>1. proofs[i].iat \in Int /\ r.parsed <= now /\ r.parsed \in Nat
        BY <1>1, <1>3 DEF Proof
      <4>2. proofs'[i] # Nil /\ accepted'[i] # Nil
        BY <1>3, <1>4, <2>5, ResourceAssumption
      <4>3. ~accepted'[i] => proofs[i].iat <= now
        BY <1>1, <2>5, <4>1
      <4> QED
        BY <1>1, <1>4, <2>3, <3>1, <4>2, <4>3 DEF CachedOK
    <3>2. CASE j # i
      <4>1. CachedOK(j)
        BY DEF AccessInv
      <4>2. j \in Known(usedNonces') <=> j \in Known(cache)
        BY <2>3, <3>2
      <4>3. j \in Known(cache) => usedNonces'[j] = usedNonces[j] /\ j \in Known(usedNonces)
        BY <2>2, <2>3, <3>2
      <4>4. j \in Known(usedNonces) /\ j \notin Known(cache) => j \in evicted'
        BY <2>1
      <4>5. j \in evicted => j \in evicted'
        BY <2>1
      <4> QED
        BY <1>4, <2>5, <3>2, <4>1, <4>2, <4>3, <4>4, <4>5 DEF CachedOK
    <3> QED
      BY <3>1, <3>2
  <2>7. s \in Waiting /\ s.jti = i /\ s.pc = r.target /\ s.target = r.target /\ s.token = r.token /\ s.revoked = r.revoked
    BY <1>2, <2>0 DEF Waiting, Targets
  <2>8. WaitingOK(s)'
    <3>1. r.target # "record"
      BY <1>2 DEF Waiting, Targets
    <3> QED
      BY <1>2, <1>4, <2>7, <3>1 DEF WaitingOK
  <2>9. req' \in [Procs -> Requests] /\ \A q \in Procs : RequestOK(req[q])'
    <3>1. RequestOK(s)' /\ s \in Requests
      BY <2>7, <2>8, Kinds DEF RequestOK, Requests, WaitingOK
    <3> QED
      BY <1>5, <2>1, <3>1, OneRequest
  <2>10. AccessInv'
    BY <1>1, <1>4, <2>3, <2>4, <2>5, <2>6, <2>9, Parts DEF Shape
  <2>11. AnswerInv'
    <3>1. CASE accepted[i] = Nil
      BY <2>1, <3>1, QuietAnswer
    <3>2. CASE accepted[i] # Nil
      <4>1. answer' = [kind |-> "again", to |-> r, early |-> accepted[i]]
        BY <2>1, <3>2
      <4>2. answer'.kind = "again" /\ answer'.to = r /\ answer'.early = accepted[i]
        BY <4>1
      <4>3. i \in evicted \/ accepted[i] \/ now - proofs[i].iat > MaxProofAge
        BY <1>3, <1>7, <3>2 DEF AccessInv, CachedOK
      <4>4. r.parsed \in Nat /\ proofs[i].iat \in Int
        BY <1>1, <1>3 DEF Proof
      <4>5. i \in evicted' \/ accepted[i] \/ r.parsed < now'
        BY <1>1, <1>3, <1>4, <2>1, <4>3, <4>4
      <4>6. ReplayNeedsExcuse'
        BY <4>2, <4>5 DEF ReplayNeedsExcuse, Answered
      <4> QED
        BY <4>2, <4>6 DEF AnswerInv, HolderOfKey, RevokedNotServed, SignedUnlessRevoked, RequiredMeansBound, Answered
    <3> QED
      BY <3>1, <3>2
  <2> QED
    BY <2>10, <2>11
<1> QED
  BY <1>6, <1>7

\* What storing a new token changes.
LEMMA CreateEffect ==
  ASSUME Shape
  PROVE  \A t \in Tokens \ Known(tokData), c \in Clients, cnf \in CNF, refresh \in BOOLEAN :
           createAccessToken(t, c, cnf, refresh) =>
             /\ tokData' \in [Tokens -> Token \cup {Nil}] /\ tokData'[t] = [client |-> c, cnf |-> cnf]
             /\ Known(tokData) \subseteq Known(tokData')
             /\ tokens' \subseteq Known(tokData') /\ refreshable' \subseteq Known(tokData')
             /\ \A x \in Known(tokData) : x \in tokens' => x \in tokens
<1> TAKE t \in Tokens \ Known(tokData), c \in Clients, cnf \in CNF, refresh \in BOOLEAN
<1> HAVE createAccessToken(t, c, cnf, refresh)
<1> DEFINE new == [client |-> c, cnf |-> cnf]
<1>1. new \in Token /\ new # Nil
  BY ResourceAssumption DEF Token
<1>2. tokData' = [tokData EXCEPT ![t] = new] /\ tokData \in [Tokens -> Token \cup {Nil}]
  BY DEF createAccessToken, Shape
<1> HIDE DEF new
<1>3. /\ tokData' \in [Tokens -> Token \cup {Nil}] /\ tokData'[t] = new
      /\ Known(tokData') = Known(tokData) \cup {t}
  BY <1>1, <1>2 DEF Known
<1>4. tokens' = tokens \cup {t} /\ refreshable' \subseteq refreshable \cup {t}
  BY DEF createAccessToken
<1>5. tokens \subseteq Known(tokData) /\ refreshable \subseteq Known(tokData)
  BY DEF Shape
<1> QED
  BY <1>3, <1>4, <1>5 DEF new

\* The binding of an issued token is what the request has proved possession of, and there
\* is one where one is required.
LEMMA BindingMade ==
  ASSUME AccessInv, NEW p \in Procs, req[p].pc = "token", NEW c \in Clients
  PROVE  /\ TokenBinding(c, req[p]) \in CNF
         /\ LET need == senderConstrainingRequirements(c) IN
            /\ Met(need.dpop, need.mtls, req[p])
            /\ c \in RequireDPoP \cup RequireMtls \/ GlobalDPoP \/ GlobalMtls
            => TokenBinding(c, req[p]) # NoCNF
<1> DEFINE r == req[p]
           need == senderConstrainingRequirements(c)
           own == ResolveCNF(r)
<1>1. r \in Waiting /\ WaitingOK(r)
  BY Kinds DEF AccessInv, Shape, Requests
<1>2. /\ r.jti # Nil => proofs[r.jti] \in Proof /\ proofs[r.jti].key \in Keys
      /\ r.cert \in Certs \cup {Nil} /\ Nil \notin Keys
  BY <1>1, ResourceAssumption DEF AccessInv, Shape, WaitingOK, Waiting, Proof
<1>3. own \in CNF /\ (r.jti # Nil => own.jkt # Nil) /\ own.x5t = r.cert
  BY <1>2 DEF ResolveCNF, CNF
<1>4. /\ TokenBinding(c, r) \in CNF
      /\ TokenBinding(c, r).jkt = own.jkt
      /\ need.mtls => TokenBinding(c, r).x5t = own.x5t
  BY <1>3 DEF TokenBinding, CNF
<1>5. NoCNF.jkt = Nil /\ NoCNF.x5t = Nil
  BY DEF NoCNF
<1>6. ASSUME Met(need.dpop, need.mtls, r), c \in RequireDPoP \cup RequireMtls \/ GlobalDPoP \/ GlobalMtls
      PROVE  r.jti # Nil \/ (need.mtls /\ r.cert # Nil)
  <2>1. need.dpop \/ need.mtls
    BY <1>6 DEF senderConstrainingRequirements
  <2> QED
    BY <1>6, <2>1 DEF Met
<1> QED
  BY <1>3, <1>4, <1>5, <1>6

\* A token request ends with a token, bound where that is required, or with none.
LEMMA IssueStep ==
  ASSUME AccessInv, NEW p \in Procs, NEW c \in Clients, NEW assertion, NEW refresh \in BOOLEAN,
         createTokenResponse(p, c, assertion, refresh) \/ handleTokenExchange(p, c, assertion, refresh)
  PROVE  AccessInv' /\ AnswerInv'
<1>1. Shape
  BY DEF AccessInv
<1>2. /\ req' = [req EXCEPT ![p] = Idle] /\ req[p].pc = "token"
      /\ UNCHANGED <<now, proofs, usedNonces, accepted, evicted>>
  BY DEF createTokenResponse, handleTokenExchange, history
<1>3. NoCNF \in CNF /\ TokenBinding(c, req[p]) \in CNF
  BY <1>2, BindingMade DEF NoCNF, CNF
<1>4. \/ /\ UNCHANGED <<tokens, tokData, refreshable>> /\ answer' = Nil
      \/ \E t \in Tokens \ Known(tokData) :
            /\ createAccessToken(t, c, NoCNF, refresh)
            /\ answer' = Nil
      \/ \E t \in Tokens \ Known(tokData) :
            /\ createAccessToken(t, c, TokenBinding(c, req[p]), refresh)
            /\ answer' = [kind |-> "issued", token |-> t]
            /\ LET need == senderConstrainingRequirements(c) IN Met(need.dpop, need.mtls, req[p])
  BY DEF createTokenResponse, handleTokenExchange, storage
<1>5. ASSUME tokData' \in [Tokens -> Token \cup {Nil}], Known(tokData) \subseteq Known(tokData'),
             tokens' \subseteq Known(tokData'), refreshable' \subseteq Known(tokData'),
             \A x \in Known(tokData) : x \in tokens' => x \in tokens
      PROVE  AccessInv'
  <2>1. Grows
    BY <1>1, <1>2, <1>5, ResourceAssumption DEF Grows, Shape
  <2>2. req' \in [Procs -> Requests] /\ \A q \in Procs : RequestOK(req[q])'
    BY <1>2, <2>1, OneRequest, Kinds DEF RequestOK, Requests
  <2>3. \A x \in Jtis : CachedOK(x)'
    BY <1>2, <2>1, CacheStays
  <2>4. Cardinality(Known(usedNonces')) <= maxNonceCacheSize
    BY <1>2 DEF AccessInv
  <2> QED
    BY <1>1, <1>2, <1>5, <2>2, <2>3, <2>4, Parts DEF Shape
<1>6. CASE UNCHANGED <<tokens, tokData, refreshable>> /\ answer' = Nil
  <2>1. AccessInv'
    BY <1>1, <1>5, <1>6 DEF Shape
  <2> QED
    BY <1>6, <2>1, QuietAnswer
<1>7. ASSUME NEW t \in Tokens \ Known(tokData), createAccessToken(t, c, NoCNF, refresh), answer' = Nil
      PROVE  AccessInv' /\ AnswerInv'
  <2>1. AccessInv'
    BY <1>1, <1>3, <1>5, <1>7, CreateEffect
  <2> QED
    BY <1>7, <2>1, QuietAnswer
<1>8. ASSUME NEW t \in Tokens \ Known(tokData),
             createAccessToken(t, c, TokenBinding(c, req[p]), refresh),
             answer' = [kind |-> "issued", token |-> t],
             LET need == senderConstrainingRequirements(c) IN Met(need.dpop, need.mtls, req[p])
      PROVE  AccessInv' /\ AnswerInv'
  <2>1. PICK cnf \in CNF : cnf = TokenBinding(c, req[p])
    BY <1>3
  <2>2. /\ tokData' \in [Tokens -> Token \cup {Nil}] /\ tokData'[t] = [client |-> c, cnf |-> cnf]
        /\ Known(tokData) \subseteq Known(tokData')
        /\ tokens' \subseteq Known(tokData') /\ refreshable' \subseteq Known(tokData')
        /\ \A x \in Known(tokData) : x \in tokens' => x \in tokens
    BY <1>1, <1>8, <2>1, CreateEffect
  <2>3. AccessInv'
    BY <1>5, <2>2
  <2>4. c \in RequireDPoP \cup RequireMtls \/ GlobalDPoP \/ GlobalMtls => cnf # NoCNF
    BY <1>2, <1>8, <2>1, BindingMade
  <2>5. answer'.kind = "issued" /\ answer'.token = t
    BY <1>8
  <2>6. RequiredMeansBound'
    BY <2>2, <2>4, <2>5 DEF RequiredMeansBound, Answered
  <2>7. AnswerInv'
    BY <2>5, <2>6 DEF AnswerInv, ReplayNeedsExcuse, HolderOfKey, RevokedNotServed, SignedUnlessRevoked, Answered
  <2> QED
    BY <2>3, <2>7
<1> QED
  BY <1>4, <1>6, <1>7, <1>8

\* Whoever passes the check of the binding holds what the token is bound to.
LEMMA VerifiedHolds ==
  ASSUME AccessInv, NEW p \in Procs, req[p].pc = "userinfo",
         ValidateDPoPProofATH(req[p]), TokenCNF(req[p].token).ok,
         VerifyTokenBinding(req[p], TokenCNF(req[p].token).cnf)
  PROVE  Holder(req[p], tokData[req[p].token].cnf) /\ req[p].token \in tokens
<1> DEFINE r == req[p]
           cnf == tokData[r.token].cnf
<1>1. r \in Waiting /\ WaitingOK(r)
  BY Kinds DEF AccessInv, Shape, Requests
<1>2. r.token \in tokens /\ TokenCNF(r.token).cnf = cnf
  BY DEF TokenCNF
<1>3. cnf \in CNF
  <2>1. r.token \in Known(tokData) /\ tokData \in [Tokens -> Token \cup {Nil}]
    BY <1>2 DEF AccessInv, Shape
  <2>2. tokData[r.token] \in Token
    BY <2>1 DEF Known
  <2> QED
    BY <2>2 DEF Token
<1>4. VerifyTokenBinding(r, cnf)
  BY <1>2
<1>5. r.jti # Nil => proofs[r.jti].ath = r.token /\ proofs[r.jti].target = "userinfo"
  BY <1>1 DEF WaitingOK, ValidateDPoPProofATH
<1> HIDE DEF cnf
<1>6. cnf.jkt = Nil /\ cnf.x5t = Nil => cnf = NoCNF
  BY <1>3 DEF CNF, NoCNF
<1>7. \/ cnf = NoCNF
      \/ cnf.jkt # Nil /\ r.jti # Nil /\ proofs[r.jti].key = cnf.jkt
      \/ cnf.x5t # Nil /\ r.cert = cnf.x5t
  BY <1>4, <1>6 DEF VerifyTokenBinding
<1> QED
  BY <1>2, <1>5, <1>7 DEF Holder, cnf

\* Steps of a request that leave everything but itself alone.
LEMMA OwnStep ==
  ASSUME AccessInv, NEW p \in Procs, UNCHANGED Protected
  PROVE  \A r \in Requests : RequestOK(r) /\ req' = [req EXCEPT ![p] = r] => AccessInv'
<1> TAKE r \in Requests
<1> HAVE RequestOK(r) /\ req' = [req EXCEPT ![p] = r]
<1>1. UNCHANGED <<now, proofs, usedNonces, tokens, tokData, refreshable, accepted, evicted>> /\ Shape
  BY DEF Protected, storage, history, AccessInv
<1>2. Grows
  BY <1>1, ResourceAssumption DEF Grows, Shape
<1>3. RequestOK(r)'
  BY <1>1, <1>2, RequestsStay
<1>4. req' \in [Procs -> Requests] /\ \A q \in Procs : RequestOK(req[q])'
  BY <1>2, <1>3, OneRequest
<1>5. \A x \in Jtis : CachedOK(x)'
  BY <1>1, <1>2, CacheStays
<1>6. Cardinality(Known(usedNonces')) <= maxNonceCacheSize
  BY <1>1 DEF AccessInv
<1> QED
  BY <1>1, <1>4, <1>5, <1>6, Parts DEF Shape

\* The userinfo endpoint lets a request on to its lookups only for a holder of the live token.
LEMMA CheckStep ==
  ASSUME AccessInv, NEW p \in Procs, CheckBinding(p)
  PROVE  AccessInv' /\ AnswerInv'
<1>1. req[p].pc = "userinfo" /\ answer' = Nil /\ UNCHANGED Protected
  BY DEF CheckBinding
<1>2. req[p] \in Waiting /\ WaitingOK(req[p])
  BY <1>1, Kinds DEF AccessInv, Shape, Requests
<1>3. CASE req' = [req EXCEPT ![p] = Idle]
  <2>1. AccessInv'
    BY <1>1, <1>3, OwnStep, Kinds DEF Requests, RequestOK
  <2> QED
    BY <1>1, <2>1, QuietAnswer
<1>4. CASE ValidateDPoPProofATH(req[p]) /\ TokenCNF(req[p].token).ok /\ VerifyTokenBinding(req[p], TokenCNF(req[p].token).cnf)
  <2>1. Holder(req[p], tokData[req[p].token].cnf) /\ req[p].token \in tokens
    BY <1>1, <1>4, VerifiedHolds
  <2>2. req[p].token \in Known(tokData) /\ req[p].token \in Tokens /\ req[p].revoked = FALSE
    BY <1>2, <2>1 DEF AccessInv, Shape, Known, WaitingOK, Waiting
  <2>3. Holder(req[p], tokData[req[p].token].cnf) = TRUE
    BY <2>1 DEF Holder
  <2>4. PICK s : s = [pc |-> "claims", token |-> req[p].token, revoked |-> FALSE, holder |-> TRUE]
    OBVIOUS
  <2>5. req' = [req EXCEPT ![p] = s]
    BY <1>4, <2>2, <2>3, <2>4 DEF CheckBinding
  <2>6. s \in Serving /\ ServingOK(s)
    BY <2>2, <2>4 DEF Serving, ServingOK
  <2>7. AccessInv'
    BY <1>1, <2>5, <2>6, OwnStep, Kinds DEF Requests, RequestOK
  <2> QED
    BY <1>1, <2>7, QuietAnswer
<1> QED
  BY <1>3, <1>4 DEF CheckBinding, Refuse

\* A served request goes on as it is, or ends.
LEMMA ServeStep ==
  ASSUME AccessInv, NEW p \in Procs, req[p].pc \in {"claims", "format", "sign"}, UNCHANGED Protected,
         Refuse(p) \/ Goto(p, "format") \/ Goto(p, "sign")
  PROVE  AccessInv'
<1>1. req[p] \in Serving /\ ServingOK(req[p])
  BY Kinds DEF AccessInv, Shape, Requests
<1>2. CASE Refuse(p)
  BY <1>2, OwnStep, Kinds DEF Requests, RequestOK, Refuse
<1>3. ASSUME NEW pc \in {"format", "sign"}, Goto(p, pc)
      PROVE  AccessInv'
  <2>1. PICK s : s = [req[p] EXCEPT !.pc = pc]
    OBVIOUS
  <2>2. req' = [req EXCEPT ![p] = s]
    BY <1>3, <2>1 DEF Goto
  <2>3. s \in Serving /\ ServingOK(s)
    BY <1>1, <2>1 DEF Serving, ServingOK
  <2> QED
    BY <2>2, <2>3, OwnStep, Kinds DEF Requests, RequestOK
<1> QED
  BY <1>2, <1>3

\* An answer of userinfo, signed or for a client that did not ask for it or a token now deleted.
LEMMA UserinfoAnswer ==
  ASSUME AccessInv, NEW p \in Procs, req[p].pc \in {"format", "sign"}, UNCHANGED Protected, NEW signed,
         Respond(p, signed),
         req[p].token \in tokens /\ tokData[req[p].token].client \in SignedClients => signed
  PROVE  AnswerInv'
<1>1. ServingOK(req[p])
  BY Kinds DEF AccessInv, Shape, Requests
<1>2. answer'.kind = "userinfo" /\ answer'.to = req[p] /\ answer'.signed = signed
  BY DEF Respond
<1>3. UNCHANGED <<tokens, tokData>>
  BY DEF Protected, storage
<1>4. HolderOfKey' /\ RevokedNotServed'
  BY <1>1, <1>2 DEF HolderOfKey, RevokedNotServed, ServingOK, Answered
<1>5. SignedUnlessRevoked'
  BY <1>2, <1>3 DEF SignedUnlessRevoked, Answered
<1> QED
  BY <1>2, <1>4, <1>5 DEF AnswerInv, ReplayNeedsExcuse, RequiredMeansBound, Answered

\* The answer of userinfo, plain or signed.
LEMMA FormatStep ==
  ASSUME AccessInv, NEW p \in Procs, NEW accept, shouldReturnJWT(p, accept) \/ writeJWTResponse(p)
  PROVE  AccessInv' /\ AnswerInv'
<1>1. req[p].pc \in {"format", "sign"} /\ UNCHANGED Protected
  BY DEF shouldReturnJWT, writeJWTResponse
<1>2. CASE Goto(p, "sign") /\ answer' = Nil
  BY <1>1, <1>2, ServeStep, QuietAnswer
<1>3. ASSUME NEW signed, Respond(p, signed),
             req[p].token \in tokens /\ tokData[req[p].token].client \in SignedClients => signed
      PROVE  AccessInv' /\ AnswerInv'
  <2>1. Refuse(p)
    BY <1>3 DEF Respond
  <2> QED
    BY <1>1, <1>3, <2>1, ServeStep, UserinfoAnswer
<1>4. CASE shouldReturnJWT(p, accept)
  BY <1>2, <1>3, <1>4 DEF shouldReturnJWT, TokenClientID
<1>5. CASE writeJWTResponse(p)
  <2>1. ASSUME req[p].token \in tokens PROVE tokData[req[p].token].client # Nil
    <3>1. tokData[req[p].token] \in Token
      BY <2>1 DEF AccessInv, Shape, Known
    <3> QED
      BY <3>1, ResourceAssumption DEF Token
  <2>2. CASE TokenClientID(req[p].token) # Nil
    <3>1. Respond(p, TRUE)
      BY <1>5, <2>2 DEF writeJWTResponse, Respond
    <3> QED
      BY <1>3, <3>1
  <2>3. CASE TokenClientID(req[p].token) = Nil
    <3>1. Respond(p, FALSE) /\ req[p].token \notin tokens
      BY <1>5, <2>1, <2>3 DEF writeJWTResponse, Respond, TokenClientID
    <3> QED
      BY <1>3, <3>1
  <2> QED
    BY <2>2, <2>3
<1> QED
  BY <1>4, <1>5

\* Cleaning up drops only proofs that are too old to be accepted again.
LEMMA CleanupStep ==
  ASSUME AccessInv, cleanupLoop
  PROVE  AccessInv' /\ AnswerInv'
<1>1. /\ usedNonces' = CleanupNonceCache(usedNonces) /\ answer' = Nil
      /\ UNCHANGED <<now, proofs, tokens, tokData, refreshable, req, accepted, evicted>>
  BY DEF cleanupLoop, storage, history
<1>2. Shape /\ now \in Nat /\ MaxProofAge \in Nat
  BY ResourceAssumption DEF AccessInv, Shape
<1>3. Grows
  BY <1>1, <1>2 DEF Grows, Shape
<1>4. /\ usedNonces' \in [Jtis -> Nat \cup {Nil}]
      /\ \A j \in Known(usedNonces') : j \in Known(usedNonces) /\ usedNonces'[j] = usedNonces[j]
      /\ \A j \in Known(usedNonces) : j \in Known(usedNonces') \/ usedNonces[j] < now - MaxProofAge
  <2>1. usedNonces \in [Jtis -> Nat \cup {Nil}]
    BY <1>2 DEF Shape
  <2> QED
    BY <1>1, <1>2, <2>1 DEF CleanupNonceCache, Known
<1>5. ASSUME NEW j \in Jtis PROVE CachedOK(j)'
  <2>1. CachedOK(j)
    BY DEF AccessInv
  <2>2. accepted[j] # Nil => proofs[j].iat \in Int
    BY <1>2, <2>1 DEF CachedOK, Shape, Proof
  <2>3. j \in Known(usedNonces) => usedNonces[j] \in Nat
    BY <1>2 DEF Shape, Known
  <2>4. ASSUME j \in Known(usedNonces), j \notin Known(usedNonces'), ~accepted[j]
        PROVE  now - proofs[j].iat > MaxProofAge
    <3>1. proofs[j].iat <= usedNonces[j] /\ accepted[j] # Nil
      BY <2>1, <2>4 DEF CachedOK
    <3> QED
      BY <1>2, <1>4, <2>2, <2>3, <2>4, <3>1
  <2> QED
    BY <1>1, <1>4, <2>1, <2>4 DEF CachedOK
<1>6. Cardinality(Known(usedNonces')) <= maxNonceCacheSize
  <2>1. Known(usedNonces') \subseteq Known(usedNonces) /\ DOMAIN usedNonces = Jtis
    BY <1>2, <1>4 DEF Shape
  <2>2. /\ Cardinality(Known(usedNonces')) <= Cardinality(Known(usedNonces))
        /\ Cardinality(Known(usedNonces')) \in Nat /\ Cardinality(Known(usedNonces)) \in Nat
    BY <2>1, KnownFinite
  <2> QED
    BY <2>2, ResourceAssumption DEF AccessInv
<1>7. req' \in [Procs -> Requests] /\ \A q \in Procs : RequestOK(req[q])'
  BY <1>1, <1>3, NoRequest
<1>8. AccessInv'
  BY <1>1, <1>2, <1>4, <1>5, <1>6, <1>7, Parts DEF Shape
<1> QED
  BY <1>1, <1>8, QuietAnswer

\* Time passes, or a token is deleted.
LEMMA OutsideStep ==
  ASSUME AccessInv, Tick \/ \E t \in Known(tokData), cascade \in BOOLEAN : RevokeToken(t, cascade)
  PROVE  AccessInv' /\ AnswerInv'
<1>1. /\ answer' = Nil /\ UNCHANGED <<proofs, usedNonces, tokData, req, accepted, evicted>>
      /\ tokens' \subseteq tokens /\ refreshable' \subseteq refreshable
      /\ now' = now \/ (now < MaxTime /\ now' = now + 1)
  BY DEF Tick, RevokeToken, storage, history
<1>2. Shape /\ now \in Nat /\ MaxTime \in Nat
  BY ResourceAssumption DEF AccessInv, Shape
<1>3. now' \in 0..MaxTime /\ now <= now'
  BY <1>1, <1>2 DEF Shape
<1>4. Grows
  BY <1>1, <1>2, <1>3 DEF Grows, Shape
<1>5. req' \in [Procs -> Requests] /\ \A q \in Procs : RequestOK(req[q])'
  BY <1>1, <1>4, NoRequest
<1>6. \A j \in Jtis : CachedOK(j)'
  BY <1>1, <1>4, CacheStays
<1>7. Cardinality(Known(usedNonces')) <= maxNonceCacheSize
  BY <1>1 DEF AccessInv
<1>8. tokens' \subseteq Known(tokData') /\ refreshable' \subseteq Known(tokData')
  BY <1>1, <1>2 DEF Shape
<1>9. AccessInv'
  BY <1>1, <1>2, <1>3, <1>5, <1>6, <1>7, <1>8, Parts DEF Shape
<1> QED
  BY <1>1, <1>9, QuietAnswer

-----------------------------------------------------------------------------
(* The theorems.                                                           *)

\* The initial state satisfies the invariant.
LEMMA InitHolds ==
  ASSUME Init
  PROVE  AccessInv /\ AnswerInv
<1>1. Known(usedNonces) = {} /\ Known(tokData) = {}
  BY DEF Init, Known
<1>2. Shape
  BY <1>1, ResourceAssumption DEF Init, Shape
<1>3. \A p \in Procs : req[p] \notin Waiting /\ req[p] \notin Serving
  BY Kinds DEF Init
<1>4. \A j \in Jtis : CachedOK(j)
  BY <1>1 DEF Init, CachedOK
<1>5. Cardinality(Known(usedNonces)) <= maxNonceCacheSize
  BY <1>1, FS_EmptySet, ResourceAssumption
<1>6. AnswerInv
  BY DEF Init, AnswerInv, ReplayNeedsExcuse, HolderOfKey, RevokedNotServed, SignedUnlessRevoked, RequiredMeansBound, Answered
<1> QED
  BY <1>2, <1>3, <1>4, <1>5, <1>6 DEF AccessInv

\* Every step preserves it: one case per action.
LEMMA NextHolds ==
  ASSUME AccessInv, AnswerInv, [Next]_vars
  PROVE  AccessInv' /\ AnswerInv'
<1>1. CASE Tick \/ \E t \in Known(tokData), cascade \in BOOLEAN : RevokeToken(t, cascade)
  BY <1>1, OutsideStep
<1>2. CASE cleanupLoop
  BY <1>2, CleanupStep
<1>3. ASSUME NEW p \in Procs, NEW j \in Jtis \cup {Nil}, NEW cert \in Certs \cup {Nil},
             \/ Arrive(p, "token", j, cert, Nil)
             \/ \E t \in Known(tokData) : Arrive(p, "userinfo", j, cert, t)
      PROVE  AccessInv' /\ AnswerInv'
  <2>1. CASE Arrive(p, "token", j, cert, Nil)
    <3>1. "token" \in Targets /\ Nil \in Known(tokData) \cup {Nil}
      BY DEF Targets
    <3> QED
      BY <2>1, <3>1, ArriveStep
  <2>2. ASSUME NEW t \in Known(tokData), Arrive(p, "userinfo", j, cert, t)
        PROVE  AccessInv' /\ AnswerInv'
    <3>1. "userinfo" \in Targets /\ t \in Known(tokData) \cup {Nil}
      BY DEF Targets
    <3> QED
      BY <2>2, <3>1, ArriveStep
  <2> QED
    BY <1>3, <2>1, <2>2
<1>4. ASSUME NEW p \in Procs, RecordProof(p)
      PROVE  AccessInv' /\ AnswerInv'
  BY <1>4, RecordStep
<1>5. ASSUME NEW p \in Procs, NEW c \in Clients, NEW assertion \in BOOLEAN, NEW refresh \in BOOLEAN,
             createTokenResponse(p, c, assertion, refresh) \/ handleTokenExchange(p, c, assertion, refresh)
      PROVE  AccessInv' /\ AnswerInv'
  BY <1>5, IssueStep
<1>6. ASSUME NEW p \in Procs, CheckBinding(p)
      PROVE  AccessInv' /\ AnswerInv'
  BY <1>6, CheckStep
<1>7. ASSUME NEW p \in Procs, SetUserinfoFromToken(p)
      PROVE  AccessInv' /\ AnswerInv'
  <2>1. /\ req[p].pc = "claims" /\ answer' = Nil /\ UNCHANGED Protected
        /\ Goto(p, "format") \/ Refuse(p)
    BY <1>7 DEF SetUserinfoFromToken
  <2> QED
    BY <2>1, ServeStep, QuietAnswer
<1>8. ASSUME NEW p \in Procs, NEW accept \in BOOLEAN, shouldReturnJWT(p, accept)
      PROVE  AccessInv' /\ AnswerInv'
  BY <1>8, FormatStep
<1>9. ASSUME NEW p \in Procs, writeJWTResponse(p)
      PROVE  AccessInv' /\ AnswerInv'
  BY <1>9, FormatStep
<1>10. CASE UNCHANGED vars
  <2>1. UNCHANGED Protected /\ req' = req /\ answer' = answer
    BY <1>10 DEF vars, Protected, storage, history
  <2>2. UNCHANGED <<now, proofs, usedNonces, tokens, tokData, refreshable, accepted, evicted>>
    BY <1>10 DEF vars
  <2>3. AnswerInv'
    BY <2>1, <2>2 DEF AnswerInv, ReplayNeedsExcuse, HolderOfKey, RevokedNotServed, SignedUnlessRevoked,
                      RequiredMeansBound, Answered
  <2>4. AccessInv'
    BY <2>1, <2>2 DEF AccessInv, Shape, Known, WaitingOK, ServingOK, CachedOK
  <2> QED
    BY <2>3, <2>4
<1> QED
  BY <1>1, <1>2, <1>3, <1>4, <1>5, <1>6, <1>7, <1>8, <1>9, <1>10 DEF Next

\* The inductive invariant: the cache, the stored tokens and the requests in flight agree,
\* and what was let in or answered last was so by right.
THEOREM AccessInvariance == Spec => [](AccessInv /\ AnswerInv)
<1>1. Init => AccessInv /\ AnswerInv
  BY InitHolds
<1>2. AccessInv /\ AnswerInv /\ [Next]_vars => (AccessInv /\ AnswerInv)'
  BY NextHolds
<1> QED
  BY <1>1, <1>2, PTL DEF Spec

\* The replay cache never outgrows its limit, and a proof passes it twice only after the full cache
\* dropped it, if it was first accepted early, or if the second request was held up (dpop.go:107-176).
THEOREM ReplayGuardedHolds == Spec => []ReplayGuarded
<1>1. AccessInv /\ AnswerInv => ReplayGuarded
  BY DEF AccessInv, AnswerInv, ReplayGuarded
<1> QED
  BY <1>1, AccessInvariance, PTL

\* However its lookups and a revocation interleave, userinfo answers the holder of a token that was
\* not deleted before the request, signed where the client asked for it (userinfo.go:136-290).
THEOREM UserinfoGuardedHolds == Spec => []UserinfoGuarded
<1>1. ASSUME AccessInv, AnswerInv
      PROVE  UserinfoGuarded
  <2>1. Shape
    BY <1>1 DEF AccessInv
  <2>2. \A j \in Known(usedNonces) : usedNonces[j] <= now /\ accepted[j] # Nil
    <3>1. \A j \in Known(usedNonces) : j \in Jtis
      BY <2>1 DEF Shape, Known
    <3> QED
      BY <1>1, <3>1 DEF AccessInv, CachedOK
  <2>3. \A t \in Known(tokData) : tokData[t].client \in Clients /\ tokData[t].cnf \in CNF
    <3>1. \A t \in Known(tokData) : tokData[t] \in Token
      BY <2>1 DEF Shape, Known
    <3> QED
      BY <3>1 DEF Token
  <2>4. \A p \in Procs : req[p].pc \in {"idle", "record", "token", "userinfo", "claims", "format", "sign"}
    <3>1. \A r \in {Idle} \cup Waiting \cup Serving :
             r.pc \in {"idle", "record", "token", "userinfo", "claims", "format", "sign"}
      BY DEF Idle, Waiting, Serving
    <3> QED
      BY <2>1, <3>1 DEF Shape
  <2>5. TypeOK
    BY <2>1, <2>2, <2>3, <2>4 DEF TypeOK, Shape
  <2> QED
    BY <1>1, <2>5 DEF UserinfoGuarded, AnswerInv
<1> QED
  BY <1>1, AccessInvariance, PTL

\* A required binding is made when a token is issued, whichever of the engine and the client requires
\* it, and introspection tells it while the token is stored (token.go:1448-1482, storage/userinfo.go:22-57).
THEOREM BindingKeptHolds == Spec => []BindingKept
<1>1. ASSUME AccessInv, AnswerInv
      PROVE  BindingKept
  <2>1. IntrospectionTellsBinding
    BY DEF IntrospectionTellsBinding, SetIntrospectionFromToken, Lookup
  <2> QED
    BY <1>1, <2>1 DEF BindingKept, AnswerInv
<1> QED
  BY <1>1, AccessInvariance, PTL

-----------------------------------------------------------------------------
(***************************************************************************)
(* The engine that these endpoints are plugins of: Engine for any plugins  *)
(* offered, doubled, disabled and registered by hand.                      *)
(***************************************************************************)

-----------------------------------------------------------------------------
(* The invariant.                                                          *)

PluginRecord == [name : Names, configured : BOOLEAN]

EngineForm ==
    /\ stores \subseteq StorageCapability
    /\ configs \in [Endpoints -> EndpointConfig]
    /\ candidates \in [Offered -> Int]
    /\ plugins \in Seq(PluginRecord)
    /\ contributors \in Seq(PluginRecord)
    /\ phase \in {"new", "open", "panic"}
    /\ byHand \in Nat

\* The document is made of the plugins known at the last Build, which come first.
Snapshot ==
    /\ Len(contributors) <= Len(plugins)
    /\ \A i \in 1..Len(contributors) : contributors[i] = plugins[i]

\* Every path of a plugin is served, by it or by a later plugin with the same endpoint.
RouterInv ==
    /\ \A path \in DOMAIN router :
          /\ router[path] \in 1..Len(plugins)
          /\ path[1] \in Plugin[plugins[router[path]].name].routes
    /\ \A i \in 1..Len(plugins) : \A ep \in Plugin[plugins[i].name].routes :
          /\ GetRoutePath(plugins[i], ep) \in DOMAIN router
          /\ i <= router[GetRoutePath(plugins[i], ep)]

\* Between plugins that there are, and between the last ones since nobody came after Build.
HookInv(conn, to, from) ==
    /\ \A i \in DOMAIN conn : i \in 1..Len(plugins) /\ conn[i] \in 1..Len(plugins)
    /\ contributors = plugins /\ to \in Registered /\ from \in Registered => LastOf(to) \in DOMAIN conn

\* What came out of Build went through Validate and is wrapped in its middleware.
BuiltInv ==
    /\ phase = "new" => layers = << >>
    /\ Built => \A i \in 1..Len(contributors) :
          /\ contributors[i].name \in Categorizable => Plugin[contributors[i].name].requires \subseteq stores
          /\ contributors[i].name \in MiddlewareProviders => Contains(layers, contributors[i].name)
          /\ contributors[i].name = "authorization" => \A n \in {"token", "userinfo", "keys", "endsession"} :
                \E j \in 1..Len(contributors) : contributors[j].name = n

\* New registers in the order of the priorities.
SortedInv ==
    /\ phase = "new" => /\ byHand = 0
                        /\ \A i \in 1..Len(plugins) : \A m \in Left : Plugin[plugins[i].name].priority <= Plugin[m].priority
    /\ byHand = 0 => \A i, j \in 1..Len(plugins) :
          i <= j => Plugin[plugins[i].name].priority <= Plugin[plugins[j].name].priority

EngineInv ==
    /\ EngineForm /\ Snapshot /\ RouterInv
    /\ HookInv(logoutHook, "endsession", "backchannel") /\ HookInv(jarmSigner, "authorization", "jarm")
    /\ nonceSender = << >>
    /\ BuiltInv /\ SortedInv

-----------------------------------------------------------------------------
(* The built-in plugins.                                                   *)

\* A plugin's endpoints are among the endpoints.
LEMMA RoutesAreEndpoints == \A n \in Names : Plugin[n].routes \subseteq Endpoints
  BY DEF Endpoints

\* Who owns the endpoints that the connections are about.
LEMMA EndpointOwners ==
  \A n \in Names :
     /\ "endsession" \in Plugin[n].routes <=> n = "endsession"
     /\ "authorize" \in Plugin[n].routes <=> n = "authorization"
     /\ Plugin[n].priority \in Int
  BY DEF Names, Plugin, Decl, authorization, token, keys, discovery, userinfo,
         introspection, revocation, endsession, backchannel, device, par, dpop, jarm,
         dcr, ciba, mtls, webfinger, extension

\* The priorities that the conditional contributions rely on.
LEMMA Priorities ==
  /\ Plugin["discovery"].priority = 400 /\ Plugin["jarm"].priority = 975
  /\ Plugin["ciba"].priority = 1050 /\ Plugin["mtls"].priority = 1060
  /\ \A n \in Names : Plugin[n].priority >= 1060 => n \in {"mtls", "webfinger", "extension"}
<1>1. /\ Plugin["discovery"].priority = 400 /\ Plugin["jarm"].priority = 975
      /\ Plugin["ciba"].priority = 1050 /\ Plugin["mtls"].priority = 1060
  BY DEF Plugin, Decl, discovery, jarm, ciba, mtls
<1>2. \A n \in Names : Plugin[n].priority >= 1060 => n \in {"mtls", "webfinger", "extension"}
  BY DEF Names, Plugin, Decl, authorization, token, keys, discovery, userinfo,
         introspection, revocation, endsession, backchannel, device, par, dpop, jarm,
         dcr, ciba, mtls, webfinger, extension
<1> QED
  BY <1>1, <1>2

-----------------------------------------------------------------------------
(* The discovery document: what one plugin adds.                           *)

EndpointMaps == UNION {[S -> Endpoints \X {"default", "moved"}] : S \in SUBSET Endpoints}

\* The grants, response modes and features that a document may announce, and the aliases.
Announced ==
    {"authorization_code", "client_credentials", "refresh_token", "jwt-bearer", "token-exchange", "device_code", "ciba",
     "query", "fragment", "form_post", "jwt", "request_object_algs", "backchannel_logout", "dpop", "jarm_algs",
     "ciba_algs", "mtls", "introspection", "revocation", "token", "userinfo", "dcr", "device", "par"}

DocumentForm ==
    [endpoints : EndpointMaps, grants : SUBSET Announced, modes : SUBSET Announced, features : SUBSET Announced,
     aliases : SUBSET Announced]

\* An endpoint of the new document is an old one or p's.
EndpointsFrom(doc, new, p) ==
    \A ep \in DOMAIN new.endpoints :
        \/ ep \in DOMAIN doc.endpoints /\ new.endpoints[ep] = doc.endpoints[ep]
        \/ ep \in Plugin[p.name].routes /\ new.endpoints[ep] = GetDiscoveryURL(p, ep)

\* What p adds that is its own.
ClaimsFrom(doc, new, p) ==
    /\ \A x \in {"dpop", "mtls"} : x \in new.features => x \in doc.features \/ p.name = x
    /\ "backchannel_logout" \in new.features => "backchannel_logout" \in doc.features \/ p.name = "backchannel"
    /\ "jwt" \in new.modes => "jwt" \in doc.modes \/ p.name = "jarm"

\* What p adds when it finds what it depends on, and what stays.
Conditional(doc, new, p) ==
    /\ doc.features \subseteq new.features
    /\ p.name = "discovery" => "request_object_algs" \in new.features
    /\ p.name = "jarm" /\ "request_object_algs" \in doc.features => "jarm_algs" \in new.features
    /\ p.name = "ciba" /\ "request_object_algs" \in doc.features => "ciba_algs" \in new.features
    /\ p.name = "mtls" =>
          /\ {"dcr", "device", "par", "ciba"} \cap DOMAIN new.endpoints \subseteq new.aliases
          /\ {"introspection", "revocation"} \cap DOMAIN new.endpoints \subseteq new.features
    /\ p.name \in {"webfinger", "extension"} => new = doc

Adds(doc, new, p) ==
    new \in DocumentForm /\ EndpointsFrom(doc, new, p) /\ ClaimsFrom(doc, new, p) /\ Conditional(doc, new, p)

\* An endpoint of its own.
LEMMA WithEndpointForm ==
  ASSUME configs \in [Endpoints -> EndpointConfig], NEW doc \in DocumentForm, NEW p \in PluginRecord,
         NEW ep \in Plugin[p.name].routes
  PROVE  LET new == WithEndpoint(doc, p, ep)
         IN  /\ new \in DocumentForm /\ EndpointsFrom(doc, new, p)
             /\ new.features = doc.features /\ new.modes = doc.modes /\ new.aliases = doc.aliases
             /\ new.grants = doc.grants
<1> DEFINE new == WithEndpoint(doc, p, ep)
           eps == Overridden(doc.endpoints, [x \in {ep} |-> GetDiscoveryURL(p, ep)])
<1>1. ep \in Endpoints /\ p.configured \in BOOLEAN
  BY RoutesAreEndpoints DEF PluginRecord
<1>2. GetDiscoveryURL(p, ep) \in Endpoints \X {"default", "moved"}
  BY <1>1 DEF GetDiscoveryURL, EndpointConfig
<1>3. PICK S \in SUBSET Endpoints : doc.endpoints \in [S -> Endpoints \X {"default", "moved"}]
  BY DEF DocumentForm, EndpointMaps
<1>4. DOMAIN eps = S \cup {ep} /\ eps[ep] = GetDiscoveryURL(p, ep) /\ \A x \in S : x # ep => eps[x] = doc.endpoints[x]
  BY <1>3 DEF Overridden
<1>5. eps \in [S \cup {ep} -> Endpoints \X {"default", "moved"}]
  <2>1. \A x \in S \cup {ep} : eps[x] \in Endpoints \X {"default", "moved"}
    BY <1>2, <1>3, <1>4
  <2>2. eps = [x \in DOMAIN eps |-> eps[x]]
    BY DEF Overridden
  <2> QED
    BY <1>4, <2>1, <2>2
<1>6. S \cup {ep} \in SUBSET Endpoints
  BY <1>1
<1>7. eps \in EndpointMaps
  BY <1>5, <1>6 DEF EndpointMaps
<1>8. new = [doc EXCEPT !.endpoints = eps]
  BY DEF WithEndpoint
<1> HIDE DEF eps
<1>9. /\ new \in DocumentForm /\ new.endpoints = eps /\ new.features = doc.features /\ new.modes = doc.modes
      /\ new.aliases = doc.aliases /\ new.grants = doc.grants
  BY <1>7, <1>8 DEF DocumentForm
<1>10. EndpointsFrom(doc, new, p)
  BY <1>3, <1>4, <1>9 DEF EndpointsFrom
<1> QED
  BY <1>9, <1>10


\* Who has an endpoint field of the document.
LEMMA OwnEndpoints ==
  /\ "authorize" \in Plugin["authorization"].routes /\ "token" \in Plugin["token"].routes
  /\ "keys" \in Plugin["keys"].routes /\ "userinfo" \in Plugin["userinfo"].routes
  /\ "introspection" \in Plugin["introspection"].routes /\ "revocation" \in Plugin["revocation"].routes
  /\ "endsession" \in Plugin["endsession"].routes /\ "backchannel" \in Plugin["backchannel"].routes
  /\ "device" \in Plugin["device"].routes /\ "par" \in Plugin["par"].routes
  /\ "dcr" \in Plugin["dcr"].routes /\ "ciba" \in Plugin["ciba"].routes
  BY DEF Plugin, Decl, authorization, token, keys, discovery, userinfo, introspection,
         revocation, endsession, backchannel, device, par, dcr, ciba

\* What each plugin's Contribute does to the document.
LEMMA ContributeAdds ==
  ASSUME configs \in [Endpoints -> EndpointConfig], NEW doc \in DocumentForm, NEW p \in PluginRecord,
         NEW new, new = Contribute(doc, p)
  PROVE  Adds(doc, new, p)
<1>1. p.name \in Names /\ EndpointsFrom(doc, doc, p)
  BY DEF PluginRecord, EndpointsFrom
<1>2. ASSUME NEW ep \in Plugin[p.name].routes
      PROVE  \E mid \in DocumentForm :
                 /\ mid = WithEndpoint(doc, p, ep) /\ EndpointsFrom(doc, mid, p)
                 /\ mid.features = doc.features /\ mid.modes = doc.modes
  BY WithEndpointForm
<1>3. ASSUME NEW mid \in DocumentForm, EndpointsFrom(doc, mid, p), new.endpoints = mid.endpoints
      PROVE  EndpointsFrom(doc, new, p)
  BY <1>3 DEF EndpointsFrom
<1>4. CASE p.name = "authorization"
  <2>1. PICK mid \in DocumentForm :
              /\ mid = WithEndpoint(doc, p, "authorize") /\ EndpointsFrom(doc, mid, p)
              /\ mid.features = doc.features /\ mid.modes = doc.modes
    BY <1>2, <1>4, OwnEndpoints
  <2>2. new = [mid EXCEPT !.grants = @ \cup {"authorization_code"}, !.modes = @ \cup {"query", "fragment", "form_post"}]
    BY <1>4, <2>1 DEF Contribute, ContributeAuthorization
  <2>3. /\ new \in DocumentForm /\ new.endpoints = mid.endpoints
        /\ new.features = doc.features \cup {} /\ new.modes = doc.modes \cup {"query", "fragment", "form_post"}
    <3>1. /\ new.endpoints = mid.endpoints
          /\ new.features = doc.features \cup {} /\ new.modes = doc.modes \cup {"query", "fragment", "form_post"}
      BY <2>1, <2>2 DEF DocumentForm
    <3>2. /\ mid.grants \cup {"authorization_code"} \in SUBSET Announced
          /\ mid.modes \cup {"query", "fragment", "form_post"} \in SUBSET Announced
      BY <2>1 DEF DocumentForm, Announced
    <3>3. new \in DocumentForm
      BY <2>1, <2>2, <3>2 DEF DocumentForm
    <3> QED
      BY <3>1, <3>3
  <2> QED
    BY <1>3, <1>4, <2>1, <2>3 DEF Adds, ClaimsFrom, Conditional
<1>5. CASE p.name = "token"
  <2>1. PICK mid \in DocumentForm :
              /\ mid = WithEndpoint(doc, p, "token") /\ EndpointsFrom(doc, mid, p)
              /\ mid.features = doc.features /\ mid.modes = doc.modes
    BY <1>2, <1>5, OwnEndpoints
  <2>2. new = [mid EXCEPT !.grants = @ \cup {"client_credentials", "refresh_token", "jwt-bearer", "token-exchange"}]
    BY <1>5, <2>1 DEF Contribute, ContributeToken
  <2>3. /\ new \in DocumentForm /\ new.endpoints = mid.endpoints
        /\ new.features = doc.features \cup {} /\ new.modes = doc.modes \cup {}
    BY <2>1, <2>2 DEF DocumentForm, Announced
  <2> QED
    BY <1>3, <1>5, <2>1, <2>3 DEF Adds, ClaimsFrom, Conditional
<1>6. CASE p.name = "backchannel"
  <2>1. PICK mid \in DocumentForm :
              /\ mid = WithEndpoint(doc, p, "backchannel") /\ EndpointsFrom(doc, mid, p)
              /\ mid.features = doc.features /\ mid.modes = doc.modes
    BY <1>2, <1>6, OwnEndpoints
  <2>2. new = [mid EXCEPT !.features = @ \cup {"backchannel_logout"}]
    BY <1>6, <2>1 DEF Contribute, ContributeBackchannel
  <2>3. /\ new \in DocumentForm /\ new.endpoints = mid.endpoints
        /\ new.features = doc.features \cup {"backchannel_logout"} /\ new.modes = doc.modes \cup {}
    BY <2>1, <2>2 DEF DocumentForm, Announced
  <2> QED
    BY <1>3, <1>6, <2>1, <2>3 DEF Adds, ClaimsFrom, Conditional
<1>7. CASE p.name = "device"
  <2>1. PICK mid \in DocumentForm :
              /\ mid = WithEndpoint(doc, p, "device") /\ EndpointsFrom(doc, mid, p)
              /\ mid.features = doc.features /\ mid.modes = doc.modes
    BY <1>2, <1>7, OwnEndpoints
  <2>2. new = [mid EXCEPT !.grants = @ \cup {"device_code"}]
    BY <1>7, <2>1 DEF Contribute, ContributeDevice
  <2>3. /\ new \in DocumentForm /\ new.endpoints = mid.endpoints
        /\ new.features = doc.features \cup {} /\ new.modes = doc.modes \cup {}
    BY <2>1, <2>2 DEF DocumentForm, Announced
  <2> QED
    BY <1>3, <1>7, <2>1, <2>3 DEF Adds, ClaimsFrom, Conditional
<1>8. CASE p.name \in {"keys", "userinfo", "introspection", "revocation", "endsession", "par", "dcr"}
  <2>1. PICK mid \in DocumentForm :
              /\ mid = WithEndpoint(doc, p, p.name) /\ EndpointsFrom(doc, mid, p)
              /\ mid.features = doc.features /\ mid.modes = doc.modes
    BY <1>2, <1>8, OwnEndpoints
  <2>2. new = mid
    BY <1>8, <2>1 DEF Contribute, ContributeKeys, ContributeUserinfo, ContributeIntrospection,
                      ContributeRevocation, ContributeEndsession, ContributePar, ContributeDcr
  <2> QED
    BY <1>8, <2>1, <2>2 DEF Adds, ClaimsFrom, Conditional
<1>9. CASE p.name = "ciba"
  <2>1. PICK mid \in DocumentForm :
              /\ mid = WithEndpoint(doc, p, "ciba") /\ EndpointsFrom(doc, mid, p)
              /\ mid.features = doc.features /\ mid.modes = doc.modes
    BY <1>2, <1>9, OwnEndpoints
  <2> DEFINE more == IF "request_object_algs" \in mid.features THEN {"ciba_algs"} ELSE {}
  <2>2. new = [mid EXCEPT !.grants = @ \cup {"ciba"}, !.features = @ \cup more]
    BY <1>9, <2>1 DEF Contribute, ContributeCiba
  <2>3. more \in SUBSET Announced /\ "ciba_algs" # "dpop" /\ more \subseteq {"ciba_algs"}
    BY DEF Announced
  <2>4. "request_object_algs" \in mid.features => "ciba_algs" \in more
    OBVIOUS
  <2> HIDE DEF more
  <2>5. /\ new \in DocumentForm /\ new.endpoints = mid.endpoints
        /\ new.features = doc.features \cup more /\ new.modes = doc.modes
    <3>1. new.endpoints = mid.endpoints /\ new.features = doc.features \cup more /\ new.modes = doc.modes
      BY <2>1, <2>2 DEF DocumentForm
    <3>2. /\ mid.grants \cup {"ciba"} \in SUBSET Announced
          /\ mid.features \cup more \in SUBSET Announced
      BY <2>1, <2>3 DEF DocumentForm, Announced
    <3>3. new \in DocumentForm
      BY <2>1, <2>2, <3>2 DEF DocumentForm
    <3> QED
      BY <3>1, <3>3
  <2> QED
    BY <1>3, <1>9, <2>1, <2>3, <2>4, <2>5 DEF Adds, ClaimsFrom, Conditional
<1>10. CASE p.name \in {"discovery", "dpop"}
  <2>1. PICK f \in {"request_object_algs", "dpop"} :
              /\ new = [doc EXCEPT !.features = @ \cup {f}]
              /\ p.name = "discovery" => f = "request_object_algs"
              /\ p.name = "dpop" => f = "dpop"
    BY <1>10 DEF Contribute, ContributeDiscovery, ContributeDpop
  <2>2. /\ new \in DocumentForm /\ new.endpoints = doc.endpoints
        /\ new.features = doc.features \cup {f} /\ new.modes = doc.modes
    BY <2>1 DEF DocumentForm, Announced
  <2> QED
    BY <1>1, <1>3, <1>10, <2>1, <2>2 DEF Adds, ClaimsFrom, Conditional
<1>11. CASE p.name = "jarm"
  <2> DEFINE more == IF "request_object_algs" \in doc.features THEN {"jarm_algs"} ELSE {}
  <2>1. new = [doc EXCEPT !.modes = @ \cup {"jwt"}, !.features = @ \cup more]
    BY <1>11 DEF Contribute, ContributeJarm
  <2>2. more \in SUBSET Announced /\ more \subseteq {"jarm_algs"}
    BY DEF Announced
  <2>3. "request_object_algs" \in doc.features => "jarm_algs" \in more
    OBVIOUS
  <2> HIDE DEF more
  <2>4. /\ new \in DocumentForm /\ new.endpoints = doc.endpoints
        /\ new.features = doc.features \cup more /\ new.modes = doc.modes \cup {"jwt"}
    <3>1. new.endpoints = doc.endpoints /\ new.features = doc.features \cup more /\ new.modes = doc.modes \cup {"jwt"}
      BY <2>1 DEF DocumentForm
    <3>2. /\ doc.modes \cup {"jwt"} \in SUBSET Announced
          /\ doc.features \cup more \in SUBSET Announced
      BY <2>2 DEF DocumentForm, Announced
    <3>3. new \in DocumentForm
      BY <2>1, <3>2 DEF DocumentForm
    <3> QED
      BY <3>1, <3>3
  <2> QED
    BY <1>1, <1>3, <1>11, <2>2, <2>3, <2>4 DEF Adds, ClaimsFrom, Conditional
<1>12. CASE p.name = "mtls"
  <2> DEFINE seen == {"introspection", "revocation"} \cap DOMAIN doc.endpoints
             aliased == {"dcr", "device", "par", "ciba"} \cap DOMAIN doc.endpoints
             always == {"token", "userinfo", "revocation", "introspection"}
  <2>1. new = [doc EXCEPT !.aliases = always \cup aliased, !.features = @ \cup {"mtls"} \cup seen]
    BY <1>12 DEF Contribute, ContributeMtls
  <2>2. always \cup aliased \in SUBSET Announced /\ doc.features \cup {"mtls"} \cup seen \in SUBSET Announced
    BY DEF Announced, DocumentForm
  <2>3. seen \subseteq {"introspection", "revocation"}
    OBVIOUS
  <2> HIDE DEF seen, aliased, always
  <2>4. /\ new \in DocumentForm /\ new.endpoints = doc.endpoints /\ new.aliases = always \cup aliased
        /\ new.features = doc.features \cup {"mtls"} \cup seen /\ new.modes = doc.modes
    BY <2>1, <2>2 DEF DocumentForm
  <2>5. ClaimsFrom(doc, new, p)
    BY <1>12, <2>3, <2>4 DEF ClaimsFrom
  <2>6. Conditional(doc, new, p)
    BY <1>12, <2>4 DEF Conditional, seen, aliased
  <2> QED
    BY <1>1, <1>3, <2>4, <2>5, <2>6 DEF Adds
<1>13. CASE p.name \in {"webfinger", "extension"}
  <2>1. new = doc
    BY <1>13 DEF Contribute
  <2> QED
    BY <1>1, <1>13, <2>1 DEF Adds, ClaimsFrom, Conditional
<1>14. Names = {"authorization", "token", "keys", "discovery", "userinfo", "introspection", "revocation", "endsession",
               "backchannel", "device", "par", "dpop", "jarm", "dcr", "ciba", "mtls", "webfinger", "extension"}
  BY DEF Names, Plugin
<1> QED
  BY <1>1, <1>4, <1>5, <1>6, <1>7, <1>8, <1>9, <1>10, <1>11, <1>12, <1>13, <1>14


-----------------------------------------------------------------------------
(* The loops of Build and of the discovery handler, by least counterexample. *)

\* The loop over the contributors has a run of any length.
LEMMA DocumentRuns ==
  ASSUME NEW n \in Nat
  PROVE  \E d : d = [i \in 0..n |-> IF i = 0 THEN EmptyDocument ELSE Contribute(d[i - 1], contributors[i])]
<1> DEFINE Run(m, d) == d = [i \in 0..m |-> IF i = 0 THEN EmptyDocument ELSE Contribute(d[i - 1], contributors[i])]
           T == {m \in Nat : ~\E d : Run(m, d)}
<1>1. SUFFICES ASSUME T # {} PROVE FALSE
  OBVIOUS
<1>2. PICK m \in T : \A y \in T : m <= y
  <2>1. T \in SUBSET Nat
    OBVIOUS
  <2> HIDE DEF T
  <2> QED
    BY <1>1, <2>1, Least
<1>3. m # 0
  <2> DEFINE e == [i \in 0..0 |-> EmptyDocument]
  <2>1. Run(0, e)
    OBVIOUS
  <2>2. 0 \notin T
    BY <2>1
  <2> QED
    BY <1>2, <2>2
<1>4. m \in Nat /\ m - 1 \in Nat /\ m - 1 \notin T
  <2>1. m \in Nat /\ m - 1 \in Nat /\ ~(m <= m - 1)
    BY <1>2, <1>3
  <2> QED
    BY <1>2, <2>1
<1>5. PICK d : Run(m - 1, d)
  BY <1>4
<1> DEFINE g == [i \in 0..m |-> IF i = m THEN Contribute(d[m - 1], contributors[m]) ELSE d[i]]
<1>6. \A i \in 0..m - 1 : d[i] = IF i = 0 THEN EmptyDocument ELSE Contribute(d[i - 1], contributors[i])
  BY <1>5
<1>7. \A i \in 0..m : g[i] = IF i = 0 THEN EmptyDocument ELSE Contribute(g[i - 1], contributors[i])
  <2> TAKE i \in 0..m
  <2>1. CASE i = m
    <3>1. m - 1 \in 0..m /\ m - 1 # m
      BY <1>4
    <3> QED
      BY <1>3, <1>4, <2>1, <3>1
  <2>2. CASE i # m /\ i = 0
    BY <1>4, <1>6, <2>2
  <2>3. CASE i # m /\ i # 0
    <3>1. i \in 0..m - 1 /\ i - 1 \in 0..m /\ i - 1 # m
      BY <1>4, <2>3
    <3> QED
      BY <1>4, <1>6, <2>3, <3>1
  <2> QED
    BY <2>1, <2>2, <2>3
<1>8. Run(m, g)
  <2>1. g = [i \in 0..m |-> g[i]]
    OBVIOUS
  <2> HIDE DEF g
  <2> QED
    BY <1>7, <2>1
<1>9. m \notin T
  BY <1>8
<1> QED
  BY <1>2, <1>9

\* The document is what the loop has left at its end.
LEMMA DocumentLoop ==
  ASSUME contributors \in Seq(PluginRecord)
  PROVE  \E d : /\ d[0] = EmptyDocument
                /\ \A i \in 1..Len(contributors) : d[i] = Contribute(d[i - 1], contributors[i])
                /\ Document = d[Len(contributors)]
<1> DEFINE n == Len(contributors)
           D == CHOOSE d : d = [i \in 0..n |-> IF i = 0 THEN EmptyDocument ELSE Contribute(d[i - 1], contributors[i])]
<1>1. n \in Nat
  OBVIOUS
<1>2. D = [i \in 0..n |-> IF i = 0 THEN EmptyDocument ELSE Contribute(D[i - 1], contributors[i])]
  BY <1>1, DocumentRuns
<1>3. Document = D[n]
  BY DEF Document
<1> HIDE DEF D
<1>4. D[0] = EmptyDocument
  BY <1>1, <1>2
<1>5. \A i \in 1..n : D[i] = Contribute(D[i - 1], contributors[i])
  <2> TAKE i \in 1..n
  <2>1. i \in 0..n /\ i # 0
    BY <1>1
  <2> QED
    BY <1>2, <2>1
<1> QED
  BY <1>3, <1>4, <1>5


\* What the first i contributors have left.
DocumentFacts(doc, i) ==
    /\ doc \in DocumentForm
    /\ \A ep \in DOMAIN doc.endpoints : \E j \in 1..i :
          ep \in Plugin[contributors[j].name].routes /\ doc.endpoints[ep] = GetDiscoveryURL(contributors[j], ep)
    /\ \A x \in {"dpop", "mtls"} : x \in doc.features => \E j \in 1..i : contributors[j].name = x
    /\ "backchannel_logout" \in doc.features => \E j \in 1..i : contributors[j].name = "backchannel"
    /\ "jwt" \in doc.modes => \E j \in 1..i : contributors[j].name = "jarm"

\* What they have left if they came in the order of their priorities.
OrderFacts(doc, i) ==
    LET Had(n) == \E j \in 1..i : contributors[j].name = n
    IN /\ Had("discovery") => "request_object_algs" \in doc.features
       /\ Had("discovery") /\ Had("jarm") => "jarm_algs" \in doc.features
       /\ Had("discovery") /\ Had("ciba") => "ciba_algs" \in doc.features
       /\ Had("mtls") =>
             /\ {"dcr", "device", "par", "ciba"} \cap DOMAIN doc.endpoints \subseteq doc.aliases
             /\ {"introspection", "revocation"} \cap DOMAIN doc.endpoints \subseteq doc.features

InOrderOfPriority(s) ==
    \A i, j \in 1..Len(s) : i <= j => Plugin[s[i].name].priority <= Plugin[s[j].name].priority

\* One round of the loop.
LEMMA DocumentRound ==
  ASSUME configs \in [Endpoints -> EndpointConfig], contributors \in Seq(PluginRecord),
         NEW i \in 1..Len(contributors), NEW doc, DocumentFacts(doc, i - 1),
         NEW new, new = Contribute(doc, contributors[i])
  PROVE  DocumentFacts(new, i)
<1>1. contributors[i] \in PluginRecord /\ Len(contributors) \in Nat /\ i \in Int
  OBVIOUS
<1>2. doc \in DocumentForm
  BY DEF DocumentFacts
<1>3. Adds(doc, new, contributors[i])
  BY <1>1, <1>2, ContributeAdds
<1>4. i \in 1..i /\ \A j \in 1..i - 1 : j \in 1..i
  BY <1>1
<1>5. ASSUME NEW ep \in DOMAIN new.endpoints
      PROVE  \E j \in 1..i :
               ep \in Plugin[contributors[j].name].routes /\ new.endpoints[ep] = GetDiscoveryURL(contributors[j], ep)
  <2>1. CASE ep \in DOMAIN doc.endpoints /\ new.endpoints[ep] = doc.endpoints[ep]
    <3>1. PICK j \in 1..i - 1 :
            ep \in Plugin[contributors[j].name].routes /\ doc.endpoints[ep] = GetDiscoveryURL(contributors[j], ep)
      BY <2>1 DEF DocumentFacts
    <3> QED
      BY <1>4, <2>1, <3>1
  <2>2. CASE ep \in Plugin[contributors[i].name].routes /\ new.endpoints[ep] = GetDiscoveryURL(contributors[i], ep)
    BY <1>4, <2>2
  <2> QED
    BY <1>3, <2>1, <2>2 DEF Adds, EndpointsFrom
<1>6. /\ \A x \in {"dpop", "mtls"} : x \in new.features => \E j \in 1..i : contributors[j].name = x
      /\ "backchannel_logout" \in new.features => \E j \in 1..i : contributors[j].name = "backchannel"
      /\ "jwt" \in new.modes => \E j \in 1..i : contributors[j].name = "jarm"
  BY <1>3, <1>4 DEF Adds, ClaimsFrom, DocumentFacts
<1> QED
  BY <1>3, <1>5, <1>6 DEF Adds, DocumentFacts

\* One round of the loop in the order of the priorities.
LEMMA OrderRound ==
  ASSUME configs \in [Endpoints -> EndpointConfig], contributors \in Seq(PluginRecord),
         InOrderOfPriority(contributors),
         NEW i \in 1..Len(contributors), NEW doc \in DocumentForm, OrderFacts(doc, i - 1),
         NEW new, new = Contribute(doc, contributors[i])
  PROVE  OrderFacts(new, i)
<1> DEFINE p == contributors[i]
           Had(n) == \E j \in 1..i - 1 : contributors[j].name = n
           Has(n) == \E j \in 1..i : contributors[j].name = n
<1>1. p \in PluginRecord /\ p.name \in Names /\ Len(contributors) \in Nat /\ i \in Int
  <2>1. p \in PluginRecord /\ Len(contributors) \in Nat /\ i \in Int
    OBVIOUS
  <2> QED
    BY <2>1 DEF PluginRecord
<1>2. Adds(doc, new, p)
  BY <1>1, ContributeAdds
<1>3. \A n : Has(n) <=> Had(n) \/ p.name = n
  <2>1. \A j \in 1..i : j \in 1..i - 1 \/ j = i
    BY <1>1
  <2>2. i \in 1..i /\ \A j \in 1..i - 1 : j \in 1..i
    BY <1>1
  <2> QED
    BY <2>1, <2>2
<1>4. \A n \in Names : Had(n) => Plugin[n].priority <= Plugin[p.name].priority
  <2> TAKE n \in Names
  <2> HAVE Had(n)
  <2>1. PICK j \in 1..i - 1 : contributors[j].name = n
    OBVIOUS
  <2>2. j \in 1..Len(contributors) /\ j <= i
    BY <1>1
  <2> QED
    BY <2>1, <2>2 DEF InOrderOfPriority
<1>5. {"discovery", "jarm", "ciba", "mtls"} \subseteq Names
  BY DEF Names, Plugin
<1>6. p.name = "discovery" => ~Had("jarm") /\ ~Had("ciba")
  BY <1>4, <1>5, Priorities
<1>7. Had("mtls") => p.name \in {"mtls", "webfinger", "extension"}
  <2>1. Plugin[p.name].priority \in Int
    BY <1>1, EndpointOwners
  <2> QED
    BY <1>1, <1>4, <1>5, <2>1, Priorities
<1>8. /\ Had("discovery") => "request_object_algs" \in doc.features
      /\ Had("discovery") /\ Had("jarm") => "jarm_algs" \in doc.features
      /\ Had("discovery") /\ Had("ciba") => "ciba_algs" \in doc.features
      /\ Had("mtls") =>
            /\ {"dcr", "device", "par", "ciba"} \cap DOMAIN doc.endpoints \subseteq doc.aliases
            /\ {"introspection", "revocation"} \cap DOMAIN doc.endpoints \subseteq doc.features
  BY DEF OrderFacts
<1>9. /\ doc.features \subseteq new.features
      /\ p.name = "discovery" => "request_object_algs" \in new.features
      /\ p.name = "jarm" /\ "request_object_algs" \in doc.features => "jarm_algs" \in new.features
      /\ p.name = "ciba" /\ "request_object_algs" \in doc.features => "ciba_algs" \in new.features
      /\ p.name = "mtls" =>
            /\ {"dcr", "device", "par", "ciba"} \cap DOMAIN new.endpoints \subseteq new.aliases
            /\ {"introspection", "revocation"} \cap DOMAIN new.endpoints \subseteq new.features
      /\ p.name \in {"webfinger", "extension"} => new = doc
  BY <1>2 DEF Adds, Conditional
<1> HIDE DEF p, Had, Has
<1>10. /\ Has("discovery") => "request_object_algs" \in new.features
       /\ Has("discovery") /\ Has("jarm") => "jarm_algs" \in new.features
       /\ Has("discovery") /\ Has("ciba") => "ciba_algs" \in new.features
  BY <1>3, <1>6, <1>8, <1>9
<1>11. Has("mtls") =>
          /\ {"dcr", "device", "par", "ciba"} \cap DOMAIN new.endpoints \subseteq new.aliases
          /\ {"introspection", "revocation"} \cap DOMAIN new.endpoints \subseteq new.features
  <2>1. CASE p.name = "mtls"
    BY <1>9, <2>1
  <2>2. CASE Had("mtls") /\ p.name # "mtls"
    <3>1. new = doc
      BY <1>7, <1>9, <2>2
    <3> QED
      BY <1>8, <2>2, <3>1
  <2> QED
    BY <1>3, <2>1, <2>2
<1> QED
  BY <1>10, <1>11 DEF OrderFacts, Has

\* The whole loop.
LEMMA DocumentHolds ==
  ASSUME configs \in [Endpoints -> EndpointConfig], contributors \in Seq(PluginRecord)
  PROVE  /\ DocumentFacts(Document, Len(contributors))
         /\ InOrderOfPriority(contributors) => OrderFacts(Document, Len(contributors))
<1>1. PICK d : /\ d[0] = EmptyDocument
               /\ \A i \in 1..Len(contributors) : d[i] = Contribute(d[i - 1], contributors[i])
               /\ Document = d[Len(contributors)]
  BY DocumentLoop
<1> DEFINE Good(i) == DocumentFacts(d[i], i) /\ (InOrderOfPriority(contributors) => OrderFacts(d[i], i))
           T == {i \in Nat : i <= Len(contributors) /\ ~Good(i)}
<1>2. Good(0)
  <2>1. EmptyDocument \in DocumentForm
    <3>1. << >> \in [{} -> Endpoints \X {"default", "moved"}]
      OBVIOUS
    <3>2. << >> \in EndpointMaps
      BY <3>1 DEF EndpointMaps
    <3> QED
      BY <3>2 DEF EmptyDocument, DocumentForm
  <2>2. DOMAIN EmptyDocument.endpoints = {} /\ EmptyDocument.features = {} /\ EmptyDocument.modes = {} /\ 1..0 = {}
    BY DEF EmptyDocument
  <2> QED
    BY <1>1, <2>1, <2>2 DEF DocumentFacts, OrderFacts
<1>3. ASSUME NEW i \in 1..Len(contributors), Good(i - 1)
      PROVE  Good(i)
  <2>1. d[i] = Contribute(d[i - 1], contributors[i])
    BY <1>1
  <2>2. DocumentFacts(d[i], i)
    BY <1>3, <2>1, DocumentRound
  <2>3. ASSUME InOrderOfPriority(contributors)
        PROVE  OrderFacts(d[i], i)
    <3>1. OrderFacts(d[i - 1], i - 1) /\ d[i - 1] \in DocumentForm
      BY <1>3, <2>3 DEF DocumentFacts
    <3> QED
      BY <2>1, <2>3, <3>1, OrderRound
  <2> QED
    BY <2>2, <2>3
<1> HIDE DEF Good
<1>4. T = {}
  <2> SUFFICES ASSUME T # {} PROVE FALSE
    OBVIOUS
  <2>1. PICK m \in T : \A y \in T : m <= y
    <3>1. T \in SUBSET Nat
      OBVIOUS
    <3> HIDE DEF T
    <3> QED
      BY <3>1, Least
  <2>2. m \in Nat /\ m # 0 /\ m <= Len(contributors) /\ Len(contributors) \in Nat
    BY <1>2, <2>1
  <2>3. m \in 1..Len(contributors) /\ m - 1 \in Nat /\ m - 1 <= Len(contributors) /\ ~(m <= m - 1)
    BY <2>2
  <2>4. Good(m - 1)
    BY <2>1, <2>3
  <2>5. Good(m)
    BY <1>3, <2>3, <2>4
  <2> QED
    BY <2>1, <2>5
<1>5. Good(Len(contributors))
  <2>1. Len(contributors) \in Nat /\ Len(contributors) <= Len(contributors)
    OBVIOUS
  <2> QED
    BY <1>4, <2>1
<1> QED
  BY <1>1, <1>5 DEF Good


\* The loop that wraps the handler has a run of any length.
LEMMA LayersRun ==
  ASSUME NEW n \in Nat
  PROVE  \E h : h = [i \in 0..n |-> IF i = 0 THEN Inner ELSE Wrapped(h[i - 1], plugins[i])]
<1> DEFINE Run(m, h) == h = [i \in 0..m |-> IF i = 0 THEN Inner ELSE Wrapped(h[i - 1], plugins[i])]
           T == {m \in Nat : ~\E h : Run(m, h)}
<1>1. SUFFICES ASSUME T # {} PROVE FALSE
  OBVIOUS
<1>2. PICK m \in T : \A y \in T : m <= y
  <2>1. T \in SUBSET Nat
    OBVIOUS
  <2> HIDE DEF T
  <2> QED
    BY <1>1, <2>1, Least
<1>3. m # 0
  <2> DEFINE e == [i \in 0..0 |-> Inner]
  <2>1. Run(0, e)
    OBVIOUS
  <2>2. 0 \notin T
    BY <2>1
  <2> QED
    BY <1>2, <2>2
<1>4. m \in Nat /\ m - 1 \in Nat /\ m - 1 \notin T
  <2>1. m \in Nat /\ m - 1 \in Nat /\ ~(m <= m - 1)
    BY <1>2, <1>3
  <2> QED
    BY <1>2, <2>1
<1>5. PICK h : Run(m - 1, h)
  BY <1>4
<1> DEFINE g == [i \in 0..m |-> IF i = m THEN Wrapped(h[m - 1], plugins[m]) ELSE h[i]]
<1>6. \A i \in 0..m - 1 : h[i] = IF i = 0 THEN Inner ELSE Wrapped(h[i - 1], plugins[i])
  BY <1>5
<1>7. \A i \in 0..m : g[i] = IF i = 0 THEN Inner ELSE Wrapped(g[i - 1], plugins[i])
  <2> TAKE i \in 0..m
  <2>1. CASE i = m
    <3>1. m - 1 \in 0..m /\ m - 1 # m
      BY <1>4
    <3> QED
      BY <1>3, <1>4, <2>1, <3>1
  <2>2. CASE i # m /\ i = 0
    BY <1>4, <1>6, <2>2
  <2>3. CASE i # m /\ i # 0
    <3>1. i \in 0..m - 1 /\ i - 1 \in 0..m /\ i - 1 # m
      BY <1>4, <2>3
    <3> QED
      BY <1>4, <1>6, <2>3, <3>1
  <2> QED
    BY <2>1, <2>2, <2>3
<1>8. Run(m, g)
  <2>1. g = [i \in 0..m |-> g[i]]
    OBVIOUS
  <2> HIDE DEF g
  <2> QED
    BY <1>7, <2>1
<1>9. m \notin T
  BY <1>8
<1> QED
  BY <1>2, <1>9

LayerNames == Names \cup {"router", "ratelimiter", "otel"}

\* The handler is wrapped in the middleware of every plugin that has one.
LEMMA LayersHold ==
  ASSUME plugins \in Seq(PluginRecord)
  PROVE  \A i \in 1..Len(plugins) : plugins[i].name \in MiddlewareProviders => Contains(Layers, plugins[i].name)
<1> DEFINE n == Len(plugins)
           H == CHOOSE h : h = [i \in 0..n |-> IF i = 0 THEN Inner ELSE Wrapped(h[i - 1], plugins[i])]
<1>1. n \in Nat
  OBVIOUS
<1>2. H = [i \in 0..n |-> IF i = 0 THEN Inner ELSE Wrapped(H[i - 1], plugins[i])]
  BY <1>1, LayersRun
<1>3. Layers = H[n]
  BY DEF Layers
<1> HIDE DEF H
<1>4. H[0] = Inner
  BY <1>1, <1>2
<1>5. \A i \in 1..n : H[i] = Wrapped(H[i - 1], plugins[i])
  <2> TAKE i \in 1..n
  <2>1. i \in 0..n /\ i # 0
    BY <1>1
  <2> QED
    BY <1>2, <2>1
<1> DEFINE Good(i) == /\ H[i] \in Seq(LayerNames)
                      /\ \A j \in 1..i : plugins[j].name \in MiddlewareProviders => Contains(H[i], plugins[j].name)
           T == {i \in Nat : i <= n /\ ~Good(i)}
<1>6. Good(0)
  <2>1. Inner \in Seq(LayerNames)
    <3>1. << >> \in Seq(LayerNames) /\ \A x \in LayerNames : <<x>> \in Seq(LayerNames)
      OBVIOUS
    <3>2. {"router", "ratelimiter", "otel"} \subseteq LayerNames
      BY DEF LayerNames
    <3> DEFINE limits == IF limiter THEN <<"ratelimiter">> ELSE << >>
    <3>3. limits \in Seq(LayerNames) /\ <<"router">> \in Seq(LayerNames) /\ <<"otel">> \in Seq(LayerNames)
      BY <3>1, <3>2
    <3>4. Inner = <<"router">> \o limits \o <<"otel">>
      BY DEF Inner
    <3> HIDE DEF limits
    <3> QED
      BY <3>3, <3>4
  <2>2. 1..0 = {}
    OBVIOUS
  <2> QED
    BY <1>4, <2>1, <2>2
<1>7. ASSUME NEW i \in 1..n, Good(i - 1)
      PROVE  Good(i)
  <2> DEFINE h == H[i - 1]
             p == plugins[i]
  <2>1. p \in PluginRecord /\ i \in Int
    OBVIOUS
  <2>2. p.name \in LayerNames
    BY <2>1 DEF PluginRecord, LayerNames
  <2>3. h \in Seq(LayerNames) /\ H[i] = Wrapped(h, p)
    BY <1>5, <1>7
  <2>4. \A j \in 1..i : j = i \/ j \in 1..i - 1
    BY <2>1
  <2>5. \A j \in 1..i - 1 : plugins[j].name \in MiddlewareProviders => Contains(h, plugins[j].name)
    BY <1>7
  <2> HIDE DEF h, p, Good
  <2>6. CASE p.name \in MiddlewareProviders
    <3>1. H[i] = Append(h, p.name)
      BY <2>3, <2>6 DEF Wrapped
    <3>2. H[i] \in Seq(LayerNames) /\ Len(H[i]) = Len(h) + 1 /\ H[i][Len(h) + 1] = p.name /\ Len(h) \in Nat
          /\ \A k \in 1..Len(h) : H[i][k] = h[k] /\ k \in 1..Len(h) + 1
      BY <2>2, <2>3, <3>1
    <3>3. Contains(H[i], p.name)
      BY <3>2 DEF Contains
    <3>4. \A x : Contains(h, x) => Contains(H[i], x)
      BY <3>2 DEF Contains
    <3> QED
      BY <2>4, <2>5, <3>2, <3>3, <3>4 DEF Good, p
  <2>7. CASE p.name \notin MiddlewareProviders
    <3>1. H[i] = h
      BY <2>3, <2>7 DEF Wrapped
    <3> QED
      BY <2>3, <2>4, <2>5, <2>7, <3>1 DEF Good, p
  <2> QED
    BY <2>6, <2>7
<1> HIDE DEF Good
<1>8. T = {}
  <2> SUFFICES ASSUME T # {} PROVE FALSE
    OBVIOUS
  <2>1. PICK m \in T : \A y \in T : m <= y
    <3>1. T \in SUBSET Nat
      OBVIOUS
    <3> HIDE DEF T
    <3> QED
      BY <3>1, Least
  <2>2. m \in Nat /\ m # 0 /\ m <= n /\ n \in Nat
    BY <1>1, <1>6, <2>1
  <2>3. m \in 1..n /\ m - 1 \in Nat /\ m - 1 <= n /\ ~(m <= m - 1)
    BY <2>2
  <2>4. Good(m - 1)
    BY <2>1, <2>3
  <2>5. Good(m)
    BY <1>7, <2>3, <2>4
  <2> QED
    BY <2>1, <2>5
<1>9. Good(n)
  BY <1>1, <1>8
<1> QED
  BY <1>3, <1>9 DEF Good


-----------------------------------------------------------------------------
(* The steps.                                                              *)

\* The last plugin of a name.
LEMMA LastPlace ==
  ASSUME EngineForm, NEW n \in Registered
  PROVE  /\ LastOf(n) \in 1..Len(plugins) /\ plugins[LastOf(n)].name = n
         /\ \A j \in 1..Len(plugins) : plugins[j].name = n => j <= LastOf(n)
<1> DEFINE P == Places(n)
           len == Len(plugins)
           T == {k \in Nat : \E j \in P : k = len - j}
<1>1. DOMAIN plugins = 1..len /\ len \in Nat
  BY DEF EngineForm
<1>2. \A j : j \in P <=> j \in 1..len /\ plugins[j].name = n
  BY <1>1 DEF Places
<1>3. PICK i \in P : TRUE
  BY <1>1, <1>2 DEF Registered
<1> HIDE DEF P, len
<1>4. \A j \in P : j \in Int /\ len - j \in Nat
  BY <1>1, <1>2
<1>5. T \in SUBSET Nat /\ T # {}
  BY <1>3, <1>4
<1>6. PICK k \in T : \A y \in T : k <= y
  <2> HIDE DEF T
  <2> QED
    BY <1>5, Least
<1>7. PICK last \in P : k = len - last
  BY <1>6
<1>8. \A j \in P : j <= last
  <2> TAKE j \in P
  <2>1. len - last <= len - j
    BY <1>4, <1>6, <1>7
  <2> QED
    BY <1>1, <1>4, <2>1
<1>9. LastOf(n) \in P /\ \A j \in P : j <= LastOf(n)
  BY <1>8 DEF LastOf, P
<1> QED
  BY <1>2, <1>9 DEF len

\* Another plugin comes in at the end and takes over the paths it wants.
LEMMA InstallKeeps ==
  ASSUME EngineInv, NEW p \in PluginRecord, Install(p), UNCHANGED <<option, built>>
  PROVE  /\ plugins' \in Seq(PluginRecord) /\ Len(plugins') = Len(plugins) + 1
         /\ plugins'[Len(plugins) + 1] = p /\ \A i \in 1..Len(plugins) : plugins'[i] = plugins[i]
         /\ Snapshot' /\ RouterInv'
         /\ HookInv(logoutHook, "endsession", "backchannel")' /\ HookInv(jarmSigner, "authorization", "jarm")'
<1> DEFINE n == Len(plugins)
<1>1. /\ plugins' = Append(plugins, p) /\ plugins \in Seq(PluginRecord) /\ n \in Nat
      /\ router' = Overridden(router, [path \in Paths(p) |-> n + 1])
      /\ UNCHANGED <<stores, configs, logoutHook, jarmSigner, contributors, layers>>
  BY DEF Install, Routed, option, built, EngineInv, EngineForm
<1>2. /\ plugins' \in Seq(PluginRecord) /\ Len(plugins') = n + 1
      /\ plugins'[n + 1] = p /\ \A i \in 1..n : plugins'[i] = plugins[i]
  BY <1>1
<1>3. \A i \in 1..Len(plugins') : i \in 1..n \/ i = n + 1
  BY <1>1, <1>2
<1>4. \A i \in 1..n : i \in 1..Len(plugins')
  BY <1>1, <1>2
<1>5. Len(contributors) <= n /\ Len(contributors) \in Nat /\ \A i \in 1..Len(contributors) : contributors[i] = plugins[i]
  BY DEF EngineInv, EngineForm, Snapshot
<1>6. Snapshot'
  <2>1. Len(contributors) <= n + 1 /\ \A i \in 1..Len(contributors) : i \in 1..n
    BY <1>1, <1>5
  <2> QED
    BY <1>1, <1>2, <1>5, <2>1 DEF Snapshot
<1>7. contributors' # plugins'
  BY <1>1, <1>2, <1>5
<1>8. HookInv(logoutHook, "endsession", "backchannel")' /\ HookInv(jarmSigner, "authorization", "jarm")'
  <2>1. \A i \in DOMAIN logoutHook : i \in 1..n /\ logoutHook[i] \in 1..n
    BY DEF EngineInv, HookInv
  <2>2. \A i \in DOMAIN jarmSigner : i \in 1..n /\ jarmSigner[i] \in 1..n
    BY DEF EngineInv, HookInv
  <2> QED
    BY <1>1, <1>4, <1>7, <2>1, <2>2 DEF HookInv
<1>9. /\ DOMAIN router' = DOMAIN router \cup Paths(p)
      /\ \A path \in Paths(p) : router'[path] = n + 1
      /\ \A path \in DOMAIN router \ Paths(p) : router'[path] = router[path]
  <2> DEFINE own == [path \in Paths(p) |-> n + 1]
  <2>1. DOMAIN own = Paths(p) /\ \A path \in Paths(p) : own[path] = n + 1
    OBVIOUS
  <2> HIDE DEF own
  <2> QED
    BY <1>1, <2>1 DEF Overridden, own
<1>10. \A path \in DOMAIN router :
          /\ router[path] \in 1..n
          /\ path[1] \in Plugin[plugins[router[path]].name].routes
  BY DEF EngineInv, RouterInv
<1>11. \A path \in Paths(p) : path[1] \in Plugin[p.name].routes
  BY DEF Paths, GetRoutePath
<1>12. ASSUME NEW path \in DOMAIN router'
       PROVE  /\ router'[path] \in 1..Len(plugins')
              /\ path[1] \in Plugin[plugins'[router'[path]].name].routes
  <2>1. CASE path \in Paths(p)
    <3>1. n + 1 \in 1..Len(plugins')
      BY <1>1, <1>2
    <3> QED
      BY <1>2, <1>9, <1>11, <2>1, <3>1
  <2>2. CASE path \notin Paths(p)
    BY <1>2, <1>4, <1>9, <1>10, <2>2
  <2> QED
    BY <2>1, <2>2
<1>13. ASSUME NEW i \in 1..Len(plugins'), NEW ep \in Plugin[plugins'[i].name].routes
       PROVE  /\ GetRoutePath(plugins'[i], ep) \in DOMAIN router'
              /\ i <= router'[GetRoutePath(plugins'[i], ep)]
  <2> DEFINE path == GetRoutePath(plugins'[i], ep)
  <2>1. CASE i = n + 1
    <3>1. path \in Paths(p)
      BY <1>2, <2>1 DEF Paths
    <3> QED
      BY <1>1, <1>9, <2>1, <3>1
  <2>2. CASE i \in 1..n /\ path \in Paths(p)
    <3>1. i <= n + 1
      BY <1>1, <2>2
    <3> QED
      BY <1>9, <2>2, <3>1
  <2>3. CASE i \in 1..n /\ path \notin Paths(p)
    <3>1. path \in DOMAIN router /\ i <= router[path]
      BY <1>2, <2>3 DEF EngineInv, RouterInv
    <3> QED
      BY <1>9, <2>3, <3>1
  <2> QED
    BY <1>3, <2>1, <2>2, <2>3
<1>14. RouterInv'
  BY <1>1, <1>12, <1>13 DEF RouterInv, GetRoutePath
<1> QED
  BY <1>2, <1>6, <1>8, <1>14


\* New calls the next factory in the order of the priorities.
LEMMA AutoRegisterStep ==
  ASSUME EngineInv, NEW n \in Offered, AutoRegister(n)
  PROVE  EngineInv'
<1> DEFINE p == [name |-> n, configured |-> TRUE]
           len == Len(plugins)
<1>1. /\ phase = "new" /\ Next_(n) /\ Taken(n) /\ Install(p)
      /\ UNCHANGED <<option, built, phase, byHand>>
  BY DEF AutoRegister
<1>2. p \in PluginRecord /\ n \in Names /\ p.name = n
  BY EngineAssumption DEF PluginRecord
<1> HIDE DEF p
<1>3. /\ plugins' \in Seq(PluginRecord) /\ Len(plugins') = len + 1
      /\ plugins'[len + 1] = p /\ \A i \in 1..len : plugins'[i] = plugins[i]
      /\ Snapshot' /\ RouterInv'
      /\ HookInv(logoutHook, "endsession", "backchannel")' /\ HookInv(jarmSigner, "authorization", "jarm")'
  BY <1>1, <1>2, InstallKeeps
<1>4. /\ UNCHANGED <<stores, configs, nonceSender, contributors, layers, phase, byHand>>
  BY <1>1 DEF option, built
<1>5. candidates' \in [Offered -> Int] /\ Left' \subseteq Left
  BY <1>1 DEF EngineInv, EngineForm, Taken, Left
<1>6. EngineForm'
  BY <1>3, <1>4, <1>5 DEF EngineInv, EngineForm
<1>7. BuiltInv'
  BY <1>4 DEF EngineInv, BuiltInv, Built
<1>8. SortedInv'
  <2>1. byHand' = 0 /\ byHand = 0 /\ len \in Nat
    BY <1>1, <1>4 DEF EngineInv, SortedInv, EngineForm
  <2>2. \A i \in 1..Len(plugins') : i \in 1..len \/ i = len + 1
    BY <1>3, <2>1
  <2>3. \A m \in Left : Plugin[n].priority <= Plugin[m].priority
    BY <1>1 DEF Next_
  <2>4. n \in Left
    BY <1>1 DEF Next_
  <2>5. \A i \in 1..len : \A m \in Left : Plugin[plugins[i].name].priority <= Plugin[m].priority
    BY <1>1 DEF EngineInv, SortedInv
  <2>6. \A i \in 1..Len(plugins') : \A m \in Left' : Plugin[plugins'[i].name].priority <= Plugin[m].priority
    BY <1>2, <1>3, <1>5, <2>2, <2>3, <2>5
  <2>7. \A i, j \in 1..Len(plugins') : i <= j =>
           Plugin[plugins'[i].name].priority <= Plugin[plugins'[j].name].priority
    <3> TAKE i, j \in 1..Len(plugins')
    <3> HAVE i <= j
    <3>1. CASE j = len + 1 /\ i = len + 1
      <4>1. Plugin[n].priority \in Int
        BY <1>2, EndpointOwners
      <4> QED
        BY <1>2, <1>3, <3>1, <4>1
    <3>2. CASE j = len + 1 /\ i \in 1..len
      BY <1>2, <1>3, <2>4, <2>5, <3>2
    <3>3. CASE j \in 1..len /\ i \in 1..len
      BY <1>3, <2>1, <3>3 DEF EngineInv, SortedInv
    <3>4. CASE j \in 1..len /\ i = len + 1
      BY <2>1, <3>4
    <3> QED
      BY <2>2, <3>1, <3>2, <3>3, <3>4
  <2> QED
    BY <2>1, <2>6, <2>7 DEF SortedInv
<1> QED
  BY <1>3, <1>4, <1>6, <1>7, <1>8 DEF EngineInv

\* A factory is skipped or panics, or New returns: the plugins stay.
LEMMA NewStep ==
  ASSUME EngineInv, phase = "new", candidates' \in [Offered -> Int], Left' \subseteq Left,
         phase' \in {"new", "open", "panic"}, UNCHANGED <<option, built, byHand, plugins, router>>
  PROVE  EngineInv'
<1>1. /\ UNCHANGED <<stores, configs, logoutHook, jarmSigner, nonceSender, contributors, layers>>
      /\ UNCHANGED <<byHand, plugins, router>>
  BY DEF option, built
<1>2. EngineForm' /\ Snapshot'
  BY <1>1 DEF EngineInv, EngineForm, Snapshot
<1>3. RouterInv'
  BY <1>1 DEF EngineInv, RouterInv, GetRoutePath
<1>4. HookInv(logoutHook, "endsession", "backchannel")' /\ HookInv(jarmSigner, "authorization", "jarm")'
  BY <1>1 DEF EngineInv, HookInv, Registered, LastOf, Places
<1>5. BuiltInv'
  BY <1>1 DEF EngineInv, BuiltInv, Built
<1>6. SortedInv'
  BY <1>1 DEF EngineInv, SortedInv
<1> QED
  BY <1>1, <1>2, <1>3, <1>4, <1>5, <1>6 DEF EngineInv

\* A plugin is registered by hand, before or after Build.
LEMMA RegisterStep ==
  ASSUME EngineInv, NEW n \in ByHand, NEW c \in BOOLEAN, Register(n, c)
  PROVE  EngineInv'
<1> DEFINE p == [name |-> n, configured |-> c]
<1>1. /\ phase = "open" /\ byHand' = byHand + 1 /\ Install(p)
      /\ UNCHANGED <<option, built, candidates, phase>>
  BY DEF Register
<1>2. p \in PluginRecord
  BY EngineAssumption DEF PluginRecord
<1> HIDE DEF p
<1>3. /\ plugins' \in Seq(PluginRecord) /\ Snapshot' /\ RouterInv'
      /\ HookInv(logoutHook, "endsession", "backchannel")' /\ HookInv(jarmSigner, "authorization", "jarm")'
  BY <1>1, <1>2, InstallKeeps
<1>4. /\ UNCHANGED <<stores, configs, nonceSender, contributors, layers, phase, candidates>>
  BY <1>1 DEF option, built
<1>5. byHand' \in Nat /\ byHand' # 0
  BY <1>1 DEF EngineInv, EngineForm
<1>6. EngineForm'
  BY <1>3, <1>4, <1>5 DEF EngineInv, EngineForm
<1>7. BuiltInv' /\ SortedInv'
  BY <1>1, <1>4, <1>5 DEF EngineInv, BuiltInv, Built, SortedInv
<1> QED
  BY <1>3, <1>4, <1>6, <1>7 DEF EngineInv

\* Build connects the last plugins of the names.
LEMMA ConnectHolds ==
  ASSUME EngineInv, UNCHANGED plugins, NEW conn, NEW to, NEW from, HookInv(conn, to, from), NEW new,
         new = Connect(conn, to, from)
  PROVE  /\ \A i \in DOMAIN new : i \in 1..Len(plugins) /\ new[i] \in 1..Len(plugins)
         /\ to \in Registered /\ from \in Registered => LastOf(to) \in DOMAIN new
<1>1. \A i \in DOMAIN conn : i \in 1..Len(plugins) /\ conn[i] \in 1..Len(plugins)
  BY DEF HookInv
<1>2. CASE to \in Registered /\ from \in Registered
  <2>1. LastOf(to) \in 1..Len(plugins) /\ LastOf(from) \in 1..Len(plugins)
    BY <1>2, LastPlace DEF EngineInv
  <2> DEFINE link == [i \in {LastOf(to)} |-> LastOf(from)]
  <2>2. DOMAIN link = {LastOf(to)} /\ link[LastOf(to)] = LastOf(from)
    OBVIOUS
  <2>3. new = Overridden(conn, link)
    BY <1>2 DEF Connect
  <2> HIDE DEF link
  <2>4. /\ DOMAIN new = DOMAIN conn \cup {LastOf(to)}
        /\ \A i \in DOMAIN new : new[i] = IF i \in DOMAIN link THEN link[i] ELSE conn[i]
    BY <2>2, <2>3 DEF Overridden
  <2> QED
    BY <1>1, <2>1, <2>2, <2>4
<1>3. CASE ~(to \in Registered /\ from \in Registered)
  BY <1>1, <1>3 DEF Connect
<1> QED
  BY <1>2, <1>3

\* Build.
LEMMA BuildStep ==
  ASSUME EngineInv, Build
  PROVE  EngineInv'
<1>1. /\ phase = "open" /\ logoutHook' = Connect(logoutHook, "endsession", "backchannel")
      /\ jarmSigner' = Connect(jarmSigner, "authorization", "jarm") /\ nonceSender' = nonceSender
      /\ contributors' = plugins
      /\ \/ Validate /\ layers' = Layers /\ phase' = phase
         \/ phase' = "panic"
      /\ UNCHANGED <<stores, configs, candidates, plugins, router, byHand>>
  BY DEF Build, connectLogoutHooks, connectJARMSigner, connectDPoPNonceSender, option
<1>2. plugins \in Seq(PluginRecord) /\ Len(plugins) \in Nat /\ DOMAIN plugins = 1..Len(plugins)
  BY DEF EngineInv, EngineForm
<1>3. EngineForm' /\ Snapshot'
  BY <1>1, <1>2 DEF EngineInv, EngineForm, Snapshot
<1>4. RouterInv'
  BY <1>1 DEF EngineInv, RouterInv, GetRoutePath
<1>5. HookInv(logoutHook, "endsession", "backchannel")'
  <2>1. HookInv(logoutHook, "endsession", "backchannel")
    BY DEF EngineInv
  <2>2. /\ \A i \in DOMAIN logoutHook' : i \in 1..Len(plugins) /\ logoutHook'[i] \in 1..Len(plugins)
        /\ "endsession" \in Registered /\ "backchannel" \in Registered => LastOf("endsession") \in DOMAIN logoutHook'
    BY <1>1, <2>1, ConnectHolds
  <2> QED
    BY <1>1, <2>2 DEF HookInv, Registered, LastOf, Places
<1>6. HookInv(jarmSigner, "authorization", "jarm")'
  <2>1. HookInv(jarmSigner, "authorization", "jarm")
    BY DEF EngineInv
  <2>2. /\ \A i \in DOMAIN jarmSigner' : i \in 1..Len(plugins) /\ jarmSigner'[i] \in 1..Len(plugins)
        /\ "authorization" \in Registered /\ "jarm" \in Registered => LastOf("authorization") \in DOMAIN jarmSigner'
    BY <1>1, <2>1, ConnectHolds
  <2> QED
    BY <1>1, <2>2 DEF HookInv, Registered, LastOf, Places
<1>7. BuiltInv'
  <2>1. CASE phase' = "panic"
    BY <2>1 DEF BuiltInv, Built
  <2>2. CASE Validate /\ layers' = Layers /\ phase' = phase
    <3>1. \A i \in 1..Len(plugins) : plugins[i].name \in MiddlewareProviders => Contains(layers', plugins[i].name)
      BY <1>2, <2>2, LayersHold
    <3>2. \A i \in 1..Len(plugins) :
             plugins[i].name \in Categorizable => Plugin[plugins[i].name].requires \subseteq stores
      BY <1>2, <2>2 DEF Validate, storageImplements
    <3>3. ASSUME NEW i \in 1..Len(plugins), plugins[i].name = "authorization",
                 NEW n \in {"token", "userinfo", "keys", "endsession"}
          PROVE  \E j \in 1..Len(plugins) : plugins[j].name = n
      <4>1. "authorization" \in Registered
        BY <1>2, <3>3 DEF Registered
      <4>2. n \in Registered
        BY <2>2, <4>1 DEF Validate, ProtocolConstraints
      <4> QED
        BY <1>2, <4>2 DEF Registered
    <3> QED
      BY <1>1, <2>2, <3>1, <3>2, <3>3 DEF BuiltInv, Built
  <2> QED
    BY <1>1, <2>1, <2>2
<1>8. SortedInv'
  BY <1>1 DEF EngineInv, SortedInv
<1> QED
  BY <1>1, <1>3, <1>4, <1>5, <1>6, <1>7, <1>8 DEF EngineInv


\* Every step keeps the invariant.
LEMMA EngineStep ==
  ASSUME EngineInv, [EngineNext]_engineVars
  PROVE  EngineInv'
<1>1. CASE \E n \in Offered : AutoRegister(n) \/ AutoSkip(n) \/ AutoPanic(n)
  <2>1. PICK n \in Offered : AutoRegister(n) \/ AutoSkip(n) \/ AutoPanic(n)
    BY <1>1
  <2>2. candidates \in [Offered -> Int]
    BY DEF EngineInv, EngineForm
  <2>3. CASE AutoRegister(n)
    BY <2>3, AutoRegisterStep
  <2>4. CASE AutoSkip(n)
    <3>1. candidates' \in [Offered -> Int] /\ Left' \subseteq Left
      BY <2>2, <2>4 DEF AutoSkip, Taken, Left
    <3> QED
      BY <2>4, <3>1, NewStep DEF AutoSkip
  <2>5. CASE AutoPanic(n)
    <3>1. candidates' \in [Offered -> Int] /\ Left' \subseteq Left
      BY <2>2, <2>5 DEF AutoPanic, Left
    <3> QED
      BY <2>5, <3>1, NewStep DEF AutoPanic
  <2> QED
    BY <2>1, <2>3, <2>4, <2>5
<1>2. CASE NewReturns
  <2>1. candidates' \in [Offered -> Int] /\ Left' \subseteq Left
    BY <1>2 DEF EngineInv, EngineForm, NewReturns, Left
  <2> QED
    BY <1>2, <2>1, NewStep DEF NewReturns
<1>3. CASE \E n \in ByHand, c \in BOOLEAN : Register(n, c)
  BY <1>3, RegisterStep
<1>4. CASE Build
  BY <1>4, BuildStep
<1>5. CASE UNCHANGED engineVars
  <2>1. /\ UNCHANGED <<stores, configs, candidates, plugins, router, logoutHook, jarmSigner, nonceSender>>
        /\ UNCHANGED <<contributors, layers, phase, byHand>>
    BY <1>5 DEF engineVars
  <2>2. EngineForm' /\ Snapshot' /\ RouterInv'
    BY <2>1 DEF EngineInv, EngineForm, Snapshot, RouterInv, GetRoutePath
  <2>3. HookInv(logoutHook, "endsession", "backchannel")' /\ HookInv(jarmSigner, "authorization", "jarm")'
    BY <2>1 DEF EngineInv, HookInv, Registered, LastOf, Places
  <2>4. BuiltInv' /\ SortedInv'
    BY <2>1 DEF EngineInv, BuiltInv, Built, SortedInv, Left
  <2> QED
    BY <2>1, <2>2, <2>3, <2>4 DEF EngineInv
<1> QED
  BY <1>1, <1>2, <1>3, <1>4, <1>5 DEF EngineNext

\* The options of New, nothing registered.
LEMMA EngineStart ==
  ASSUME EngineInit
  PROVE  EngineInv
<1>1. /\ plugins = << >> /\ router = << >> /\ logoutHook = << >> /\ jarmSigner = << >> /\ nonceSender = << >>
      /\ contributors = << >> /\ layers = << >> /\ phase = "new" /\ byHand = 0 /\ stores \subseteq StorageCapability
  BY DEF EngineInit
<1>2. configs \in [Endpoints -> EndpointConfig]
  <2>1. PICK c \in EndpointConfig : configs = [NoConfig EXCEPT !["token"] = c]
    BY DEF EngineInit
  <2>2. NoConfig \in [Endpoints -> EndpointConfig]
    BY DEF NoConfig, EndpointConfig
  <2> QED
    BY <2>1, <2>2
<1>3. candidates \in [Offered -> Int]
  BY DEF EngineInit
<1>4. Len(<< >>) = 0 /\ 1..0 = {} /\ DOMAIN << >> = {} /\ << >> \in Seq(PluginRecord) /\ 0 \in Nat
  OBVIOUS
<1>5. EngineForm /\ Snapshot /\ RouterInv
  BY <1>1, <1>2, <1>3, <1>4 DEF EngineForm, Snapshot, RouterInv
<1>6. HookInv(logoutHook, "endsession", "backchannel") /\ HookInv(jarmSigner, "authorization", "jarm")
  BY <1>1, <1>4 DEF HookInv, Registered
<1>7. BuiltInv /\ SortedInv
  BY <1>1, <1>4 DEF BuiltInv, Built, SortedInv
<1> QED
  BY <1>1, <1>5, <1>6, <1>7 DEF EngineInv

-----------------------------------------------------------------------------
(* What the document says.                                                 *)

\* The form of the state, as the run checks it.
LEMMA EngineTypes ==
  ASSUME EngineInv
  PROVE  EngineTypeOK
<1>1. /\ stores \subseteq StorageCapability /\ plugins \in Seq([name : Names, configured : BOOLEAN])
      /\ phase \in {"new", "open", "panic"}
  BY DEF EngineInv, EngineForm, PluginRecord
<1>2. DOMAIN plugins = 1..Len(plugins)
  BY <1>1
<1>3. \A path \in DOMAIN router : router[path] \in DOMAIN plugins
  BY <1>2 DEF EngineInv, RouterInv
<1>4. \A i \in DOMAIN logoutHook : {i, logoutHook[i]} \subseteq DOMAIN plugins
  BY <1>2 DEF EngineInv, HookInv
<1>5. \A i \in DOMAIN jarmSigner : {i, jarmSigner[i]} \subseteq DOMAIN plugins
  BY <1>2 DEF EngineInv, HookInv
<1>6. \A i \in DOMAIN nonceSender : {i, nonceSender[i]} \subseteq DOMAIN plugins
  BY DEF EngineInv
<1>7. IsPrefix(contributors, plugins)
  <2> DEFINE n == Len(contributors)
  <2>1. contributors \in Seq(PluginRecord) /\ plugins \in Seq(PluginRecord) /\ n <= Len(plugins)
        /\ \A i \in 1..n : contributors[i] = plugins[i]
    BY DEF EngineInv, EngineForm, Snapshot
  <2>2. SubSeq(contributors, 1, n) = SubSeq(plugins, 1, n)
    <3>1. SubSeq(contributors, 1, n) = [i \in 1..n |-> contributors[i]]
      BY <2>1
    <3>2. SubSeq(plugins, 1, n) = [i \in 1..n |-> plugins[i]]
      BY <2>1
    <3> QED
      BY <2>1, <3>1, <3>2
  <2> QED
    BY <2>1, <2>2 DEF IsPrefix
<1> QED
  BY <1>1, <1>3, <1>4, <1>5, <1>6, <1>7 DEF EngineTypeOK

\* The document of this state.
LEMMA DocumentNow ==
  ASSUME EngineInv
  PROVE  /\ DocumentFacts(Document, Len(contributors))
         /\ InOrderOfPriority(contributors) => OrderFacts(Document, Len(contributors))
         /\ contributors \in Seq(PluginRecord) /\ DOMAIN contributors = 1..Len(contributors)
         /\ plugins \in Seq(PluginRecord) /\ DOMAIN plugins = 1..Len(plugins)
         /\ \A i \in 1..Len(contributors) : i \in 1..Len(plugins) /\ contributors[i] = plugins[i]
<1>1. /\ configs \in [Endpoints -> EndpointConfig] /\ contributors \in Seq(PluginRecord)
      /\ plugins \in Seq(PluginRecord) /\ Len(contributors) <= Len(plugins)
      /\ \A i \in 1..Len(contributors) : contributors[i] = plugins[i]
  BY DEF EngineInv, EngineForm, Snapshot
<1>2. /\ DocumentFacts(Document, Len(contributors))
      /\ InOrderOfPriority(contributors) => OrderFacts(Document, Len(contributors))
  BY <1>1, DocumentHolds
<1>3. \A i \in 1..Len(contributors) : i \in 1..Len(plugins)
  BY <1>1
<1> QED
  BY <1>1, <1>2, <1>3

\* What Build lets pass has its stores and its neighbours.
LEMMA CompleteNow ==
  ASSUME EngineInv
  PROVE  BuiltIsComplete
<1> SUFFICES ASSUME Built, NEW p \in ToSet(contributors)
             PROVE  /\ p.name \in Categorizable => Plugin[p.name].requires \subseteq stores
                    /\ p.name = "authorization" => \A n \in {"token", "userinfo", "keys", "endsession"} :
                           \E q \in ToSet(contributors) : q.name = n
  BY DEF BuiltIsComplete
<1>1. DOMAIN contributors = 1..Len(contributors)
  BY DocumentNow
<1>2. PICK i \in 1..Len(contributors) : contributors[i] = p
  BY <1>1 DEF ToSet
<1>3. \A j \in 1..Len(contributors) : contributors[j] \in ToSet(contributors)
  BY <1>1 DEF ToSet
<1> QED
  BY <1>2, <1>3 DEF EngineInv, BuiltInv

\* Every advertised endpoint leads to a plugin that owns it.
LEMMA ServedNow ==
  ASSUME EngineInv
  PROVE  AdvertisedIsServed
<1> SUFFICES ASSUME Built, \A ep \in Endpoints : configs[ep].route = configs[ep].url,
                    NEW ep \in DOMAIN Document.endpoints
             PROVE  /\ Document.endpoints[ep] \in DOMAIN router
                    /\ ep \in Plugin[plugins[router[Document.endpoints[ep]]].name].routes
  BY DEF AdvertisedIsServed
<1>1. PICK j \in 1..Len(contributors) : /\ ep \in Plugin[contributors[j].name].routes
                                        /\ Document.endpoints[ep] = GetDiscoveryURL(contributors[j], ep)
  BY DocumentNow DEF DocumentFacts
<1>2. j \in 1..Len(plugins) /\ contributors[j] = plugins[j] /\ plugins[j] \in PluginRecord
  BY DocumentNow
<1>3. ep \in Endpoints
  BY <1>1, <1>2, RoutesAreEndpoints DEF PluginRecord
<1>4. Document.endpoints[ep] = GetRoutePath(plugins[j], ep)
  BY <1>1, <1>2, <1>3 DEF GetDiscoveryURL, GetRoutePath
<1>5. GetRoutePath(plugins[j], ep) \in DOMAIN router
  BY <1>1, <1>2 DEF EngineInv, RouterInv
<1>6. GetRoutePath(plugins[j], ep)[1] = ep
  BY DEF GetRoutePath
<1> QED
  BY <1>4, <1>5, <1>6 DEF EngineInv, RouterInv

\* What sender constraining is advertised is enforced.
LEMMA EnforcedNow ==
  ASSUME EngineInv
  PROVE  AdvertisedIsEnforced
<1> SUFFICES ASSUME Built, NEW x \in {"dpop", "mtls"}, x \in Document.features
             PROVE  Contains(layers, x)
  BY DEF AdvertisedIsEnforced
<1>1. PICK j \in 1..Len(contributors) : contributors[j].name = x
  BY DocumentNow DEF DocumentFacts
<1> QED
  BY <1>1 DEF EngineInv, BuiltInv, MiddlewareProviders

\* The last plugin of a name serves its own path.
LEMMA LastServes ==
  ASSUME EngineInv, NEW n \in Registered, NEW ep,
         \A m \in Names : ep \in Plugin[m].routes <=> m = n
  PROVE  router[GetRoutePath(plugins[LastOf(n)], ep)] = LastOf(n)
<1> DEFINE last == LastOf(n)
           path == GetRoutePath(plugins[last], ep)
<1>1. /\ last \in 1..Len(plugins) /\ plugins[last].name = n
      /\ \A j \in 1..Len(plugins) : plugins[j].name = n => j <= last
  BY LastPlace DEF EngineInv
<1>2. \A i \in 1..Len(plugins) : plugins[i] \in PluginRecord /\ plugins[i].name \in Names
  <2>1. \A i \in 1..Len(plugins) : plugins[i] \in PluginRecord
    BY DEF EngineInv, EngineForm
  <2> QED
    BY <2>1 DEF PluginRecord
<1>3. ep \in Plugin[plugins[last].name].routes
  BY <1>1, <1>2
<1> HIDE DEF last
<1>4. path \in DOMAIN router /\ last <= router[path]
  BY <1>1, <1>3 DEF EngineInv, RouterInv
<1>5. router[path] \in 1..Len(plugins) /\ path[1] \in Plugin[plugins[router[path]].name].routes
  BY <1>4 DEF EngineInv, RouterInv
<1>6. path[1] = ep
  BY DEF GetRoutePath
<1>7. plugins[router[path]].name = n
  BY <1>2, <1>5, <1>6
<1>8. router[path] <= last
  BY <1>1, <1>5, <1>7
<1>9. last \in Int /\ router[path] \in Int
  BY <1>1, <1>5
<1> HIDE DEF path
<1>10. router[path] = last
  BY <1>4, <1>8, <1>9
<1> QED
  BY <1>10 DEF last, path

\* The plugin that got the connection serves the route.
LEMMA ConnectedNow ==
  ASSUME EngineInv
  PROVE  ConnectedIsServing
<1> SUFFICES ASSUME UpToDate
             PROVE  /\ "backchannel_logout" \in Document.features /\ "endsession" \in DOMAIN Document.endpoints =>
                          router[GetRoutePath(plugins[LastOf("endsession")], "endsession")] \in DOMAIN logoutHook
                    /\ "jwt" \in Document.modes /\ "authorize" \in DOMAIN Document.endpoints =>
                          router[GetRoutePath(plugins[LastOf("authorization")], "authorize")] \in DOMAIN jarmSigner
  BY DEF ConnectedIsServing
<1>1. contributors = plugins
  BY DEF UpToDate
<1>2. DOMAIN plugins = 1..Len(plugins) /\ plugins \in Seq(PluginRecord)
  BY DocumentNow
<1>3. \A i \in 1..Len(plugins) : plugins[i].name \in Names
  <2>1. \A i \in 1..Len(plugins) : plugins[i] \in PluginRecord
    BY <1>2
  <2> QED
    BY <2>1 DEF PluginRecord
<1>4. \A i \in 1..Len(plugins) : plugins[i].name \in Registered
  BY <1>2 DEF Registered
<1>5. ASSUME "backchannel_logout" \in Document.features, "endsession" \in DOMAIN Document.endpoints
      PROVE  router[GetRoutePath(plugins[LastOf("endsession")], "endsession")] \in DOMAIN logoutHook
  <2>1. "backchannel" \in Registered
    BY <1>1, <1>4, <1>5, DocumentNow DEF DocumentFacts
  <2>2. PICK j \in 1..Len(plugins) : "endsession" \in Plugin[plugins[j].name].routes
    BY <1>1, <1>5, DocumentNow DEF DocumentFacts
  <2>3. "endsession" \in Registered
    BY <1>3, <1>4, <2>2, EndpointOwners
  <2>4. LastOf("endsession") \in DOMAIN logoutHook
    BY <1>1, <2>1, <2>3 DEF EngineInv, HookInv
  <2>5. router[GetRoutePath(plugins[LastOf("endsession")], "endsession")] = LastOf("endsession")
    BY <2>3, EndpointOwners, LastServes
  <2> QED
    BY <2>4, <2>5
<1>6. ASSUME "jwt" \in Document.modes, "authorize" \in DOMAIN Document.endpoints
      PROVE  router[GetRoutePath(plugins[LastOf("authorization")], "authorize")] \in DOMAIN jarmSigner
  <2>1. "jarm" \in Registered
    BY <1>1, <1>4, <1>6, DocumentNow DEF DocumentFacts
  <2>2. PICK j \in 1..Len(plugins) : "authorize" \in Plugin[plugins[j].name].routes
    BY <1>1, <1>6, DocumentNow DEF DocumentFacts
  <2>3. "authorization" \in Registered
    BY <1>3, <1>4, <2>2, EndpointOwners
  <2>4. LastOf("authorization") \in DOMAIN jarmSigner
    BY <1>1, <2>1, <2>3 DEF EngineInv, HookInv
  <2>5. router[GetRoutePath(plugins[LastOf("authorization")], "authorize")] = LastOf("authorization")
    BY <2>3, EndpointOwners, LastServes
  <2> QED
    BY <2>4, <2>5
<1> QED
  BY <1>5, <1>6

\* Without plugins added by hand the document does not depend on the order.
LEMMA OrderSafeNow ==
  ASSUME EngineInv
  PROVE  DocumentOrderSafe
<1> SUFFICES ASSUME Built, byHand = 0
             PROVE  LET Has(n) == \E p \in ToSet(contributors) : p.name = n
                    IN /\ Has("discovery") /\ Has("jarm") => "jarm_algs" \in Document.features
                       /\ Has("discovery") /\ Has("ciba") => "ciba_algs" \in Document.features
                       /\ Has("mtls") =>
                           /\ {"dcr", "device", "par", "ciba"} \cap DOMAIN Document.endpoints \subseteq Document.aliases
                           /\ {"introspection", "revocation"} \cap DOMAIN Document.endpoints \subseteq Document.features
  BY DEF DocumentOrderSafe
<1>1. DOMAIN contributors = 1..Len(contributors)
  BY DocumentNow
<1>2. \A n : (\E p \in ToSet(contributors) : p.name = n) <=> \E j \in 1..Len(contributors) : contributors[j].name = n
  BY <1>1 DEF ToSet
<1>3. InOrderOfPriority(contributors)
  BY DocumentNow DEF EngineInv, SortedInv, InOrderOfPriority
<1>4. OrderFacts(Document, Len(contributors))
  BY <1>3, DocumentNow
<1> QED
  BY <1>2, <1>4 DEF OrderFacts

\* engine.go: routes, connections, middleware and snapshot fit together for any plugins
\* offered, doubled, disabled, declined or registered by hand, before and after any Build.
THEOREM EngineInvariance ==
  EngineSpec => []EngineInv
<1>1. EngineInit => EngineInv
  BY EngineStart
<1>2. EngineInv /\ [EngineNext]_engineVars => EngineInv'
  BY EngineStep
<1> QED
  BY <1>1, <1>2, PTL DEF EngineSpec

\* The discovery document of a built engine tells the truth: what it announces is complete,
\* routed, connected and enforced.
THEOREM DocumentTruthfulHolds ==
  EngineSpec => []DocumentTruthful
<1>1. EngineInv => DocumentTruthful
  BY EngineTypes, CompleteNow, ServedNow, EnforcedNow, ConnectedNow DEF DocumentTruthful
<1> QED
  BY <1>1, EngineInvariance, PTL

\* The priorities let every plugin whose contribution depends on another's see it: without
\* plugins added by hand the document does not depend on the order of registration.
THEOREM DocumentOrderSafeHolds ==
  EngineSpec => []DocumentOrderSafe
<1>1. EngineInv => DocumentOrderSafe
  BY OrderSafeNow
<1> QED
  BY <1>1, EngineInvariance, PTL

=============================================================================
