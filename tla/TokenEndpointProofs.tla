------------------------ MODULE TokenEndpointProofs ------------------------
(***************************************************************************)
(* Theorems about TokenEndpoint, for any number of clients, requests,      *)
(* codes, tokens and concurrent goroutines.                                *)
(***************************************************************************)
EXTENDS TokenEndpoint, TLAPS

-----------------------------------------------------------------------------
(* Type correctness.  TypeOK is not inductive: the record fields a step    *)
(* reads are defined only for objects that exist, so the invariant also    *)
(* says that every key and every pointer held by a goroutine refers to an  *)
(* object, and that a completed request has a user.                        *)

ObjectsExist ==
  /\ \A r \in authRequests : reqData[r] # Nil
  /\ \A r \in ReqIDs : reqData[r] # Nil /\ reqData[r].done => reqData[r].user # Nil
  /\ \A c \in Codes : codeToAuthReq[c] # Nil =>
       reqData[codeToAuthReq[c]] # Nil /\ reqData[codeToAuthReq[c]].done
  /\ \A f \in refreshTokens : rtData[f] # Nil
  /\ \A t \in delivered \cup tracked : tokData[t] # Nil

Issuing == {"narrow", "createAT", "createRT", "rotate", "respond", "track", "delete"}

ProcOK(p) ==
  /\ proc[p].pc # "idle" => proc[p].code \in Codes
  /\ proc[p].pc \in Issuing =>
       /\ proc[p].client \in Clients
       /\ proc[p].rt # Nil => rtData[proc[p].rt] # Nil
       /\ proc[p].rt = Nil =>
            /\ proc[p].req \in ReqIDs
            /\ reqData[proc[p].req] # Nil
            /\ reqData[proc[p].req].done
  /\ proc[p].pc \in {"narrow", "rotate"} => proc[p].rt # Nil
  /\ proc[p].pc \in {"track", "delete"} => proc[p].rt = Nil
  /\ proc[p].pc \in {"createRT", "rotate", "respond", "track", "delete"} =>
       proc[p].at \in ATs /\ tokData[proc[p].at] # Nil

PointersValid == \A p \in Procs : ProcOK(p)

TypeInv == TypeOK /\ ObjectsExist /\ PointersValid

\* An object that exists keeps existing and a completed request stays complete.
ObjectsGrow ==
  /\ \A r \in ReqIDs : reqData[r] # Nil =>
       reqData'[r] # Nil /\ (reqData[r].done => reqData'[r].done)
  /\ \A f \in RTs : rtData[f] # Nil => rtData'[f] # Nil
  /\ \A t \in ATs : tokData[t] # Nil => tokData'[t] # Nil

\* A goroutine that does not move keeps its invariant while objects only grow.
LEMMA OthersKeep ==
  ASSUME NEW q \in Procs, TypeOK, ProcOK(q), ObjectsGrow, proc'[q] = proc[q]
  PROVE  ProcOK(q)'
  BY DEF TypeOK, ProcOK, ObjectsGrow, Issuing, Proc

\* The initial state satisfies the type invariant.
LEMMA TypeInit == Init => TypeInv
  BY StorageAssumption
  DEF Init, StorageInit, TypeInv, TypeOK, StorageTypeOK, ObjectsExist,
      PointersValid, ProcOK, Issuing, Proc, PCs, Idle

\* Steps of the authorization endpoint: no goroutine of the token endpoint moves.
LEMMA TypeAuthorization == TypeInv /\ AuthorizationStep => TypeInv'
<1> SUFFICES ASSUME TypeInv, AuthorizationStep PROVE TypeInv'
  OBVIOUS
<1> USE StorageAssumption, ObjectAssumption
<1> USE DEF codeVars, reqVars, tokenVars, rtVars, histVars
<1>0. /\ TypeOK
      /\ StorageTypeOK
      /\ ObjectsExist
      /\ \A p \in Procs : ProcOK(p)
  BY DEF TypeInv, PointersValid, TypeOK
<1>1. ASSUME NEW r \in ReqIDs, NEW c \in Clients, NEW s \in SUBSET Scopes,
             NEW k \in Keys \cup {Nil}, Authorize(r, c, s, k)
      PROVE TypeInv'
  <2> DEFINE ar == [client |-> c, user |-> Nil, done |-> FALSE, sid |-> TRUE,
                    scopes |-> s]
  <2>1. ar \in AuthRequest /\ ~ar.done
    BY DEF AuthRequest
  <2>2. /\ reqData' = [reqData EXCEPT ![r] = ar]
        /\ reqData[r] = Nil
        /\ authRequests' = authRequests \cup {r}
        /\ dpopJKTs' = [dpopJKTs EXCEPT ![r] = k]
    BY <1>1 DEF Authorize, CreateAuthRequest, FreshReqs
  <2> HIDE DEF ar
  <2>3. TypeOK'
    BY <1>0, <1>1, <2>1, <2>2 DEF Authorize, TypeOK, StorageTypeOK
  <2>4. ObjectsExist'
    BY <1>0, <1>1, <2>1, <2>2 DEF Authorize, ObjectsExist, StorageTypeOK
  <2>5. ObjectsGrow /\ proc' = proc
    BY <1>0, <1>1, <2>1, <2>2 DEF Authorize, ObjectsGrow, StorageTypeOK
  <2> QED
    BY <1>0, <2>3, <2>4, <2>5, OthersKeep DEF TypeInv, PointersValid
<1>2. ASSUME NEW r \in ReqIDs, NEW u \in Users, NEW hasSid \in BOOLEAN,
             Accept(r, u, hasSid)
      PROVE TypeInv'
  <2> DEFINE ar == [client |-> reqData[r].client, user |-> u, done |-> TRUE,
                    sid |-> hasSid, scopes |-> reqData[r].scopes]
  <2>1. reqData[r] # Nil /\ reqData[r] \in AuthRequest
    BY <1>0, <1>2 DEF Accept, CompleteAuthRequest, ObjectsExist, StorageTypeOK
  <2>2. ar \in AuthRequest /\ ar.done /\ ar.user # Nil
    BY <2>1 DEF AuthRequest
  <2>3. /\ reqData' = [reqData EXCEPT ![r] = ar]
        /\ authRequests' = authRequests
        /\ dpopJKTs' = dpopJKTs
    BY <1>2 DEF Accept, CompleteAuthRequest
  <2> HIDE DEF ar
  <2>4. TypeOK'
    BY <1>0, <1>2, <2>2, <2>3 DEF Accept, TypeOK, StorageTypeOK
  <2>5. ObjectsExist'
    BY <1>0, <1>2, <2>2, <2>3 DEF Accept, ObjectsExist, StorageTypeOK
  <2>6. ObjectsGrow /\ proc' = proc
    BY <1>0, <1>2, <2>2, <2>3 DEF Accept, ObjectsGrow, StorageTypeOK
  <2> QED
    BY <1>0, <2>4, <2>5, <2>6, OthersKeep DEF TypeInv, PointersValid
<1>3. ASSUME NEW r \in ReqIDs, NEW u \in Users, Login(r, u)
      PROVE TypeInv'
  <2> DEFINE ar == [client |-> reqData[r].client, user |-> u, done |-> TRUE,
                    sid |-> reqData[r].sid, scopes |-> reqData[r].scopes]
  <2>1. reqData[r] # Nil /\ reqData[r] \in AuthRequest
    BY <1>0, <1>3 DEF Login, CheckUsernamePassword, ObjectsExist, StorageTypeOK
  <2>2. ar \in AuthRequest /\ ar.done /\ ar.user # Nil
    BY <2>1 DEF AuthRequest
  <2>3. /\ reqData' = [reqData EXCEPT ![r] = ar]
        /\ authRequests' = authRequests
        /\ dpopJKTs' = dpopJKTs
    BY <1>3 DEF Login, CheckUsernamePassword
  <2> HIDE DEF ar
  <2>4. TypeOK'
    BY <1>0, <1>3, <2>2, <2>3 DEF Login, TypeOK, StorageTypeOK
  <2>5. ObjectsExist'
    BY <1>0, <1>3, <2>2, <2>3 DEF Login, ObjectsExist, StorageTypeOK
  <2>6. ObjectsGrow /\ proc' = proc
    BY <1>0, <1>3, <2>2, <2>3 DEF Login, ObjectsGrow, StorageTypeOK
  <2> QED
    BY <1>0, <2>4, <2>5, <2>6, OthersKeep DEF TypeInv, PointersValid
<1>4. ASSUME NEW r \in ReqIDs, NEW c \in Codes, Callback(r, c)
      PROVE TypeInv'
  <2>1. /\ reqData[r] # Nil
        /\ reqData[r] \in AuthRequest
        /\ reqData[r].done
        /\ reqData[r].user \in Users \cup {Nil}
    BY <1>0, <1>4 DEF Callback, ObjectsExist, StorageTypeOK, AuthRequest
  <2>2. TypeOK'
    BY <1>0, <1>4, <2>1 DEF Callback, SaveAuthCode, TypeOK, StorageTypeOK
  <2>3. ObjectsExist'
    BY <1>0, <1>4, <2>1 DEF Callback, SaveAuthCode, ObjectsExist, StorageTypeOK
  <2>4. ObjectsGrow /\ proc' = proc
    BY <1>0, <1>4 DEF Callback, ObjectsGrow
  <2> QED
    BY <1>0, <2>2, <2>3, <2>4, OthersKeep DEF TypeInv, PointersValid
<1>5. ASSUME NEW c \in Codes, CodeAges(c)
      PROVE TypeInv'
  <2>1. TypeOK' /\ ObjectsExist'
    BY <1>0, <1>5 DEF CodeAges, TypeOK, StorageTypeOK, ObjectsExist
  <2>2. ObjectsGrow /\ proc' = proc
    BY <1>0, <1>5 DEF CodeAges, ObjectsGrow
  <2> QED
    BY <1>0, <2>1, <2>2, OthersKeep DEF TypeInv, PointersValid
<1> QED
  BY <1>1, <1>2, <1>3, <1>4, <1>5 DEF AuthorizationStep

\* Every step of one goroutine p leaves the other goroutines where they are.
LEMMA TypeFrame ==
  ASSUME NEW p \in Procs, TypeInv, TypeOK', ObjectsExist', ObjectsGrow, ProcOK(p)',
         \A q \in Procs \ {p} : proc'[q] = proc[q]
  PROVE  TypeInv'
<1>1. ASSUME NEW q \in Procs PROVE ProcOK(q)'
  BY <1>1, OthersKeep DEF TypeInv, PointersValid
<1> QED
  BY <1>1 DEF TypeInv, PointersValid

\* A goroutine that starts a request gets a new record; the others keep theirs.
LEMMA ProcUpdate ==
  ASSUME NEW p \in Procs, proc \in [Procs -> Proc], NEW rec \in Proc,
         proc' = [proc EXCEPT ![p] = rec]
  PROVE  /\ proc' \in [Procs -> Proc]
         /\ proc'[p] = rec
         /\ \A q \in Procs \ {p} : proc'[q] = proc[q]
  OBVIOUS

\* Moving to another program counter changes nothing else of the goroutine.
LEMMA ProcGoto ==
  ASSUME NEW p \in Procs, proc \in [Procs -> Proc], NEW pc \in PCs, Goto(p, pc)
  PROVE  /\ proc' \in [Procs -> Proc]
         /\ proc'[p] = [proc[p] EXCEPT !.pc = pc]
         /\ proc'[p].pc = pc
         /\ proc'[p].code = proc[p].code
         /\ proc'[p].req = proc[p].req
         /\ proc'[p].rt = proc[p].rt
         /\ proc'[p].client = proc[p].client
         /\ proc'[p].scopes = proc[p].scopes
         /\ proc'[p].at = proc[p].at
         /\ \A q \in Procs \ {p} : proc'[q] = proc[q]
  BY DEF Goto, Proc

\* A goroutine that has answered is idle, and an idle one holds no pointer.
LEMMA ProcAnswer ==
  ASSUME NEW p \in Procs, proc \in [Procs -> Proc], Answer(p)
  PROVE  /\ proc' \in [Procs -> Proc]
         /\ proc'[p] = Idle
         /\ ProcOK(p)'
         /\ \A q \in Procs \ {p} : proc'[q] = proc[q]
<1>1. Idle \in Proc
  BY DEF Idle, Proc, PCs
<1>2. proc' \in [Procs -> Proc] /\ proc'[p] = Idle
  BY <1>1 DEF Answer
<1>3. ProcOK(p)'
  BY <1>2 DEF ProcOK, Idle, Issuing
<1> QED
  BY <1>2, <1>3 DEF Answer

\* Steps of handleAuthorizationCode outside the issuing of tokens.
LEMMA TypeExchange ==
  ASSUME NEW p \in Procs, TypeInv, CodeExchangeStep(p)
  PROVE  TypeInv'
<1> USE StorageAssumption, EndpointAssumption, ObjectAssumption
<1> USE DEF codeVars, reqVars, tokenVars, rtVars, storeVars, histVars
<1>0. /\ TypeOK
      /\ StorageTypeOK
      /\ ObjectsExist
      /\ ProcOK(p)
      /\ proc \in [Procs -> Proc]
      /\ proc[p] \in Proc
  BY DEF TypeInv, PointersValid, TypeOK
<1>1. ASSUME NEW c \in Codes, RedeemUnknown(p, c) \/ RedeemExpired(p, c)
      PROVE TypeInv'
  <2> DEFINE rec == [Idle EXCEPT !.pc = "revoke", !.code = c]
  <2>1. rec \in Proc /\ rec.pc = "revoke" /\ rec.code = c
    BY DEF Idle, Proc, PCs
  <2>2. proc' = [proc EXCEPT ![p] = rec]
    BY <1>1 DEF RedeemUnknown, RedeemExpired
  <2> HIDE DEF rec
  <2>3. /\ proc' \in [Procs -> Proc]
        /\ proc'[p] = rec
        /\ \A q \in Procs \ {p} : proc'[q] = proc[q]
    BY <1>0, <2>1, <2>2
  <2>4. ProcOK(p)'
    BY <2>1, <2>3 DEF ProcOK, Issuing
  <2>5. TypeOK'
    BY <1>0, <1>1, <2>3
    DEF RedeemUnknown, RedeemExpired, DropExpiredCode, CodeExpired, CodeUnknown,
        TypeOK, StorageTypeOK
  <2>6. ObjectsExist'
    BY <1>0, <1>1
    DEF RedeemUnknown, RedeemExpired, DropExpiredCode, ObjectsExist, StorageTypeOK
  <2>7. ObjectsGrow
    BY <1>1 DEF RedeemUnknown, RedeemExpired, ObjectsGrow
  <2> QED
    BY <2>3, <2>4, <2>5, <2>6, <2>7, TypeFrame
<1>2. ASSUME NEW c \in Codes, RedeemRejected(p, c)
      PROVE TypeInv'
  <2>1. TypeOK'
    BY <1>0, <1>2 DEF RedeemRejected, ConsumeCode, CodeRedeemable, CodeUnknown,
                      TypeOK, StorageTypeOK
  <2>2. ObjectsExist'
    BY <1>0, <1>2 DEF RedeemRejected, ConsumeCode, ObjectsExist, StorageTypeOK
  <2>3. ObjectsGrow /\ proc' = proc
    BY <1>2 DEF RedeemRejected, ObjectsGrow
  <2>4. ProcOK(p)'
    BY <1>0, <2>3, OthersKeep
  <2> QED
    BY <2>1, <2>2, <2>3, <2>4, TypeFrame
<1>3. ASSUME NEW c \in Codes, NEW cl \in Clients, NEW k \in Keys \cup {Nil},
             RedeemAccepted(p, c, cl, k)
      PROVE TypeInv'
  <2> DEFINE r == codeToAuthReq[c]
  <2> DEFINE rec == [Idle EXCEPT !.pc = "createAT", !.code = c, !.req = r,
                                 !.client = cl, !.jkt = k]
  <2>1. r \in ReqIDs /\ reqData[r] # Nil /\ reqData[r].done
    BY <1>0, <1>3 DEF RedeemAccepted, CodeRedeemable, CodeUnknown, ObjectsExist,
                      StorageTypeOK
  <2>2. /\ rec \in Proc
        /\ rec.pc = "createAT"
        /\ rec.code = c
        /\ rec.req = r
        /\ rec.client = cl
        /\ rec.rt = Nil
    BY <2>1 DEF Idle, Proc, PCs
  <2>3. proc' = [proc EXCEPT ![p] = rec]
    BY <1>3 DEF RedeemAccepted
  <2> HIDE DEF rec
  <2>4. /\ proc' \in [Procs -> Proc]
        /\ proc'[p] = rec
        /\ \A q \in Procs \ {p} : proc'[q] = proc[q]
    BY <1>0, <2>2, <2>3
  <2>5. ConsumeCode(c) /\ UNCHANGED <<reqVars, tokenVars, rtVars, codeTokens,
                                      clientSessions, histVars>>
    BY <1>3 DEF RedeemAccepted
  <2>6. ProcOK(p)'
    BY <2>1, <2>2, <2>4, <2>5 DEF ProcOK, Issuing
  <2>7. TypeOK'
    BY <1>0, <2>1, <2>4, <2>5 DEF ConsumeCode, TypeOK, StorageTypeOK
  <2>8. ObjectsExist'
    BY <1>0, <2>5 DEF ConsumeCode, ObjectsExist, StorageTypeOK
  <2>9. ObjectsGrow
    BY <2>5 DEF ObjectsGrow
  <2> QED
    BY <2>4, <2>6, <2>7, <2>8, <2>9, TypeFrame
<1>4. ASSUME DetectReplay(p)
      PROVE TypeInv'
  <2>1. /\ proc' \in [Procs -> Proc]
        /\ ProcOK(p)'
        /\ \A q \in Procs \ {p} : proc'[q] = proc[q]
    BY <1>0, <1>4, ProcAnswer DEF DetectReplay
  <2>2. proc[p].code \in Codes
    BY <1>0, <1>4 DEF DetectReplay, At, ProcOK
  <2>3. TypeOK'
    BY <1>0, <1>4, <2>1, <2>2 DEF DetectReplay, RevokeTokensForUsedCode,
                                  TypeOK, StorageTypeOK
  <2>4. ObjectsExist' /\ ObjectsGrow
    BY <1>0, <1>4 DEF DetectReplay, RevokeTokensForUsedCode, ObjectsExist, ObjectsGrow
  <2> QED
    BY <2>1, <2>3, <2>4, TypeFrame
<1>5. ASSUME TrackToken(p)
      PROVE TypeInv'
  <2>1. /\ proc' \in [Procs -> Proc]
        /\ proc'[p].pc = "delete"
        /\ proc'[p].code = proc[p].code
        /\ proc'[p].req = proc[p].req
        /\ proc'[p].rt = proc[p].rt
        /\ proc'[p].client = proc[p].client
        /\ proc'[p].at = proc[p].at
        /\ \A q \in Procs \ {p} : proc'[q] = proc[q]
    BY <1>0, <1>5, ProcGoto DEF TrackToken, PCs
  <2>2. proc[p].pc = "track" /\ proc[p].req \in ReqIDs /\ proc[p].at \in ATs
        /\ tokData[proc[p].at] # Nil
    BY <1>0, <1>5 DEF TrackToken, At, ProcOK, Issuing
  <2>3. ProcOK(p)'
    BY <1>0, <1>5, <2>1, <2>2 DEF TrackToken, ProcOK, Issuing
  <2>4. TypeOK'
    BY <1>0, <1>5, <2>1, <2>2 DEF TrackToken, TrackTokenForAuthRequest,
                                  TypeOK, StorageTypeOK
  <2>5. ObjectsExist' /\ ObjectsGrow
    BY <1>0, <1>5, <2>2 DEF TrackToken, ObjectsExist, ObjectsGrow
  <2> QED
    BY <2>1, <2>3, <2>4, <2>5, TypeFrame
<1>6. ASSUME FinishExchange(p)
      PROVE TypeInv'
  <2>1. /\ proc' \in [Procs -> Proc]
        /\ ProcOK(p)'
        /\ \A q \in Procs \ {p} : proc'[q] = proc[q]
    BY <1>0, <1>6, ProcAnswer DEF FinishExchange
  <2>2. proc[p].req \in ReqIDs /\ proc[p].at \in ATs /\ tokData[proc[p].at] # Nil
    BY <1>0, <1>6 DEF FinishExchange, At, ProcOK, Issuing
  <2>3. TypeOK'
    BY <1>0, <1>6, <2>1, <2>2 DEF FinishExchange, DeleteAuthRequest,
                                  TypeOK, StorageTypeOK
  <2>4. ObjectsExist'
    BY <1>0, <1>6, <2>2 DEF FinishExchange, DeleteAuthRequest, ObjectsExist,
                            StorageTypeOK
  <2>5. ObjectsGrow
    BY <1>6 DEF FinishExchange, DeleteAuthRequest, ObjectsGrow
  <2> QED
    BY <2>1, <2>3, <2>4, <2>5, TypeFrame
<1> QED
  BY <1>1, <1>2, <1>3, <1>4, <1>5, <1>6 DEF CodeExchangeStep

\* Steps of handleRefreshToken outside the issuing of tokens.
LEMMA TypeRefresh ==
  ASSUME NEW p \in Procs, TypeInv, RefreshStep(p)
  PROVE  TypeInv'
<1> USE StorageAssumption, EndpointAssumption, ObjectAssumption
<1> USE DEF codeVars, reqVars, tokenVars, rtVars, storeVars, histVars
<1>0. /\ TypeOK
      /\ StorageTypeOK
      /\ ObjectsExist
      /\ ProcOK(p)
      /\ proc \in [Procs -> Proc]
      /\ proc[p] \in Proc
  BY DEF TypeInv, PointersValid, TypeOK
<1>1. ASSUME NEW f \in RTs, NEW cl \in Clients, NEW k \in Keys \cup {Nil},
             NEW s \in SUBSET Scopes, PresentRefreshToken(p, f, cl, k, s)
      PROVE TypeInv'
  <2> DEFINE pc0 == IF s = {} THEN "createAT" ELSE "narrow"
  <2> DEFINE rec == [Idle EXCEPT !.pc = pc0, !.code = rtData[f].code, !.rt = f,
                                 !.client = cl, !.jkt = k, !.scopes = s]
  <2>1. rtData[f] # Nil /\ rtData[f] \in RefreshToken /\ rtData[f].code \in Codes
    BY <1>0, <1>1 DEF PresentRefreshToken, ObjectsExist, StorageTypeOK, RefreshToken
  <2>2. /\ rec \in Proc
        /\ rec.pc \in {"createAT", "narrow"}
        /\ rec.code \in Codes
        /\ rec.client = cl
        /\ rec.rt = f
    BY <2>1 DEF Idle, Proc, PCs
  <2>3. proc' = [proc EXCEPT ![p] = rec]
    BY <1>1 DEF PresentRefreshToken
  <2> HIDE DEF rec
  <2>4. /\ proc' \in [Procs -> Proc]
        /\ proc'[p] = rec
        /\ \A q \in Procs \ {p} : proc'[q] = proc[q]
    BY <1>0, <2>2, <2>3
  <2>5. UNCHANGED <<storeVars, histVars>>
    BY <1>1 DEF PresentRefreshToken
  <2>6. ProcOK(p)'
    BY <2>1, <2>2, <2>4, <2>5 DEF ProcOK, Issuing
  <2>7. TypeOK'
    BY <1>0, <2>4, <2>5 DEF TypeOK, StorageTypeOK
  <2>8. ObjectsExist' /\ ObjectsGrow
    BY <1>0, <2>5 DEF ObjectsExist, ObjectsGrow
  <2> QED
    BY <2>4, <2>6, <2>7, <2>8, TypeFrame
<1>2. ASSUME NarrowScopes(p)
      PROVE TypeInv'
  <2> DEFINE f == proc[p].rt
  <2> DEFINE rt == [rtData[f] EXCEPT !.scopes = proc[p].scopes]
  <2>1. /\ proc[p].pc = "narrow"
        /\ f \in RTs
        /\ rtData[f] # Nil
        /\ rtData[f] \in RefreshToken
        /\ proc[p].scopes \in SUBSET Scopes
    BY <1>0, <1>2 DEF NarrowScopes, At, ProcOK, Issuing, StorageTypeOK, Proc
  <2>2. rt \in RefreshToken
    BY <2>1 DEF RefreshToken
  <2>3. rtData' = [rtData EXCEPT ![f] = rt]
    BY <1>2 DEF NarrowScopes, SetCurrentScopes
  <2>4. /\ UNCHANGED <<codeVars, reqVars, tokenVars, codeTokens, clientSessions,
                       histVars>>
        /\ UNCHANGED refreshTokens
        /\ Goto(p, "createAT") \/ Answer(p)
    BY <1>2 DEF NarrowScopes, SetCurrentScopes
  <2> HIDE DEF rt
  <2>5. ObjectsGrow
    BY <1>0, <2>1, <2>2, <2>3, <2>4 DEF ObjectsGrow, StorageTypeOK
  <2>6. /\ proc' \in [Procs -> Proc]
        /\ \A q \in Procs \ {p} : proc'[q] = proc[q]
    BY <1>0, <2>4, ProcGoto, ProcAnswer DEF PCs
  <2>7. ProcOK(p)'
    <3>1. CASE Goto(p, "createAT")
      <4>1. /\ proc'[p].pc = "createAT"
            /\ proc'[p].code = proc[p].code
            /\ proc'[p].rt = proc[p].rt
            /\ proc'[p].client = proc[p].client
        BY <1>0, <3>1, ProcGoto DEF PCs
      <4> QED
        BY <1>0, <2>1, <2>2, <2>3, <4>1 DEF ProcOK, Issuing, StorageTypeOK
    <3>2. CASE Answer(p)
      BY <1>0, <3>2, ProcAnswer
    <3> QED
      BY <2>4, <3>1, <3>2
  <2>8. TypeOK'
    BY <1>0, <2>1, <2>2, <2>3, <2>4, <2>6 DEF TypeOK, StorageTypeOK
  <2>9. ObjectsExist'
    BY <1>0, <2>1, <2>2, <2>3, <2>4 DEF ObjectsExist, StorageTypeOK
  <2> QED
    BY <2>5, <2>6, <2>7, <2>8, <2>9, TypeFrame
<1>3. ASSUME Rotate(p)
      PROVE TypeInv'
  <2>1. /\ proc' \in [Procs -> Proc]
        /\ proc'[p].pc = "respond"
        /\ proc'[p].code = proc[p].code
        /\ proc'[p].req = proc[p].req
        /\ proc'[p].rt = proc[p].rt
        /\ proc'[p].client = proc[p].client
        /\ proc'[p].at = proc[p].at
        /\ \A q \in Procs \ {p} : proc'[q] = proc[q]
    BY <1>0, <1>3, ProcGoto DEF Rotate, PCs
  <2>2. proc[p].pc = "rotate" /\ proc[p].rt \in RTs
    BY <1>0, <1>3 DEF Rotate, At, ProcOK, Proc
  <2>3. ProcOK(p)'
    BY <1>0, <1>3, <2>1, <2>2 DEF Rotate, DropRefreshToken, ProcOK, Issuing
  <2>4. TypeOK'
    BY <1>0, <1>3, <2>1, <2>2 DEF Rotate, DropRefreshToken, TypeOK, StorageTypeOK
  <2>5. ObjectsExist' /\ ObjectsGrow
    BY <1>0, <1>3 DEF Rotate, DropRefreshToken, ObjectsExist, ObjectsGrow
  <2> QED
    BY <2>1, <2>3, <2>4, <2>5, TypeFrame
<1> QED
  BY <1>1, <1>2, <1>3 DEF RefreshStep

\* What the request object yields to createTokenResponseFromTokenRequest.
LEMMA GrantTyped ==
  ASSUME NEW p \in Procs, TypeInv, proc[p].pc \in Issuing
  PROVE  /\ GrantClient(p) \in Clients
         /\ GrantSubject(p) \in Subject
         /\ GrantScopes(p) \in SUBSET Scopes
         /\ applyPairwise(proc[p].client, GrantSubject(p)) \in Subject
<1> USE StorageAssumption, ObjectAssumption
<1>0. StorageTypeOK /\ ProcOK(p) /\ proc[p] \in Proc
  BY DEF TypeInv, PointersValid, TypeOK
<1>1. CASE proc[p].rt = Nil
  <2>1. reqData[proc[p].req] \in AuthRequest
    BY <1>0, <1>1 DEF ProcOK, StorageTypeOK
  <2> QED
    BY <1>1, <2>1 DEF GrantClient, GrantSubject, GrantScopes, applyPairwise,
                      AuthRequest, Subject
<1>2. CASE proc[p].rt # Nil
  <2>1. rtData[proc[p].rt] \in RefreshToken
    BY <1>0, <1>2 DEF ProcOK, StorageTypeOK, Proc
  <2> QED
    BY <1>2, <2>1 DEF GrantClient, GrantSubject, GrantScopes, applyPairwise,
                      RefreshToken, Subject
<1> QED
  BY <1>1, <1>2

\* Steps of createTokenResponseFromTokenRequest.
LEMMA TypeIssue ==
  ASSUME NEW p \in Procs, TypeInv, IssueStep(p)
  PROVE  TypeInv'
<1> USE StorageAssumption, EndpointAssumption, ObjectAssumption
<1> USE DEF codeVars, reqVars, tokenVars, rtVars, storeVars, histVars
<1>0. /\ TypeOK
      /\ StorageTypeOK
      /\ ObjectsExist
      /\ ProcOK(p)
      /\ proc \in [Procs -> Proc]
      /\ proc[p] \in Proc
  BY DEF TypeInv, PointersValid, TypeOK
<1>1. ASSUME NEW t \in ATs, CreateAccessToken(p, t)
      PROVE TypeInv'
  <2> DEFINE tok == [client |-> GrantClient(p),
                     subject |-> applyPairwise(proc[p].client, GrantSubject(p)),
                     scopes |-> GrantScopes(p), jkt |-> proc[p].jkt,
                     by |-> proc[p].client, code |-> proc[p].code,
                     rt |-> proc[p].rt]
  <2> DEFINE pc1 == IF proc[p].client \in RefreshClients THEN "createRT" ELSE "respond"
  <2> DEFINE rec == [proc[p] EXCEPT !.at = t, !.pc = pc1]
  <2>0. proc[p].pc = "createAT" /\ tokData[t] = Nil
    BY <1>1 DEF CreateAccessToken, At, FreshATs
  <2>1. tok \in Token
    <3>1. /\ GrantClient(p) \in Clients
          /\ applyPairwise(proc[p].client, GrantSubject(p)) \in Subject
          /\ GrantScopes(p) \in SUBSET Scopes
      BY <2>0, GrantTyped DEF Issuing
    <3>2. /\ proc[p].jkt \in Keys \cup {Nil}
          /\ proc[p].client \in Clients
          /\ proc[p].code \in Codes
          /\ proc[p].rt \in RTs \cup {Nil}
      BY <1>0, <2>0 DEF ProcOK, Issuing, Proc
    <3> QED
      BY <3>1, <3>2 DEF Token
  <2>2. /\ rec \in Proc
        /\ rec.pc \in {"createRT", "respond"}
        /\ rec.code = proc[p].code
        /\ rec.req = proc[p].req
        /\ rec.rt = proc[p].rt
        /\ rec.client = proc[p].client
        /\ rec.at = t
    BY <1>0 DEF Proc, PCs
  <2>3. /\ tokens' = tokens \cup {t}
        /\ tokData' = [tokData EXCEPT ![t] = tok]
    BY <1>1 DEF CreateAccessToken, PutToken
  <2>4. proc' = [proc EXCEPT ![p] = rec]
    BY <1>1 DEF CreateAccessToken
  <2>5. UNCHANGED <<codeVars, reqVars, rtVars, codeTokens, clientSessions, histVars>>
    BY <1>1 DEF CreateAccessToken
  <2> HIDE DEF tok, rec
  <2>6. /\ proc' \in [Procs -> Proc]
        /\ proc'[p] = rec
        /\ \A q \in Procs \ {p} : proc'[q] = proc[q]
    BY <1>0, <2>2, <2>4
  <2>7. ProcOK(p)'
    BY <1>0, <2>0, <2>1, <2>2, <2>3, <2>5, <2>6 DEF ProcOK, Issuing, StorageTypeOK
  <2>8. TypeOK'
    BY <1>0, <2>1, <2>3, <2>5, <2>6 DEF TypeOK, StorageTypeOK
  <2>9. ObjectsExist'
    BY <1>0, <2>1, <2>3, <2>5 DEF ObjectsExist, TypeOK, StorageTypeOK
  <2>10. ObjectsGrow
    BY <1>0, <2>1, <2>3, <2>5 DEF ObjectsGrow, StorageTypeOK
  <2> QED
    BY <2>6, <2>7, <2>8, <2>9, <2>10, TypeFrame
<1>2. ASSUME NEW f \in RTs, CreateRefreshToken(p, f)
      PROVE TypeInv'
  <2> DEFINE sub == IF proc[p].client \in PairwiseClients
                      THEN tokData[proc[p].at].subject ELSE GrantSubject(p)
  <2> DEFINE rt == [client |-> GrantClient(p), subject |-> sub,
                    scopes |-> GrantScopes(p), jkt |-> proc[p].jkt,
                    at |-> proc[p].at, code |-> proc[p].code]
  <2> DEFINE pc1 == IF proc[p].rt # Nil /\ InvalidateRefreshOnUse
                      THEN "rotate" ELSE "respond"
  <2>0. proc[p].pc = "createRT"
    BY <1>2 DEF CreateRefreshToken, At
  <2>1. rt \in RefreshToken
    <3>1. /\ GrantClient(p) \in Clients
          /\ GrantSubject(p) \in Subject
          /\ GrantScopes(p) \in SUBSET Scopes
      BY <2>0, GrantTyped DEF Issuing
    <3>2. /\ proc[p].jkt \in Keys \cup {Nil}
          /\ proc[p].code \in Codes
          /\ proc[p].at \in ATs
          /\ tokData[proc[p].at] \in Token
      BY <1>0, <2>0 DEF ProcOK, Issuing, Proc, StorageTypeOK
    <3>3. sub \in Subject
      BY <3>1, <3>2 DEF Token
    <3> HIDE DEF sub
    <3> QED
      BY <3>1, <3>2, <3>3 DEF RefreshToken
  <2>2. /\ refreshTokens' = refreshTokens \cup {f}
        /\ rtData' = [rtData EXCEPT ![f] = rt]
    BY <1>2 DEF CreateRefreshToken, PutRefreshToken
  <2>3. Goto(p, pc1)
    BY <1>2 DEF CreateRefreshToken
  <2>4. UNCHANGED <<codeVars, reqVars, tokenVars, codeTokens, clientSessions, histVars>>
    BY <1>2 DEF CreateRefreshToken
  <2>5. pc1 \in PCs /\ (pc1 = "respond" \/ (pc1 = "rotate" /\ proc[p].rt # Nil))
    BY DEF PCs
  <2> HIDE DEF rt, pc1
  <2>6. /\ proc' \in [Procs -> Proc]
        /\ proc'[p].pc = pc1
        /\ proc'[p].code = proc[p].code
        /\ proc'[p].req = proc[p].req
        /\ proc'[p].rt = proc[p].rt
        /\ proc'[p].client = proc[p].client
        /\ proc'[p].at = proc[p].at
        /\ \A q \in Procs \ {p} : proc'[q] = proc[q]
    BY <1>0, <2>3, <2>5, ProcGoto
  <2>7. ProcOK(p)'
    BY <1>0, <2>0, <2>1, <2>2, <2>4, <2>5, <2>6 DEF ProcOK, Issuing, StorageTypeOK
  <2>8. TypeOK'
    BY <1>0, <2>1, <2>2, <2>4, <2>6 DEF TypeOK, StorageTypeOK
  <2>9. ObjectsExist'
    BY <1>0, <2>1, <2>2, <2>4 DEF ObjectsExist, StorageTypeOK
  <2>10. ObjectsGrow
    BY <1>0, <2>1, <2>2, <2>4 DEF ObjectsGrow, StorageTypeOK
  <2> QED
    BY <2>6, <2>7, <2>8, <2>9, <2>10, TypeFrame
<1>3. ASSUME Respond(p)
      PROVE TypeInv'
  <2>0. /\ proc[p].pc = "respond"
        /\ proc[p].at \in ATs
        /\ tokData[proc[p].at] # Nil
        /\ proc[p].client \in Clients
    BY <1>0, <1>3 DEF Respond, At, ProcOK, Issuing
  <2>1. UNCHANGED <<codeVars, reqVars, tokenVars, rtVars, codeTokens,
                    tracked, doomed, rotated, revoked, ackRevoked>>
    BY <1>3 DEF Respond
  <2>2. ObjectsGrow
    BY <2>1 DEF ObjectsGrow
  <2>3. /\ proc' \in [Procs -> Proc]
        /\ \A q \in Procs \ {p} : proc'[q] = proc[q]
    BY <1>0, <1>3, ProcGoto, ProcAnswer DEF Respond, PCs
  <2>4. CASE proc[p].rt = Nil
    <3>1. /\ proc[p].req \in ReqIDs
          /\ reqData[proc[p].req] \in AuthRequest
          /\ reqData[proc[p].req].user \in Users
      <4>1. /\ proc[p].req \in ReqIDs
            /\ reqData[proc[p].req] # Nil
            /\ reqData[proc[p].req].done
        BY <1>0, <2>0, <2>4 DEF ProcOK, Issuing
      <4>2. reqData[proc[p].req] \in AuthRequest /\ reqData[proc[p].req].user # Nil
        BY <1>0, <4>1 DEF StorageTypeOK, ObjectsExist
      <4> QED
        BY <4>1, <4>2 DEF AuthRequest
    <3>2. /\ proc'[p].pc = "track"
          /\ proc'[p].code = proc[p].code
          /\ proc'[p].req = proc[p].req
          /\ proc'[p].rt = proc[p].rt
          /\ proc'[p].client = proc[p].client
          /\ proc'[p].at = proc[p].at
      BY <1>0, <1>3, <2>4, ProcGoto DEF Respond, PCs
    <3>3. ProcOK(p)'
      BY <1>0, <2>0, <2>1, <2>4, <3>2 DEF ProcOK, Issuing
    <3>4. delivered' = delivered
      BY <1>3, <2>4 DEF Respond
    <3>5. clientSessions' \in [Users \X Clients -> ReqIDs \cup {Nil}]
      BY <1>0, <1>3, <2>0, <2>4, <3>1 DEF Respond, RecordClientSession, StorageTypeOK
    <3>6. TypeOK' /\ ObjectsExist'
      BY <1>0, <2>1, <2>3, <3>4, <3>5 DEF TypeOK, StorageTypeOK, ObjectsExist
    <3> QED
      BY <2>2, <2>3, <3>3, <3>6, TypeFrame
  <2>5. CASE proc[p].rt # Nil
    <3>1. Answer(p) /\ delivered' = delivered \cup {proc[p].at} /\ UNCHANGED clientSessions
      BY <1>3, <2>5 DEF Respond
    <3>2. ProcOK(p)'
      BY <1>0, <3>1, ProcAnswer
    <3>3. TypeOK'
      BY <1>0, <2>0, <2>1, <2>3, <3>1 DEF TypeOK, StorageTypeOK
    <3>4. ObjectsExist'
      BY <1>0, <2>0, <2>1, <3>1 DEF ObjectsExist
    <3> QED
      BY <2>2, <2>3, <3>2, <3>3, <3>4, TypeFrame
  <2> QED
    BY <2>4, <2>5
<1>4. ASSUME RespondFails(p)
      PROVE TypeInv'
  <2>1. /\ proc' \in [Procs -> Proc]
        /\ ProcOK(p)'
        /\ \A q \in Procs \ {p} : proc'[q] = proc[q]
    BY <1>0, <1>4, ProcAnswer DEF RespondFails
  <2>2. TypeOK' /\ ObjectsExist' /\ ObjectsGrow
    BY <1>0, <1>4, <2>1
    DEF RespondFails, TypeOK, StorageTypeOK, ObjectsExist, ObjectsGrow
  <2> QED
    BY <2>1, <2>2, TypeFrame
<1> QED
  BY <1>1, <1>2, <1>3, <1>4 DEF IssueStep

\* Steps of the revocation endpoint.
LEMMA TypeRevocation == TypeInv /\ RevocationStep => TypeInv'
<1> SUFFICES ASSUME TypeInv, RevocationStep PROVE TypeInv'
  OBVIOUS
<1> USE DEF codeVars, reqVars, tokenVars, rtVars, histVars
<1>0. TypeOK /\ StorageTypeOK /\ ObjectsExist /\ \A p \in Procs : ProcOK(p)
  BY DEF TypeInv, PointersValid, TypeOK
<1>1. ASSUME NEW f \in RTs, NEW cl \in Clients, RevokeRefresh(f, cl)
      PROVE TypeInv'
  <2>1. TypeOK'
    BY <1>0, <1>1 DEF RevokeRefresh, RevokeRefreshToken, TypeOK, StorageTypeOK
  <2>2. ObjectsExist' /\ ObjectsGrow /\ proc' = proc
    BY <1>0, <1>1 DEF RevokeRefresh, RevokeRefreshToken, ObjectsExist, ObjectsGrow
  <2> QED
    BY <1>0, <2>1, <2>2, OthersKeep DEF TypeInv, PointersValid
<1>2. ASSUME NEW t \in ATs, NEW cl \in Clients, RevokeAccess(t, cl)
      PROVE TypeInv'
  <2>1. TypeOK'
    BY <1>0, <1>2 DEF RevokeAccess, RevokeAccessToken, TypeOK, StorageTypeOK
  <2>2. ObjectsExist' /\ ObjectsGrow /\ proc' = proc
    BY <1>0, <1>2 DEF RevokeAccess, RevokeAccessToken, ObjectsExist, ObjectsGrow
  <2> QED
    BY <1>0, <2>1, <2>2, OthersKeep DEF TypeInv, PointersValid
<1> QED
  BY <1>1, <1>2 DEF RevocationStep

\* Every step preserves the type invariant.
LEMMA TypeNext == TypeInv /\ [Next]_vars => TypeInv'
<1>1. CASE Next
  BY <1>1, TypeAuthorization, TypeExchange, TypeRefresh, TypeIssue, TypeRevocation
  DEF Next
<1>2. CASE UNCHANGED vars
  BY <1>2
  DEF vars, storeVars, codeVars, reqVars, tokenVars, rtVars, histVars, TypeInv, TypeOK,
      StorageTypeOK, ObjectsExist, PointersValid, ProcOK
<1> QED
  BY <1>1, <1>2

\* The type invariant, pointers included, holds in every reachable state: no
\* handler ever reads through a nil pointer or a deleted object.
THEOREM TypeInvariance == Spec => []TypeInv
<1> QED
  BY TypeInit, TypeNext, PTL DEF Spec

\* Storage, goroutines and histories keep their types.
THEOREM TypeCorrect == Spec => []TypeOK
<1>1. TypeInv => TypeOK
  BY DEF TypeInv
<1> QED
  BY <1>1, TypeInvariance, PTL

-----------------------------------------------------------------------------
(* The life of a code.  A code moves from codeToAuthReq to usedCodes and   *)
(* never back, whoever moves it: a request that redeems it, one that fails *)
(* after redeeming it, or the deletion of its authorization request.       *)

\* The two maps a code moves between are disjoint, what authCodes names is still
\* redeemable, and a code that was ever minted has a user.
CodeMaps ==
  /\ \A c \in Codes : codeToAuthReq[c] # Nil => usedCodes[c] = Nil /\ codeUser[c] # Nil
  /\ \A c \in Codes : usedCodes[c] # Nil => codeUser[c] # Nil /\ reqData[usedCodes[c]] # Nil
  /\ \A r \in ReqIDs : authCodes[r] # Nil => codeToAuthReq[authCodes[r]] = r


\* A used code keeps the request it was used for.
UsedKept ==
  \A c \in Codes : usedCodes[c] # Nil => usedCodes'[c] = usedCodes[c]

\* Client and scopes of an authorization request never change.
RequestsStable ==
  \A r \in ReqIDs : reqData[r] # Nil =>
    /\ reqData'[r] # Nil
    /\ reqData'[r].client = reqData[r].client
    /\ reqData'[r].scopes = reqData[r].scopes

\* The effect of every step on codes and requests, for all handlers at once.
LEMMA CodeMapsStep ==
  TypeInv /\ CodeMaps /\ [Next]_vars => CodeMaps' /\ UsedKept /\ RequestsStable
<1> SUFFICES ASSUME TypeInv, CodeMaps, [Next]_vars
             PROVE  CodeMaps' /\ UsedKept /\ RequestsStable
  OBVIOUS
<1> USE StorageAssumption, ObjectAssumption
<1> USE DEF codeVars, reqVars
<1>0. StorageTypeOK /\ ObjectsExist /\ \A p \in Procs : ProcOK(p) /\ proc[p] \in Proc
  BY DEF TypeInv, TypeOK, PointersValid
<1>1. ASSUME UNCHANGED <<codeVars, reqVars>>
      PROVE  CodeMaps' /\ UsedKept /\ RequestsStable
  BY <1>1 DEF CodeMaps, UsedKept, RequestsStable
<1>2. ASSUME UNCHANGED codeVars, RequestsStable
      PROVE  CodeMaps' /\ UsedKept /\ RequestsStable
  BY <1>0, <1>2 DEF CodeMaps, UsedKept, RequestsStable, StorageTypeOK
<1>3. ASSUME NEW c \in Codes, ConsumeCode(c), codeToAuthReq[c] # Nil, UNCHANGED reqVars
      PROVE  CodeMaps' /\ UsedKept /\ RequestsStable
  <2>1. codeToAuthReq[c] \in ReqIDs /\ reqData[codeToAuthReq[c]] # Nil
    BY <1>0, <1>3 DEF StorageTypeOK, ObjectsExist
  <2>2. UsedKept /\ RequestsStable
    BY <1>0, <1>3 DEF ConsumeCode, CodeMaps, UsedKept, RequestsStable, StorageTypeOK
  <2>3. CodeMaps'
    BY <1>0, <1>3, <2>1 DEF ConsumeCode, CodeMaps, StorageTypeOK
  <2> QED
    BY <2>2, <2>3
<1>4. CASE AuthorizationStep
  <2>1. ASSUME NEW r \in ReqIDs, NEW c \in Clients, NEW s \in SUBSET Scopes,
               NEW k \in Keys \cup {Nil}, Authorize(r, c, s, k)
        PROVE  UNCHANGED codeVars /\ RequestsStable
    BY <1>0, <2>1 DEF Authorize, CreateAuthRequest, FreshReqs, RequestsStable,
                      StorageTypeOK
  <2>2. ASSUME NEW r \in ReqIDs, NEW u \in Users, NEW sid \in BOOLEAN, NEW ar,
               ar = [client |-> reqData[r].client, user |-> u, done |-> TRUE,
                     sid |-> sid, scopes |-> reqData[r].scopes],
               r \in authRequests, reqData' = [reqData EXCEPT ![r] = ar]
        PROVE  RequestsStable
    <3>1. ar.client = reqData[r].client /\ ar.scopes = reqData[r].scopes
      BY <2>2
    <3>2. reqData[r] \in AuthRequest
      BY <1>0, <2>2 DEF ObjectsExist, StorageTypeOK
    <3>3. ar \in AuthRequest
      BY <2>2, <3>2 DEF AuthRequest
    <3> QED
      BY <1>0, <2>2, <3>1, <3>3 DEF RequestsStable, StorageTypeOK
  <2>3. ASSUME NEW r \in ReqIDs, NEW u \in Users, NEW hasSid \in BOOLEAN,
               Accept(r, u, hasSid)
        PROVE  UNCHANGED codeVars /\ RequestsStable
    BY <2>2, <2>3 DEF Accept, CompleteAuthRequest
  <2>4. ASSUME NEW r \in ReqIDs, NEW u \in Users, Login(r, u)
        PROVE  UNCHANGED codeVars /\ RequestsStable
    <3>1. reqData[r].sid \in BOOLEAN
      BY <1>0, <2>4 DEF Login, CheckUsernamePassword, ObjectsExist, StorageTypeOK,
                        AuthRequest
    <3> QED
      BY <2>2, <2>4, <3>1 DEF Login, CheckUsernamePassword
  <2>5. ASSUME NEW r \in ReqIDs, NEW c \in Codes, Callback(r, c)
        PROVE  CodeMaps' /\ UsedKept /\ RequestsStable
    <3>1. /\ codeUser[c] = Nil
          /\ usedCodes[c] = Nil
          /\ codeToAuthReq[c] = Nil
          /\ reqData[r].user \in Users
      <4>1. codeUser[c] = Nil
        BY <2>5 DEF Callback, FreshCodes
      <4>2. reqData[r].user \in Users
        BY <1>0, <2>5 DEF Callback, ObjectsExist, StorageTypeOK, AuthRequest
      <4> QED
        BY <4>1, <4>2 DEF CodeMaps
    <3>2. UNCHANGED <<usedCodes, reqVars>>
      BY <2>5 DEF Callback, SaveAuthCode
    <3>3. UsedKept /\ RequestsStable
      BY <3>2 DEF UsedKept, RequestsStable
    <3>4. CodeMaps'
      BY <1>0, <2>5, <3>1 DEF Callback, SaveAuthCode, CodeMaps, StorageTypeOK
    <3> QED
      BY <3>3, <3>4
  <2>6. ASSUME NEW c \in Codes, CodeAges(c)
        PROVE  CodeMaps' /\ UsedKept /\ RequestsStable
    BY <2>6 DEF CodeAges, CodeMaps, UsedKept, RequestsStable
  <2> QED
    BY <1>2, <1>4, <2>1, <2>3, <2>4, <2>5, <2>6 DEF AuthorizationStep
<1>5. ASSUME NEW p \in Procs, CodeExchangeStep(p)
      PROVE  CodeMaps' /\ UsedKept /\ RequestsStable
  <2>1. ASSUME NEW c \in Codes, RedeemUnknown(p, c)
        PROVE  UNCHANGED <<codeVars, reqVars>>
    BY <2>1 DEF RedeemUnknown, storeVars
  <2>2. ASSUME NEW c \in Codes, RedeemExpired(p, c)
        PROVE  CodeMaps' /\ UsedKept /\ RequestsStable
    <3>1. codeToAuthReq[c] \in ReqIDs
      BY <1>0, <2>2 DEF RedeemExpired, CodeExpired, CodeUnknown, StorageTypeOK
    <3>2. UNCHANGED <<usedCodes, codeUser, reqVars>>
      BY <2>2 DEF RedeemExpired, DropExpiredCode
    <3>3. CodeMaps'
      BY <1>0, <2>2, <3>1, <3>2 DEF RedeemExpired, DropExpiredCode, CodeMaps,
                                    StorageTypeOK
    <3> QED
      BY <3>2, <3>3 DEF UsedKept, RequestsStable
  <2>3. ASSUME NEW c \in Codes, RedeemRejected(p, c)
        PROVE  CodeMaps' /\ UsedKept /\ RequestsStable
    BY <1>3, <2>3 DEF RedeemRejected, CodeRedeemable, CodeUnknown
  <2>4. ASSUME NEW c \in Codes, NEW cl \in Clients, NEW k \in Keys \cup {Nil},
               RedeemAccepted(p, c, cl, k)
        PROVE  CodeMaps' /\ UsedKept /\ RequestsStable
    BY <1>3, <2>4 DEF RedeemAccepted, CodeRedeemable, CodeUnknown
  <2>5. ASSUME DetectReplay(p) \/ TrackToken(p)
        PROVE  UNCHANGED <<codeVars, reqVars>>
    BY <2>5 DEF DetectReplay, TrackToken
  <2>6. ASSUME FinishExchange(p)
        PROVE  CodeMaps' /\ UsedKept /\ RequestsStable
    <3> DEFINE r == proc[p].req
    <3>1. r \in ReqIDs /\ reqData[r] # Nil
      BY <1>0, <2>6 DEF FinishExchange, At, ProcOK, Issuing
    <3>2. authCodes[r] # Nil =>
            authCodes[r] \in Codes /\ codeToAuthReq[authCodes[r]] = r
      BY <1>0, <3>1 DEF CodeMaps, StorageTypeOK
    <3>3. DeleteAuthRequest(r)
      BY <2>6 DEF FinishExchange
    <3>4. UNCHANGED <<reqData, codeUser>>
      BY <3>3 DEF DeleteAuthRequest
    <3> HIDE DEF r
    <3>5. UsedKept /\ RequestsStable
      BY <1>0, <3>1, <3>2, <3>3, <3>4
      DEF DeleteAuthRequest, CodeMaps, UsedKept, RequestsStable, StorageTypeOK
    <3>6. CodeMaps'
      BY <1>0, <3>1, <3>2, <3>3, <3>4 DEF DeleteAuthRequest, CodeMaps, StorageTypeOK
    <3> QED
      BY <3>5, <3>6
  <2> QED
    BY <1>1, <1>5, <2>1, <2>2, <2>3, <2>4, <2>5, <2>6 DEF CodeExchangeStep
<1>6. ASSUME NEW p \in Procs, RefreshStep(p) \/ IssueStep(p)
      PROVE  UNCHANGED <<codeVars, reqVars>>
  BY <1>6 DEF RefreshStep, PresentRefreshToken, NarrowScopes, Rotate, IssueStep,
              CreateAccessToken, CreateRefreshToken, Respond, RespondFails, storeVars
<1>7. ASSUME RevocationStep
      PROVE  UNCHANGED <<codeVars, reqVars>>
  BY <1>7 DEF RevocationStep, RevokeRefresh, RevokeAccess
<1>8. CASE UNCHANGED vars
  BY <1>1, <1>8 DEF vars, storeVars
<1> QED
  BY <1>1, <1>4, <1>5, <1>6, <1>7, <1>8 DEF Next

\* Initially there are no codes.
LEMMA CodeMapsInit == Init => CodeMaps
  BY DEF Init, StorageInit, CodeMaps

\* Codes move one way only.
THEOREM CodeMapsInvariance == Spec => [](TypeInv /\ CodeMaps)
<1> QED
  BY TypeInit, TypeNext, CodeMapsInit, CodeMapsStep, PTL DEF Spec

-----------------------------------------------------------------------------
(* Lineages.  LineageFaithful speaks of access tokens; a refresh copies    *)
(* client and scopes from a refresh token, so the invariant also speaks of *)
(* refresh tokens and of the requests that are about to issue either.      *)

\* Client and scopes are those of the request that code c was minted for.
InLineage(c, cl, s) ==
  /\ usedCodes[c] # Nil
  /\ cl = reqData[usedCodes[c]].client
  /\ s \subseteq reqData[usedCodes[c]].scopes

\* What a goroutine that issues tokens may rely on: its request object is the
\* one its code leads to.
ProcLineage(p) ==
  proc[p].pc \in Issuing =>
    /\ InLineage(proc[p].code, proc[p].client, proc[p].scopes)
    /\ proc[p].rt = Nil => proc[p].req = usedCodes[proc[p].code]
    /\ proc[p].rt # Nil => rtData[proc[p].rt].code = proc[p].code

TokensInLineage ==
  \A t \in ATs : tokData[t] # Nil =>
    /\ InLineage(tokData[t].code, tokData[t].client, tokData[t].scopes)
    /\ tokData[t].by = tokData[t].client

RefreshTokensInLineage ==
  \A f \in RTs : rtData[f] # Nil =>
    InLineage(rtData[f].code, rtData[f].client, rtData[f].scopes)

LineageInv ==
  /\ TokensInLineage
  /\ RefreshTokensInLineage
  /\ \A p \in Procs : ProcLineage(p)

\* Goroutine q keeps its request, or stops issuing.
SameRequest(q) ==
  proc'[q].pc \in Issuing =>
    /\ proc[q].pc \in Issuing
    /\ proc'[q].code = proc[q].code
    /\ proc'[q].client = proc[q].client
    /\ proc'[q].scopes = proc[q].scopes
    /\ proc'[q].req = proc[q].req
    /\ proc'[q].rt = proc[q].rt

\* A goroutine that keeps its lineage fields keeps its part of the invariant.
LEMMA ProcLineageKept ==
  ASSUME NEW q \in Procs, TypeInv, CodeMaps, UsedKept, RequestsStable,
         ProcLineage(q), SameRequest(q),
         \A f \in RTs : rtData[f] # Nil => rtData'[f].code = rtData[f].code
  PROVE  ProcLineage(q)'
<1> SUFFICES ASSUME proc'[q].pc \in Issuing PROVE ProcLineage(q)'
  BY DEF ProcLineage
<1>1. /\ proc[q].code \in Codes
      /\ proc[q].rt # Nil => proc[q].rt \in RTs /\ rtData[proc[q].rt] # Nil
  BY DEF SameRequest, TypeInv, PointersValid, ProcOK, TypeOK, Proc, Issuing
<1>2. InLineage(proc[q].code, proc[q].client, proc[q].scopes)
  BY DEF SameRequest, ProcLineage
<1>3. InLineage(proc[q].code, proc[q].client, proc[q].scopes)'
  BY <1>1, <1>2 DEF TypeInv, TypeOK, StorageTypeOK, CodeMaps, UsedKept,
                    RequestsStable, InLineage, SameRequest
<1> QED
  BY <1>1, <1>2, <1>3 DEF SameRequest, ProcLineage, InLineage, UsedKept

\* Tokens stay in their lineage as long as their objects are left alone.
LEMMA TokensInLineageKept ==
  ASSUME TypeInv, CodeMaps, UsedKept, RequestsStable, TokensInLineage, tokData' = tokData
  PROVE  TokensInLineage'
<1>1. \A t \in ATs : tokData[t] # Nil => tokData[t] \in Token /\ tokData[t].code \in Codes
  BY DEF TypeInv, TypeOK, StorageTypeOK, Token
<1> QED
  BY <1>1 DEF TokensInLineage, CodeMaps, InLineage, UsedKept, RequestsStable, TypeInv, TypeOK,
              StorageTypeOK

\* So do refresh tokens.
LEMMA RefreshTokensInLineageKept ==
  ASSUME TypeInv, CodeMaps, UsedKept, RequestsStable, RefreshTokensInLineage,
         rtData' = rtData
  PROVE  RefreshTokensInLineage'
<1>1. \A f \in RTs : rtData[f] # Nil =>
        rtData[f] \in RefreshToken /\ rtData[f].code \in Codes
  BY DEF TypeInv, TypeOK, StorageTypeOK, RefreshToken
<1> QED
  BY <1>1 DEF RefreshTokensInLineage, CodeMaps, InLineage, UsedKept, RequestsStable, TypeInv,
              TypeOK, StorageTypeOK

\* A goroutine that moves on with its request, or answers, and all others.
LEMMA MovesOn ==
  ASSUME NEW p \in Procs, proc \in [Procs -> Proc],
         Answer(p) \/ (proc[p].pc \in Issuing /\ \E pc \in PCs : Goto(p, pc))
  PROVE  \A q \in Procs : SameRequest(q)
<1>1. CASE Answer(p)
  BY <1>1, ProcAnswer DEF SameRequest, Idle, Issuing
<1>2. ASSUME NEW pc \in PCs, Goto(p, pc), proc[p].pc \in Issuing
      PROVE  \A q \in Procs : SameRequest(q)
  <2>1. /\ proc'[p].code = proc[p].code
        /\ proc'[p].req = proc[p].req
        /\ proc'[p].rt = proc[p].rt
        /\ proc'[p].client = proc[p].client
        /\ proc'[p].scopes = proc[p].scopes
        /\ \A q \in Procs \ {p} : proc'[q] = proc[q]
    BY <1>2, ProcGoto
  <2> QED
    BY <1>2, <2>1 DEF SameRequest
<1> QED
  BY <1>1, <1>2

\* Lineages through the steps that create and change no token object.
LEMMA LineageFrame ==
  ASSUME TypeInv, CodeMaps, LineageInv, UsedKept, RequestsStable,
         tokData' = tokData, rtData' = rtData,
         \A q \in Procs : SameRequest(q) \/ ProcLineage(q)'
  PROVE  LineageInv'
<1>1. ASSUME NEW q \in Procs PROVE ProcLineage(q)'
  BY <1>1, ProcLineageKept DEF LineageInv
<1> QED
  BY <1>1, TokensInLineageKept, RefreshTokensInLineageKept DEF LineageInv

\* Every step keeps tokens, refresh tokens and goroutines in their lineages.
LEMMA LineageStep ==
  TypeInv /\ TypeInv' /\ CodeMaps /\ LineageInv /\ [Next]_vars => LineageInv'
<1> SUFFICES ASSUME TypeInv, TypeInv', CodeMaps, LineageInv, [Next]_vars
             PROVE  LineageInv'
  OBVIOUS
<1> USE StorageAssumption, ObjectAssumption, EndpointAssumption
<1> USE DEF codeVars, reqVars, tokenVars, rtVars
<1>0. /\ UsedKept
      /\ RequestsStable
      /\ TypeOK
      /\ StorageTypeOK
      /\ ObjectsExist
      /\ proc \in [Procs -> Proc]
      /\ \A p \in Procs : ProcOK(p) /\ ProcLineage(p) /\ proc[p] \in Proc
  BY CodeMapsStep DEF TypeInv, TypeOK, PointersValid, LineageInv
<1>1. ASSUME tokData' = tokData, rtData' = rtData, proc' = proc
      PROVE  LineageInv'
  <2>1. \A q \in Procs : SameRequest(q)
    BY <1>1 DEF SameRequest
  <2> QED
    BY <1>0, <1>1, <2>1, LineageFrame
<1>2. ASSUME NEW p \in Procs, tokData' = tokData, rtData' = rtData,
             Answer(p) \/ (proc[p].pc \in Issuing /\ \E pc \in PCs : Goto(p, pc))
      PROVE  LineageInv'
  BY <1>0, <1>2, MovesOn, LineageFrame
<1>3. CASE AuthorizationStep \/ RevocationStep
  BY <1>1, <1>3
  DEF AuthorizationStep, Authorize, Accept, Login, Callback, CodeAges, RevocationStep,
      RevokeRefresh, RevokeRefreshToken, RevokeAccess, RevokeAccessToken
<1>4. ASSUME NEW p \in Procs, CodeExchangeStep(p)
      PROVE  LineageInv'
  <2>1. ASSUME NEW c \in Codes, RedeemUnknown(p, c) \/ RedeemExpired(p, c)
        PROVE  LineageInv'
    <3> DEFINE rec == [Idle EXCEPT !.pc = "revoke", !.code = c]
    <3>1. rec.pc = "revoke"
      BY DEF Idle
    <3>2. proc' = [proc EXCEPT ![p] = rec]
      BY <2>1 DEF RedeemUnknown, RedeemExpired
    <3>3. tokData' = tokData /\ rtData' = rtData
      BY <2>1 DEF RedeemUnknown, RedeemExpired, storeVars
    <3> HIDE DEF rec
    <3>4. \A q \in Procs : SameRequest(q)
      BY <1>0, <3>1, <3>2 DEF SameRequest, Issuing
    <3> QED
      BY <1>0, <3>3, <3>4, LineageFrame
  <2>2. ASSUME NEW c \in Codes, RedeemRejected(p, c)
        PROVE  LineageInv'
    BY <1>1, <2>2 DEF RedeemRejected
  <2>3. ASSUME NEW c \in Codes, NEW cl \in Clients, NEW k \in Keys \cup {Nil},
               RedeemAccepted(p, c, cl, k)
        PROVE  LineageInv'
    <3> DEFINE r == codeToAuthReq[c]
    <3> DEFINE rec == [Idle EXCEPT !.pc = "createAT", !.code = c, !.req = r,
                                   !.client = cl, !.jkt = k]
    <3>1. /\ rec.code = c
          /\ rec.req = r
          /\ rec.client = cl
          /\ rec.scopes = {}
          /\ rec.rt = Nil
      BY DEF Idle
    <3>2. proc' = [proc EXCEPT ![p] = rec] /\ cl = reqData[r].client
      BY <2>3 DEF RedeemAccepted
    <3>3. r \in ReqIDs
      BY <1>0, <2>3 DEF RedeemAccepted, CodeRedeemable, CodeUnknown, StorageTypeOK
    <3>4. tokData' = tokData /\ rtData' = rtData /\ reqData' = reqData
      BY <2>3 DEF RedeemAccepted
    <3>5. usedCodes'[c] = r
      BY <1>0, <2>3 DEF RedeemAccepted, ConsumeCode, StorageTypeOK
    <3> HIDE DEF rec, r
    <3>6. proc'[p] = rec /\ \A q \in Procs \ {p} : proc'[q] = proc[q]
      BY <1>0, <3>2
    <3>7. ProcLineage(p)'
      BY <3>1, <3>2, <3>3, <3>4, <3>5, <3>6 DEF ProcLineage, InLineage
    <3>8. \A q \in Procs \ {p} : SameRequest(q)
      BY <3>6 DEF SameRequest
    <3> QED
      BY <1>0, <3>4, <3>7, <3>8, LineageFrame
  <2>4. ASSUME DetectReplay(p)
        PROVE  LineageInv'
    BY <1>2, <2>4 DEF DetectReplay, RevokeTokensForUsedCode
  <2>5. ASSUME TrackToken(p)
        PROVE  LineageInv'
    BY <1>2, <2>5 DEF TrackToken, At, Issuing, PCs
  <2>6. ASSUME FinishExchange(p)
        PROVE  LineageInv'
    BY <1>2, <2>6 DEF FinishExchange
  <2> QED
    BY <1>4, <2>1, <2>2, <2>3, <2>4, <2>5, <2>6 DEF CodeExchangeStep
<1>5. ASSUME NEW p \in Procs, RefreshStep(p)
      PROVE  LineageInv'
  <2>1. ASSUME NEW f \in RTs, NEW cl \in Clients, NEW k \in Keys \cup {Nil},
               NEW s \in SUBSET Scopes, PresentRefreshToken(p, f, cl, k, s)
        PROVE  LineageInv'
    <3> DEFINE pc0 == IF s = {} THEN "createAT" ELSE "narrow"
    <3> DEFINE rec == [Idle EXCEPT !.pc = pc0, !.code = rtData[f].code, !.rt = f,
                                   !.client = cl, !.jkt = k, !.scopes = s]
    <3>1. /\ rec.code = rtData[f].code
          /\ rec.client = cl
          /\ rec.scopes = s
          /\ rec.rt = f
      BY DEF Idle
    <3>2. /\ proc' = [proc EXCEPT ![p] = rec]
          /\ cl = rtData[f].client
          /\ s \subseteq rtData[f].scopes
          /\ f \in refreshTokens
          /\ UNCHANGED storeVars
      BY <2>1 DEF PresentRefreshToken, ScopesAllowed
    <3> HIDE DEF rec
    <3>3. InLineage(rtData[f].code, rtData[f].client, rtData[f].scopes)
      BY <1>0, <3>2 DEF ObjectsExist, LineageInv, RefreshTokensInLineage
    <3>4. proc'[p] = rec /\ \A q \in Procs \ {p} : proc'[q] = proc[q]
      BY <1>0, <3>2
    <3>5. ProcLineage(p)'
      BY <3>1, <3>2, <3>3, <3>4 DEF ProcLineage, InLineage, storeVars
    <3>6. \A q \in Procs \ {p} : SameRequest(q)
      BY <3>4 DEF SameRequest
    <3> QED
      BY <1>0, <3>2, <3>5, <3>6, LineageFrame DEF storeVars
  <2>2. ASSUME NarrowScopes(p)
        PROVE  LineageInv'
    <3> DEFINE f == proc[p].rt
    <3> DEFINE rt == [rtData[f] EXCEPT !.scopes = proc[p].scopes]
    <3>1. proc[p].pc = "narrow" /\ f \in RTs /\ rtData[f] \in RefreshToken
      BY <1>0, <2>2 DEF NarrowScopes, At, ProcOK, Issuing, StorageTypeOK, Proc
    <3>2. /\ rt.scopes = proc[p].scopes
          /\ rt.code = rtData[f].code
          /\ rt.client = rtData[f].client
      BY <3>1 DEF RefreshToken
    <3>3. rtData' = [rtData EXCEPT ![f] = rt]
      BY <2>2 DEF NarrowScopes, SetCurrentScopes
    <3>4. UNCHANGED <<codeVars, reqVars, tokenVars>>
      BY <2>2 DEF NarrowScopes
    <3> HIDE DEF rt
    <3>5. /\ rtData'[f] = rt
          /\ \A g \in RTs \ {f} : rtData'[g] = rtData[g]
      BY <1>0, <3>1, <3>3 DEF StorageTypeOK
    <3>6. \A g \in RTs : rtData'[g].code = rtData[g].code
      BY <3>2, <3>5
    <3>7. InLineage(rt.code, rt.client, rt.scopes)
      <4>1. /\ InLineage(rtData[f].code, rtData[f].client, rtData[f].scopes)
            /\ InLineage(proc[p].code, proc[p].client, proc[p].scopes)
            /\ rtData[f].code = proc[p].code
        BY <1>0, <3>1 DEF LineageInv, RefreshTokensInLineage, ProcLineage, Issuing
      <4> QED
        BY <3>2, <4>1 DEF InLineage
    <3>8. RefreshTokensInLineage'
      BY <3>4, <3>5, <3>7 DEF LineageInv, RefreshTokensInLineage, InLineage
    <3>9. \A q \in Procs : SameRequest(q)
      BY <1>0, <2>2, <3>1, MovesOn DEF NarrowScopes, Issuing, PCs
    <3>10. \A q \in Procs : ProcLineage(q)'
      BY <1>0, <3>6, <3>9, ProcLineageKept
    <3> QED
      BY <1>0, <3>4, <3>8, <3>10, TokensInLineageKept DEF LineageInv
  <2>3. ASSUME Rotate(p)
        PROVE  LineageInv'
    BY <1>2, <2>3 DEF Rotate, DropRefreshToken, At, Issuing, PCs
  <2> QED
    BY <1>5, <2>1, <2>2, <2>3 DEF RefreshStep
<1>6. ASSUME NEW p \in Procs, IssueStep(p)
      PROVE  LineageInv'
  <2>1. ASSUME proc[p].pc \in Issuing
        PROVE  /\ InLineage(proc[p].code, GrantClient(p), GrantScopes(p))
               /\ GrantClient(p) = proc[p].client
    <3>1. InLineage(proc[p].code, proc[p].client, proc[p].scopes)
      BY <1>0, <2>1 DEF ProcLineage
    <3>2. CASE proc[p].rt = Nil
      BY <1>0, <2>1, <3>1, <3>2 DEF ProcLineage, InLineage, GrantClient, GrantScopes
    <3>3. CASE proc[p].rt # Nil
      <4>1. proc[p].rt \in RTs /\ rtData[proc[p].rt] # Nil
        BY <1>0, <2>1, <3>3 DEF ProcOK, Proc
      <4>2. /\ InLineage(rtData[proc[p].rt].code, rtData[proc[p].rt].client,
                         rtData[proc[p].rt].scopes)
            /\ rtData[proc[p].rt].code = proc[p].code
        BY <1>0, <2>1, <3>3, <4>1 DEF LineageInv, RefreshTokensInLineage, ProcLineage
      <4> QED
        BY <3>1, <3>3, <4>2 DEF InLineage, GrantClient, GrantScopes
    <3> QED
      BY <3>2, <3>3
  <2>2. ASSUME NEW t \in ATs, CreateAccessToken(p, t)
        PROVE  LineageInv'
    <3> DEFINE tok == [client |-> GrantClient(p),
                       subject |-> applyPairwise(proc[p].client, GrantSubject(p)),
                       scopes |-> GrantScopes(p), jkt |-> proc[p].jkt,
                       by |-> proc[p].client, code |-> proc[p].code,
                       rt |-> proc[p].rt]
    <3> DEFINE pc1 == IF proc[p].client \in RefreshClients THEN "createRT" ELSE "respond"
    <3> DEFINE rec == [proc[p] EXCEPT !.at = t, !.pc = pc1]
    <3>1. proc[p].pc = "createAT"
      BY <2>2 DEF CreateAccessToken, At
    <3>2. /\ tok.code = proc[p].code
          /\ tok.client = GrantClient(p)
          /\ tok.scopes = GrantScopes(p)
          /\ tok.by = proc[p].client
      OBVIOUS
    <3>3. /\ rec.code = proc[p].code
          /\ rec.req = proc[p].req
          /\ rec.rt = proc[p].rt
          /\ rec.client = proc[p].client
          /\ rec.scopes = proc[p].scopes
      BY <1>0 DEF Proc
    <3>4. /\ tokData' = [tokData EXCEPT ![t] = tok]
          /\ proc' = [proc EXCEPT ![p] = rec]
          /\ UNCHANGED <<codeVars, reqVars, rtVars>>
      BY <2>2 DEF CreateAccessToken, PutToken
    <3> HIDE DEF tok, rec
    <3>5. InLineage(tok.code, tok.client, tok.scopes) /\ tok.by = tok.client
      BY <2>1, <3>1, <3>2 DEF Issuing
    <3>6. TokensInLineage'
      BY <1>0, <3>4, <3>5 DEF LineageInv, TokensInLineage, InLineage, StorageTypeOK
    <3>7. \A q \in Procs : SameRequest(q)
      BY <1>0, <3>1, <3>3, <3>4 DEF SameRequest, Issuing
    <3>8. \A q \in Procs : ProcLineage(q)'
      BY <1>0, <3>4, <3>7, ProcLineageKept
    <3> QED
      BY <1>0, <3>4, <3>6, <3>8, RefreshTokensInLineageKept DEF LineageInv
  <2>3. ASSUME NEW f \in RTs, CreateRefreshToken(p, f)
        PROVE  LineageInv'
    <3> DEFINE sub == IF proc[p].client \in PairwiseClients
                        THEN tokData[proc[p].at].subject ELSE GrantSubject(p)
    <3> DEFINE rt == [client |-> GrantClient(p), subject |-> sub,
                      scopes |-> GrantScopes(p), jkt |-> proc[p].jkt,
                      at |-> proc[p].at, code |-> proc[p].code]
    <3>1. proc[p].pc = "createRT" /\ rtData[f] = Nil
      BY <2>3 DEF CreateRefreshToken, At, FreshRTs
    <3>2. /\ rt.code = proc[p].code
          /\ rt.client = GrantClient(p)
          /\ rt.scopes = GrantScopes(p)
      OBVIOUS
    <3>3. /\ rtData' = [rtData EXCEPT ![f] = rt]
          /\ UNCHANGED <<codeVars, reqVars, tokenVars>>
          /\ \E pc \in PCs : Goto(p, pc)
      BY <2>3 DEF CreateRefreshToken, PutRefreshToken, PCs
    <3> HIDE DEF rt
    <3>4. InLineage(rt.code, rt.client, rt.scopes)
      BY <2>1, <3>1, <3>2 DEF Issuing
    <3>5. RefreshTokensInLineage'
      BY <1>0, <3>3, <3>4 DEF LineageInv, RefreshTokensInLineage, InLineage, StorageTypeOK
    <3>6. \A q \in Procs : SameRequest(q)
      BY <1>0, <3>1, <3>3, MovesOn DEF Issuing
    <3>7. \A g \in RTs : rtData[g] # Nil => rtData'[g].code = rtData[g].code
      BY <1>0, <3>1, <3>3 DEF StorageTypeOK
    <3>8. \A q \in Procs : ProcLineage(q)'
      BY <1>0, <3>6, <3>7, ProcLineageKept
    <3> QED
      BY <1>0, <3>3, <3>5, <3>8, TokensInLineageKept DEF LineageInv
  <2>4. ASSUME Respond(p)
        PROVE  LineageInv'
    BY <1>2, <2>4 DEF Respond, At, Issuing, PCs
  <2>5. ASSUME RespondFails(p)
        PROVE  LineageInv'
    BY <1>2, <2>5 DEF RespondFails, storeVars
  <2> QED
    BY <1>6, <2>2, <2>3, <2>4, <2>5 DEF IssueStep
<1>7. CASE UNCHANGED vars
  BY <1>1, <1>7 DEF vars, storeVars
<1> QED
  BY <1>3, <1>4, <1>5, <1>6, <1>7 DEF Next

\* Initially there is nothing to belong anywhere.
LEMMA LineageInit == Init => LineageInv
  BY DEF Init, StorageInit, Idle, LineageInv, TokensInLineage, RefreshTokensInLineage,
         ProcLineage, Issuing

\* Codes, lineages and types together form one inductive invariant.
THEOREM LineageInvariance == Spec => [](TypeInv /\ CodeMaps /\ LineageInv)
<1> QED
  BY TypeInit, TypeNext, CodeMapsInit, CodeMapsStep, LineageInit, LineageStep, PTL
  DEF Spec

\* Every token of a lineage belongs to the client of the authorization request
\* at its root and stays within its scopes, for any number of clients,
\* concurrent exchanges, refreshes and replays.
THEOREM LineageCorrect == Spec => []LineageFaithful
<1>1. TypeInv /\ CodeMaps /\ LineageInv => LineageFaithful
  <2> SUFFICES ASSUME TypeInv, CodeMaps, LineageInv, NEW t \in ATs, tokData[t] # Nil
               PROVE  LET r == RequestOfCode(tokData[t].code) IN
                        /\ r # Nil
                        /\ tokData[t].client = reqData[r].client
                        /\ tokData[t].by = reqData[r].client
                        /\ tokData[t].scopes \subseteq reqData[r].scopes
    BY DEF LineageFaithful, Issued
  <2>1. tokData[t].code \in Codes
    BY DEF TypeInv, TypeOK, StorageTypeOK, Token
  <2>2. /\ InLineage(tokData[t].code, tokData[t].client, tokData[t].scopes)
        /\ tokData[t].by = tokData[t].client
    BY DEF LineageInv, TokensInLineage
  <2>3. RequestOfCode(tokData[t].code) = usedCodes[tokData[t].code]
    BY <2>1, <2>2 DEF CodeMaps, InLineage, RequestOfCode
  <2> QED
    BY <2>2, <2>3 DEF InLineage
<1> QED
  BY <1>1, LineageInvariance, PTL

-----------------------------------------------------------------------------
(* A code buys one access token.                                           *)

\* A goroutine that has consumed a code and not yet created the access token.
Pending(p) == proc[p].pc = "createAT" /\ proc[p].rt = Nil

\* Besides tokens against tokens: tokens against goroutines that are about to
\* issue one, and such goroutines among each other.
ExchangeInv ==
  /\ CodeSingleUse
  /\ \A p \in Procs, t \in Issued :
       Pending(p) /\ tokData[t].rt = Nil => tokData[t].code # proc[p].code
  /\ \A p, q \in Procs :
       Pending(p) /\ Pending(q) /\ proc[p].code = proc[q].code => p = q

\* Steps that create no access token and let no goroutine in.
LEMMA ExchangeFrame ==
  ASSUME ExchangeInv, tokData' = tokData,
         \A q \in Procs : Pending(q)' => Pending(q) /\ proc'[q].code = proc[q].code
  PROVE  ExchangeInv'
  BY DEF ExchangeInv, CodeSingleUse, Issued

\* Only a goroutine that goes to createAT can start to pend.
LEMMA GotoPends ==
  ASSUME NEW p \in Procs, proc \in [Procs -> Proc],
         Answer(p) \/ (\E pc \in PCs \ {"createAT"} : Goto(p, pc))
                   \/ (Goto(p, "createAT") /\ proc[p].rt # Nil)
  PROVE  \A q \in Procs : Pending(q)' => Pending(q) /\ proc'[q].code = proc[q].code
<1>1. CASE Answer(p)
  BY <1>1, ProcAnswer DEF Pending, Idle
<1>2. ASSUME NEW pc \in PCs, Goto(p, pc), pc # "createAT" \/ proc[p].rt # Nil
      PROVE  \A q \in Procs : Pending(q)' => Pending(q) /\ proc'[q].code = proc[q].code
  <2>1. /\ proc'[p].pc = pc
        /\ proc'[p].rt = proc[p].rt
        /\ \A q \in Procs \ {p} : proc'[q] = proc[q]
    BY <1>2, ProcGoto
  <2> QED
    BY <1>2, <2>1 DEF Pending
<1> QED
  BY <1>1, <1>2 DEF PCs

\* Every step preserves it.  A redemption finds its code outside usedCodes,
\* while every direct token and every pending goroutine has its code inside.
LEMMA ExchangeStep ==
  TypeInv /\ CodeMaps /\ LineageInv /\ ExchangeInv /\ [Next]_vars => ExchangeInv'
<1> SUFFICES ASSUME TypeInv, CodeMaps, LineageInv, ExchangeInv, [Next]_vars
             PROVE  ExchangeInv'
  OBVIOUS
<1> USE StorageAssumption, ObjectAssumption, EndpointAssumption
<1> USE DEF codeVars, reqVars, tokenVars, rtVars
<1>0. /\ StorageTypeOK
      /\ proc \in [Procs -> Proc]
      /\ \A p \in Procs : ProcOK(p) /\ proc[p] \in Proc
  BY DEF TypeInv, TypeOK, PointersValid
<1>1. ASSUME tokData' = tokData, proc' = proc
      PROVE  ExchangeInv'
  <2>1. \A q \in Procs : Pending(q)' => Pending(q) /\ proc'[q].code = proc[q].code
    BY <1>1 DEF Pending
  <2> QED
    BY <1>1, <2>1, ExchangeFrame
<1>2. ASSUME NEW p \in Procs, tokData' = tokData,
             Answer(p) \/ (\E pc \in PCs \ {"createAT"} : Goto(p, pc))
                       \/ (Goto(p, "createAT") /\ proc[p].rt # Nil)
      PROVE  ExchangeInv'
  BY <1>0, <1>2, GotoPends, ExchangeFrame
<1>3. CASE AuthorizationStep \/ RevocationStep
  BY <1>1, <1>3
  DEF AuthorizationStep, Authorize, Accept, Login, Callback, CodeAges, RevocationStep,
      RevokeRefresh, RevokeRefreshToken, RevokeAccess, RevokeAccessToken
<1>4. ASSUME NEW p \in Procs, NEW rec, proc' = [proc EXCEPT ![p] = rec],
             rec.pc # "createAT" \/ rec.rt # Nil, tokData' = tokData
      PROVE  ExchangeInv'
  <2>1. \A q \in Procs : Pending(q)' => Pending(q) /\ proc'[q].code = proc[q].code
    BY <1>0, <1>4 DEF Pending
  <2> QED
    BY <1>4, <2>1, ExchangeFrame
<1>5. ASSUME NEW p \in Procs, CodeExchangeStep(p)
      PROVE  ExchangeInv'
  <2>1. ASSUME NEW c \in Codes, RedeemUnknown(p, c) \/ RedeemExpired(p, c)
        PROVE  ExchangeInv'
    <3> DEFINE rec == [Idle EXCEPT !.pc = "revoke", !.code = c]
    <3>1. rec.pc = "revoke"
      BY DEF Idle
    <3>2. proc' = [proc EXCEPT ![p] = rec] /\ tokData' = tokData
      BY <2>1 DEF RedeemUnknown, RedeemExpired, storeVars
    <3> HIDE DEF rec
    <3> QED
      BY <1>4, <3>1, <3>2
  <2>2. ASSUME NEW c \in Codes, RedeemRejected(p, c)
        PROVE  ExchangeInv'
    BY <1>1, <2>2 DEF RedeemRejected
  <2>3. ASSUME NEW c \in Codes, NEW cl \in Clients, NEW k \in Keys \cup {Nil},
               RedeemAccepted(p, c, cl, k)
        PROVE  ExchangeInv'
    <3> DEFINE rec == [Idle EXCEPT !.pc = "createAT", !.code = c,
                         !.req = codeToAuthReq[c], !.client = cl, !.jkt = k]
    <3>1. rec.code = c
      BY DEF Idle
    <3>2. proc' = [proc EXCEPT ![p] = rec] /\ tokData' = tokData
      BY <2>3 DEF RedeemAccepted
    <3> HIDE DEF rec
    <3>3. usedCodes[c] = Nil
      BY <2>3 DEF RedeemAccepted, CodeRedeemable, CodeUnknown, CodeMaps
    <3>4. \A t \in Issued : tokData[t].code # c
      BY <3>3 DEF LineageInv, TokensInLineage, InLineage, Issued
    <3>5. \A q \in Procs : Pending(q) => proc[q].code # c
      BY <3>3 DEF LineageInv, ProcLineage, InLineage, Pending, Issuing
    <3>6. /\ proc'[p].code = c
          /\ \A q \in Procs \ {p} : proc'[q] = proc[q]
      BY <1>0, <3>1, <3>2
    <3>7. \A q \in Procs \ {p} : Pending(q)' => Pending(q)
      BY <3>6 DEF Pending
    <3> QED
      BY <3>2, <3>4, <3>5, <3>6, <3>7 DEF ExchangeInv, CodeSingleUse, Issued
  <2>4. ASSUME DetectReplay(p)
        PROVE  ExchangeInv'
    BY <1>2, <2>4 DEF DetectReplay, RevokeTokensForUsedCode
  <2>5. ASSUME TrackToken(p)
        PROVE  ExchangeInv'
    BY <1>2, <2>5 DEF TrackToken, PCs
  <2>6. ASSUME FinishExchange(p)
        PROVE  ExchangeInv'
    BY <1>2, <2>6 DEF FinishExchange
  <2> QED
    BY <1>5, <2>1, <2>2, <2>3, <2>4, <2>5, <2>6 DEF CodeExchangeStep
<1>6. ASSUME NEW p \in Procs, RefreshStep(p)
      PROVE  ExchangeInv'
  <2>1. ASSUME NEW f \in RTs, NEW cl \in Clients, NEW k \in Keys \cup {Nil},
               NEW s \in SUBSET Scopes, PresentRefreshToken(p, f, cl, k, s)
        PROVE  ExchangeInv'
    <3> DEFINE pc0 == IF s = {} THEN "createAT" ELSE "narrow"
    <3> DEFINE rec == [Idle EXCEPT !.pc = pc0, !.code = rtData[f].code, !.rt = f,
                                   !.client = cl, !.jkt = k, !.scopes = s]
    <3>1. rec.rt # Nil
      BY DEF Idle
    <3>2. proc' = [proc EXCEPT ![p] = rec] /\ tokData' = tokData
      BY <2>1 DEF PresentRefreshToken, storeVars
    <3> HIDE DEF rec
    <3> QED
      BY <1>4, <3>1, <3>2
  <2>2. ASSUME NarrowScopes(p)
        PROVE  ExchangeInv'
    <3>1. proc[p].rt # Nil
      BY <1>0, <2>2 DEF NarrowScopes, At, ProcOK
    <3> QED
      BY <1>2, <2>2, <3>1 DEF NarrowScopes
  <2>3. ASSUME Rotate(p)
        PROVE  ExchangeInv'
    BY <1>2, <2>3 DEF Rotate, PCs
  <2> QED
    BY <1>6, <2>1, <2>2, <2>3 DEF RefreshStep
<1>7. ASSUME NEW p \in Procs, IssueStep(p)
      PROVE  ExchangeInv'
  <2>1. ASSUME NEW t \in ATs, CreateAccessToken(p, t)
        PROVE  ExchangeInv'
    <3> DEFINE tok == [client |-> GrantClient(p),
                       subject |-> applyPairwise(proc[p].client, GrantSubject(p)),
                       scopes |-> GrantScopes(p), jkt |-> proc[p].jkt,
                       by |-> proc[p].client, code |-> proc[p].code,
                       rt |-> proc[p].rt]
    <3> DEFINE pc1 == IF proc[p].client \in RefreshClients THEN "createRT" ELSE "respond"
    <3> DEFINE rec == [proc[p] EXCEPT !.at = t, !.pc = pc1]
    <3>1. tok.code = proc[p].code /\ tok.rt = proc[p].rt
      OBVIOUS
    <3>2. rec.pc # "createAT"
      BY <1>0 DEF Proc
    <3>3. /\ proc[p].pc = "createAT"
          /\ tokData[t] = Nil
          /\ tokData' = [tokData EXCEPT ![t] = tok]
          /\ proc' = [proc EXCEPT ![p] = rec]
      BY <2>1 DEF CreateAccessToken, PutToken, At, FreshATs
    <3> HIDE DEF tok, rec
    <3>4. ~Pending(p)' /\ \A q \in Procs \ {p} : proc'[q] = proc[q]
      BY <1>0, <3>2, <3>3 DEF Pending
    <3>5. \A q \in Procs : Pending(q)' =>
            q # p /\ Pending(q) /\ proc'[q].code = proc[q].code
      BY <3>4 DEF Pending
    <3>6. tokData'[t] = tok /\ \A u \in ATs \ {t} : tokData'[u] = tokData[u]
      BY <1>0, <3>3 DEF StorageTypeOK
    <3>7. tok.rt = Nil =>
            /\ \A u \in Issued : tokData[u].rt = Nil => tokData[u].code # tok.code
            /\ \A q \in Procs \ {p} : Pending(q) => proc[q].code # tok.code
      BY <3>1, <3>3 DEF ExchangeInv, Pending
    <3>8. \A u \in Issued' : u = t \/ (u \in Issued /\ tokData'[u] = tokData[u])
      BY <3>6 DEF Issued
    <3>9. CodeSingleUse'
      BY <3>6, <3>7, <3>8 DEF ExchangeInv, CodeSingleUse
    <3> QED
      BY <3>5, <3>6, <3>7, <3>8, <3>9 DEF ExchangeInv
  <2>2. ASSUME NEW f \in RTs, CreateRefreshToken(p, f)
        PROVE  ExchangeInv'
    BY <1>2, <2>2 DEF CreateRefreshToken, PCs
  <2>3. ASSUME Respond(p) \/ RespondFails(p)
        PROVE  ExchangeInv'
    BY <1>2, <2>3 DEF Respond, RespondFails, storeVars, PCs
  <2> QED
    BY <1>7, <2>1, <2>2, <2>3 DEF IssueStep
<1>8. CASE UNCHANGED vars
  BY <1>1, <1>8 DEF vars, storeVars
<1> QED
  BY <1>3, <1>5, <1>6, <1>7, <1>8 DEF Next

\* An authorization code buys at most one access token, for any number of
\* codes and of concurrent requests that present them.
THEOREM CodeSingleUseHolds == Spec => []CodeSingleUse
<1>1. Init => ExchangeInv
  BY DEF Init, StorageInit, Idle, ExchangeInv, CodeSingleUse, Issued, Pending
<1>2. ExchangeInv => CodeSingleUse
  BY DEF ExchangeInv
<1> QED
  BY <1>1, <1>2, TypeInit, TypeNext, CodeMapsInit, CodeMapsStep, LineageInit,
     LineageStep, ExchangeStep, PTL
  DEF Spec

-----------------------------------------------------------------------------
(***************************************************************************)
(* What happens to tokens after they were issued: revocation and rotation  *)
(* are final, DPoP bindings and subjects are inherited, and the endpoints  *)
(* implement the code grant.                                               *)
(***************************************************************************)

-----------------------------------------------------------------------------
(* Pairs of access token and refresh token.                                *)

\* Between its two storage calls a goroutine holds the access token it created.
Holding(p) == proc[p].pc \in {"createRT", "rotate", "respond", "track", "delete"}

\* The access token a goroutine holds is the one of its own request.
HeldIsOwn ==
  \A p \in Procs : Holding(p) =>
    /\ tokData[proc[p].at].code = proc[p].code
    /\ tokData[proc[p].at].rt = proc[p].rt

\* An access token is issued with at most one refresh token: refresh tokens
\* against each other, against goroutines about to create one, and those among
\* each other.
PairedOnce ==
  /\ \A f \in RTs : rtData[f] # Nil => tokData[rtData[f].at] # Nil
  /\ \A f, g \in RTs :
       rtData[f] # Nil /\ rtData[g] # Nil /\ rtData[f].at = rtData[g].at => f = g
  /\ \A p \in Procs, f \in RTs :
       At(p, "createRT") /\ rtData[f] # Nil => rtData[f].at # proc[p].at
  /\ \A p, q \in Procs : Holding(p) /\ Holding(q) /\ proc[p].at = proc[q].at => p = q

\* Only a goroutine that is past TrackToken has its token tracked.
TrackedLate ==
  \A p \in Procs : proc[p].pc \in {"createRT", "rotate", "respond", "track"} =>
    proc[p].at \notin tracked

PairInv == HeldIsOwn /\ PairedOnce /\ TrackedLate

\* An access token that exists, is inactive and stays so: no goroutine is about
\* to store a refresh token for it.
Dead(t) ==
  /\ tokData[t] # Nil
  /\ ~Active(t)
  /\ \A p \in Procs : At(p, "createRT") => proc[p].at # t

LifeInv ==
  /\ \A f \in rotated : rtData[f] # Nil /\ f \notin refreshTokens
  /\ \A f \in revoked : rtData[f] # Nil /\ f \notin refreshTokens /\ Dead(rtData[f].at)
  /\ \A t \in doomed : Dead(t)
  /\ \A t \in tracked : t \in codeTokens[usedCodes[tokData[t].code]] \/ Dead(t)

\* What no step does to a goroutine except the creation of an access token: put a
\* token into its hands, or take it back to where it needs a refresh token.
Moves(q) ==
  Holding(q)' =>
    /\ Holding(q)
    /\ proc'[q].at = proc[q].at
    /\ proc'[q].code = proc[q].code
    /\ proc'[q].rt = proc[q].rt
    /\ proc'[q].client = proc[q].client
    /\ At(q, "createRT")' => At(q, "createRT")
    /\ proc[q].pc = "delete" => proc'[q].pc = "delete"

\* A refresh token object changes in nothing but its scopes.
SameRefreshToken(f) ==
  /\ (rtData'[f] = Nil) <=> (rtData[f] = Nil)
  /\ rtData[f] # Nil =>
       /\ rtData'[f].at = rtData[f].at
       /\ rtData'[f].code = rtData[f].code
       /\ rtData'[f].client = rtData[f].client
       /\ rtData'[f].jkt = rtData[f].jkt
       /\ rtData'[f].subject = rtData[f].subject

\* A step that creates no token.
Quiet ==
  /\ tokens' \subseteq tokens
  /\ refreshTokens' \subseteq refreshTokens
  /\ tokData' = tokData
  /\ \A f \in RTs : SameRefreshToken(f)
  /\ \A q \in Procs : Moves(q)

\* The effect of createAccessToken, field by field.
LEMMA CreateATEffect ==
  ASSUME NEW p \in Procs, NEW t \in ATs, TypeInv, CreateAccessToken(p, t)
  PROVE  /\ proc[p].pc = "createAT" /\ tokData[t] = Nil
         /\ tokens' = tokens \cup {t}
         /\ tokData'[t] # Nil
         /\ tokData'[t].code = proc[p].code
         /\ tokData'[t].rt = proc[p].rt
         /\ tokData'[t].jkt = proc[p].jkt
         /\ tokData'[t].by = proc[p].client
         /\ tokData'[t].client = GrantClient(p)
         /\ tokData'[t].subject = applyPairwise(proc[p].client, GrantSubject(p))
         /\ \A u \in ATs \ {t} : tokData'[u] = tokData[u]
         /\ proc'[p].at = t
         /\ proc'[p].pc = IF proc[p].client \in RefreshClients THEN "createRT" ELSE "respond"
         /\ proc'[p].code = proc[p].code
         /\ proc'[p].rt = proc[p].rt
         /\ proc'[p].client = proc[p].client
         /\ proc'[p].jkt = proc[p].jkt
         /\ \A q \in Procs \ {p} : proc'[q] = proc[q]
         /\ UNCHANGED <<codeVars, reqVars, rtVars, codeTokens, histVars>>
<1> DEFINE tok == [client |-> GrantClient(p),
                   subject |-> applyPairwise(proc[p].client, GrantSubject(p)),
                   scopes |-> GrantScopes(p), jkt |-> proc[p].jkt,
                   by |-> proc[p].client, code |-> proc[p].code,
                   rt |-> proc[p].rt]
<1> DEFINE pc1 == IF proc[p].client \in RefreshClients THEN "createRT" ELSE "respond"
<1> DEFINE rec == [proc[p] EXCEPT !.at = t, !.pc = pc1]
<1>0. /\ proc \in [Procs -> Proc] /\ proc[p] \in Proc
      /\ tokData \in [ATs -> Token \cup {Nil}]
      /\ tokData' \in [ATs -> Token \cup {Nil}]
      /\ proc[p].pc = "createAT" /\ tokData[t] = Nil
  BY TypeNext DEF TypeInv, TypeOK, StorageTypeOK, CreateAccessToken, At, FreshATs, Next, IssueStep
<1>1. /\ tokens' = tokens \cup {t}
      /\ tokData' = [tokData EXCEPT ![t] = tok]
      /\ proc' = [proc EXCEPT ![p] = rec]
      /\ UNCHANGED <<codeVars, reqVars, rtVars, codeTokens, histVars>>
  BY DEF CreateAccessToken, PutToken
<1>2. /\ tok.code = proc[p].code /\ tok.rt = proc[p].rt /\ tok.jkt = proc[p].jkt
      /\ tok.by = proc[p].client /\ tok.client = GrantClient(p)
      /\ tok.subject = applyPairwise(proc[p].client, GrantSubject(p))
  OBVIOUS
<1>3. /\ rec.at = t /\ rec.pc = pc1 /\ rec.code = proc[p].code /\ rec.rt = proc[p].rt
      /\ rec.client = proc[p].client /\ rec.jkt = proc[p].jkt
  BY <1>0 DEF Proc
<1>4. tok \in Token
  <2>1. /\ GrantClient(p) \in Clients
        /\ GrantSubject(p) \in Subject
        /\ GrantScopes(p) \in SUBSET Scopes
    BY <1>0, GrantTyped DEF Issuing
  <2>2. applyPairwise(proc[p].client, GrantSubject(p)) \in Subject
    BY <2>1 DEF applyPairwise, Subject
  <2>3. /\ proc[p].jkt \in Keys \cup {Nil} /\ proc[p].code \in Codes
        /\ proc[p].rt \in RTs \cup {Nil} /\ proc[p].client \in Clients
    BY <1>0 DEF TypeInv, PointersValid, ProcOK, Issuing, Proc
  <2> QED
    BY <2>1, <2>2, <2>3 DEF Token
<1> HIDE DEF tok, rec
<1>5. tok # Nil
  BY <1>4, ObjectAssumption
<1>6. tokData'[t] = tok /\ \A u \in ATs \ {t} : tokData'[u] = tokData[u]
  BY <1>0, <1>1
<1>7. proc'[p] = rec /\ \A q \in Procs \ {p} : proc'[q] = proc[q]
  BY <1>0, <1>1
<1> QED
  BY <1>0, <1>1, <1>2, <1>3, <1>5, <1>6, <1>7

\* The effect of createRefreshToken, field by field.
LEMMA CreateRTEffect ==
  ASSUME NEW p \in Procs, NEW f \in RTs, TypeInv, CreateRefreshToken(p, f)
  PROVE  /\ proc[p].pc = "createRT" /\ rtData[f] = Nil
         /\ proc[p].at \in ATs /\ tokData[proc[p].at] # Nil
         /\ refreshTokens' = refreshTokens \cup {f}
         /\ rtData'[f] # Nil
         /\ rtData'[f].at = proc[p].at
         /\ rtData'[f].code = proc[p].code
         /\ rtData'[f].jkt = proc[p].jkt
         /\ rtData'[f].client = GrantClient(p)
         /\ rtData'[f].subject = IF proc[p].client \in PairwiseClients
                                   THEN tokData[proc[p].at].subject ELSE GrantSubject(p)
         /\ \A g \in RTs \ {f} : rtData'[g] = rtData[g]
         /\ proc'[p].pc \in {"rotate", "respond"}
         /\ proc'[p].at = proc[p].at
         /\ proc'[p].code = proc[p].code
         /\ proc'[p].rt = proc[p].rt
         /\ proc'[p].client = proc[p].client
         /\ proc'[p].jkt = proc[p].jkt
         /\ \A q \in Procs \ {p} : proc'[q] = proc[q]
         /\ UNCHANGED <<codeVars, reqVars, tokenVars, codeTokens, histVars>>
<1> DEFINE sub == IF proc[p].client \in PairwiseClients
                    THEN tokData[proc[p].at].subject ELSE GrantSubject(p)
<1> DEFINE rt == [client |-> GrantClient(p), subject |-> sub,
                  scopes |-> GrantScopes(p), jkt |-> proc[p].jkt,
                  at |-> proc[p].at, code |-> proc[p].code]
<1> DEFINE pc1 == IF proc[p].rt # Nil /\ InvalidateRefreshOnUse THEN "rotate" ELSE "respond"
<1>0. /\ proc \in [Procs -> Proc] /\ proc[p] \in Proc
      /\ tokData \in [ATs -> Token \cup {Nil}]
      /\ rtData \in [RTs -> RefreshToken \cup {Nil}]
      /\ proc[p].pc = "createRT" /\ rtData[f] = Nil
      /\ ProcOK(p)
  BY DEF TypeInv, TypeOK, StorageTypeOK, CreateRefreshToken, At, FreshRTs, PointersValid
<1>1. /\ refreshTokens' = refreshTokens \cup {f}
      /\ rtData' = [rtData EXCEPT ![f] = rt]
      /\ Goto(p, pc1)
      /\ UNCHANGED <<codeVars, reqVars, tokenVars, codeTokens, histVars>>
  BY DEF CreateRefreshToken, PutRefreshToken
<1>2. /\ rt.at = proc[p].at /\ rt.code = proc[p].code /\ rt.jkt = proc[p].jkt
      /\ rt.client = GrantClient(p) /\ rt.subject = sub
  OBVIOUS
<1>3. pc1 \in PCs /\ pc1 \in {"rotate", "respond"}
  BY DEF PCs
<1>4. /\ proc[p].jkt \in Keys \cup {Nil} /\ proc[p].code \in Codes
      /\ proc[p].at \in ATs /\ tokData[proc[p].at] # Nil /\ tokData[proc[p].at] \in Token
  BY <1>0 DEF ProcOK, Issuing, Proc
<1>5. rt \in RefreshToken
  <2>1. /\ GrantClient(p) \in Clients
        /\ GrantSubject(p) \in Subject
        /\ GrantScopes(p) \in SUBSET Scopes
    BY <1>0, GrantTyped DEF Issuing
  <2>2. sub \in Subject
    BY <1>4, <2>1 DEF Token
  <2> HIDE DEF sub
  <2> QED
    BY <1>4, <2>1, <2>2 DEF RefreshToken
<1> HIDE DEF rt, pc1
<1>6. rt # Nil
  BY <1>5, ObjectAssumption
<1>7. rtData'[f] = rt /\ \A g \in RTs \ {f} : rtData'[g] = rtData[g]
  BY <1>0, <1>1
<1>8. /\ proc'[p] = [proc[p] EXCEPT !.pc = pc1]
      /\ \A q \in Procs \ {p} : proc'[q] = proc[q]
  BY <1>0, <1>1, <1>3, ProcGoto
<1>9. /\ proc'[p].pc = pc1 /\ proc'[p].at = proc[p].at /\ proc'[p].code = proc[p].code
      /\ proc'[p].rt = proc[p].rt /\ proc'[p].client = proc[p].client
      /\ proc'[p].jkt = proc[p].jkt
  BY <1>0, <1>8 DEF Proc
<1> QED
  BY <1>0, <1>1, <1>2, <1>3, <1>4, <1>6, <1>7, <1>8, <1>9

\* A goroutine that goes on from one program counter to the next, or answers.
LEMMA StepMoves ==
  ASSUME NEW p \in Procs, proc \in [Procs -> Proc],
         \/ Answer(p)
         \/ At(p, "narrow") /\ Goto(p, "createAT")
         \/ At(p, "rotate") /\ Goto(p, "respond")
         \/ At(p, "respond") /\ Goto(p, "track")
         \/ At(p, "track") /\ Goto(p, "delete")
  PROVE  \A q \in Procs : Moves(q)
<1>1. CASE Answer(p)
  BY <1>1, ProcAnswer DEF Moves, Holding, Idle, At
<1>2. ASSUME NEW pc \in PCs, Goto(p, pc),
             \/ pc = "createAT"
             \/ Holding(p) /\ pc # "createRT" /\ ~At(p, "delete")
      PROVE  \A q \in Procs : Moves(q)
  <2>1. /\ proc'[p].pc = pc
        /\ proc'[p].at = proc[p].at
        /\ proc'[p].code = proc[p].code
        /\ proc'[p].rt = proc[p].rt
        /\ proc'[p].client = proc[p].client
        /\ \A q \in Procs \ {p} : proc'[q] = proc[q]
    BY <1>2, ProcGoto
  <2> QED
    BY <1>2, <2>1 DEF Moves, Holding, At
<1> QED
  BY <1>1, <1>2 DEF At, Holding, PCs

\* A goroutine that takes on a request holds no token yet.
LEMMA StartMoves ==
  ASSUME NEW p \in Procs, proc'[p].pc \in {"revoke", "narrow", "createAT"},
         \A q \in Procs \ {p} : proc'[q] = proc[q]
  PROVE  \A q \in Procs : Moves(q)
  BY DEF Moves, Holding, At

\* Every step creates an access token, creates a refresh token, or is quiet.
LEMMA QuietStep ==
  ASSUME TypeInv, [Next]_vars
  PROVE  \/ \E p \in Procs, t \in ATs : CreateAccessToken(p, t)
         \/ \E p \in Procs, f \in RTs : CreateRefreshToken(p, f)
         \/ Quiet
<1> USE DEF codeVars, reqVars, tokenVars, rtVars
<1>0. /\ proc \in [Procs -> Proc]
      /\ rtData \in [RTs -> RefreshToken \cup {Nil}]
      /\ \A p \in Procs : ProcOK(p) /\ proc[p] \in Proc
  BY DEF TypeInv, TypeOK, StorageTypeOK, PointersValid
<1>1. ASSUME rtData' = rtData PROVE \A f \in RTs : SameRefreshToken(f)
  BY <1>1 DEF SameRefreshToken
<1>2. ASSUME proc' = proc PROVE \A q \in Procs : Moves(q)
  BY <1>2 DEF Moves, Holding, At
<1>3. CASE AuthorizationStep
  BY <1>1, <1>2, <1>3
  DEF AuthorizationStep, Authorize, Accept, Login, Callback, CodeAges, Quiet
<1>4. CASE RevocationStep
  BY <1>1, <1>2, <1>4
  DEF RevocationStep, RevokeRefresh, RevokeRefreshToken, RevokeAccess,
      RevokeAccessToken, Quiet
<1>5. ASSUME NEW p \in Procs, CodeExchangeStep(p) PROVE Quiet
  <2>1. ASSUME NEW c \in Codes, RedeemUnknown(p, c) \/ RedeemExpired(p, c)
        PROVE  Quiet
    <3> DEFINE rec == [Idle EXCEPT !.pc = "revoke", !.code = c]
    <3>1. rec.pc = "revoke"
      BY DEF Idle
    <3>2. proc' = [proc EXCEPT ![p] = rec] /\ UNCHANGED <<tokenVars, rtVars>>
      BY <2>1 DEF RedeemUnknown, RedeemExpired, storeVars
    <3> HIDE DEF rec
    <3>3. proc'[p] = rec /\ \A q \in Procs \ {p} : proc'[q] = proc[q]
      BY <1>0, <3>2
    <3>4. \A q \in Procs : Moves(q)
      BY <3>1, <3>3, StartMoves
    <3> QED
      BY <1>1, <3>2, <3>4 DEF Quiet
  <2>2. ASSUME NEW c \in Codes, RedeemRejected(p, c)
        PROVE  Quiet
    BY <1>1, <1>2, <2>2 DEF RedeemRejected, Quiet
  <2>3. ASSUME NEW c \in Codes, NEW cl \in Clients, NEW k \in Keys \cup {Nil},
               RedeemAccepted(p, c, cl, k)
        PROVE  Quiet
    <3> DEFINE rec == [Idle EXCEPT !.pc = "createAT", !.code = c,
                         !.req = codeToAuthReq[c], !.client = cl, !.jkt = k]
    <3>1. rec.pc = "createAT"
      BY DEF Idle
    <3>2. proc' = [proc EXCEPT ![p] = rec] /\ UNCHANGED <<tokenVars, rtVars>>
      BY <2>3 DEF RedeemAccepted
    <3> HIDE DEF rec
    <3>3. proc'[p] = rec /\ \A q \in Procs \ {p} : proc'[q] = proc[q]
      BY <1>0, <3>2
    <3>4. \A q \in Procs : Moves(q)
      BY <3>1, <3>3, StartMoves
    <3> QED
      BY <1>1, <3>2, <3>4 DEF Quiet
  <2>4. ASSUME DetectReplay(p)
        PROVE  Quiet
    <3>1. \A q \in Procs : Moves(q)
      BY <1>0, <2>4, StepMoves DEF DetectReplay
    <3> QED
      BY <1>1, <2>4, <3>1 DEF DetectReplay, RevokeTokensForUsedCode, Quiet
  <2>5. ASSUME TrackToken(p) \/ FinishExchange(p)
        PROVE  Quiet
    <3>1. \A q \in Procs : Moves(q)
      BY <1>0, <2>5, StepMoves DEF TrackToken, FinishExchange
    <3> QED
      BY <1>1, <2>5, <3>1 DEF TrackToken, FinishExchange, Quiet
  <2> QED
    BY <1>5, <2>1, <2>2, <2>3, <2>4, <2>5 DEF CodeExchangeStep
<1>6. ASSUME NEW p \in Procs, RefreshStep(p) PROVE Quiet
  <2>1. ASSUME NEW f \in RTs, NEW cl \in Clients, NEW k \in Keys \cup {Nil},
               NEW s \in SUBSET Scopes, PresentRefreshToken(p, f, cl, k, s)
        PROVE  Quiet
    <3> DEFINE pc0 == IF s = {} THEN "createAT" ELSE "narrow"
    <3> DEFINE rec == [Idle EXCEPT !.pc = pc0, !.code = rtData[f].code, !.rt = f,
                                   !.client = cl, !.jkt = k, !.scopes = s]
    <3>1. rec.pc \in {"createAT", "narrow"}
      BY DEF Idle
    <3>2. proc' = [proc EXCEPT ![p] = rec] /\ UNCHANGED <<tokenVars, rtVars>>
      BY <2>1 DEF PresentRefreshToken, storeVars
    <3> HIDE DEF rec
    <3>3. proc'[p] = rec /\ \A q \in Procs \ {p} : proc'[q] = proc[q]
      BY <1>0, <3>2
    <3>4. \A q \in Procs : Moves(q)
      BY <3>1, <3>3, StartMoves
    <3> QED
      BY <1>1, <3>2, <3>4 DEF Quiet
  <2>2. ASSUME NarrowScopes(p)
        PROVE  Quiet
    <3> DEFINE f == proc[p].rt
    <3> DEFINE rt == [rtData[f] EXCEPT !.scopes = proc[p].scopes]
    <3>1. /\ f \in RTs /\ rtData[f] # Nil /\ rtData[f] \in RefreshToken
          /\ proc[p].scopes \in SUBSET Scopes
      BY <1>0, <2>2 DEF NarrowScopes, At, ProcOK, Issuing, Proc
    <3>2. /\ rt.at = rtData[f].at /\ rt.code = rtData[f].code
          /\ rt.client = rtData[f].client /\ rt.jkt = rtData[f].jkt
          /\ rt.subject = rtData[f].subject
          /\ rt \in RefreshToken
      BY <3>1 DEF RefreshToken
    <3>3. rtData' = [rtData EXCEPT ![f] = rt] /\ UNCHANGED <<tokenVars, refreshTokens>>
      BY <2>2 DEF NarrowScopes, SetCurrentScopes
    <3> HIDE DEF rt
    <3>4. rt # Nil
      BY <3>2, ObjectAssumption
    <3>5. \A g \in RTs : SameRefreshToken(g)
      BY <1>0, <3>1, <3>2, <3>3, <3>4 DEF SameRefreshToken
    <3>6. \A q \in Procs : Moves(q)
      BY <1>0, <2>2, StepMoves DEF NarrowScopes
    <3> QED
      BY <3>3, <3>5, <3>6 DEF Quiet
  <2>3. ASSUME Rotate(p)
        PROVE  Quiet
    <3>1. \A q \in Procs : Moves(q)
      BY <1>0, <2>3, StepMoves DEF Rotate
    <3> QED
      BY <1>1, <2>3, <3>1 DEF Rotate, DropRefreshToken, Quiet
  <2> QED
    BY <1>6, <2>1, <2>2, <2>3 DEF RefreshStep
<1>7. ASSUME NEW p \in Procs, Respond(p) \/ RespondFails(p) PROVE Quiet
  <2>1. \A q \in Procs : Moves(q)
    BY <1>0, <1>7, StepMoves DEF Respond, RespondFails
  <2> QED
    BY <1>1, <1>7, <2>1 DEF Respond, RespondFails, storeVars, Quiet
<1>8. CASE UNCHANGED vars
  BY <1>1, <1>2, <1>8 DEF vars, storeVars, Quiet
<1> QED
  BY <1>3, <1>4, <1>5, <1>6, <1>7, <1>8 DEF Next, IssueStep

\* The only steps that write to the histories of tracking, revocation, rotation
\* and replay.
LEMMA HistoryStep ==
  ASSUME [Next]_vars
  PROVE  \/ UNCHANGED <<rotated, revoked, doomed, tracked, codeTokens>>
         \/ \E p \in Procs : Rotate(p) \/ DetectReplay(p) \/ TrackToken(p)
         \/ \E f \in RTs, cl \in Clients : RevokeRefresh(f, cl)
<1> USE DEF storeVars, histVars
<1>1. CASE AuthorizationStep
  BY <1>1 DEF AuthorizationStep, Authorize, Accept, Login, Callback, CodeAges
<1>2. CASE RevocationStep
  BY <1>2 DEF RevocationStep, RevokeAccess
<1>3. ASSUME NEW p \in Procs, CodeExchangeStep(p), ~DetectReplay(p), ~TrackToken(p)
      PROVE  UNCHANGED <<rotated, revoked, doomed, tracked, codeTokens>>
  BY <1>3 DEF CodeExchangeStep, RedeemUnknown, RedeemExpired, RedeemRejected,
              RedeemAccepted, FinishExchange
<1>4. ASSUME NEW p \in Procs, RefreshStep(p), ~Rotate(p)
      PROVE  UNCHANGED <<rotated, revoked, doomed, tracked, codeTokens>>
  BY <1>4 DEF RefreshStep, PresentRefreshToken, NarrowScopes
<1>5. ASSUME NEW p \in Procs, IssueStep(p)
      PROVE  UNCHANGED <<rotated, revoked, doomed, tracked, codeTokens>>
  BY <1>5 DEF IssueStep, CreateAccessToken, CreateRefreshToken, Respond, RespondFails
<1>6. CASE UNCHANGED vars
  BY <1>6 DEF vars
<1> QED
  BY <1>1, <1>2, <1>3, <1>4, <1>5, <1>6 DEF Next

\* Initially nobody holds anything.
LEMMA PairInit == Init => PairInv
  BY DEF Init, StorageInit, Idle, PairInv, HeldIsOwn, PairedOnce, TrackedLate, Holding, At

\* Tokens and refresh tokens stay paired.
LEMMA PairStep == TypeInv /\ PairInv /\ [Next]_vars => PairInv'
<1> SUFFICES ASSUME TypeInv, PairInv, [Next]_vars PROVE PairInv'
  OBVIOUS
<1> USE DEF tokenVars, rtVars, histVars
<1>0. /\ \A q \in Procs : Holding(q) => proc[q].at \in ATs /\ tokData[proc[q].at] # Nil
      /\ \A f \in RTs : rtData[f] # Nil => rtData[f].at \in ATs
      /\ \A t \in tracked : t \in ATs /\ tokData[t] # Nil
  BY DEF TypeInv, TypeOK, StorageTypeOK, ObjectsExist, PointersValid, ProcOK, Holding,
         RefreshToken
<1>1. ASSUME NEW p \in Procs, NEW t \in ATs, CreateAccessToken(p, t) PROVE PairInv'
  <2>1. /\ proc[p].pc = "createAT" /\ tokData[t] = Nil
        /\ tokData'[t] # Nil
        /\ tokData'[t].code = proc[p].code
        /\ tokData'[t].rt = proc[p].rt
        /\ \A u \in ATs \ {t} : tokData'[u] = tokData[u]
        /\ proc'[p].at = t
        /\ proc'[p].code = proc[p].code
        /\ proc'[p].rt = proc[p].rt
        /\ \A q \in Procs \ {p} : proc'[q] = proc[q]
        /\ rtData' = rtData
        /\ tracked' = tracked
    BY <1>1, CreateATEffect
  <2>2. \A q \in Procs \ {p} : /\ Holding(q)' <=> Holding(q)
                               /\ At(q, "createRT")' <=> At(q, "createRT")
                               /\ Holding(q) => proc[q].at # t
    BY <1>0, <2>1 DEF Holding, At
  <2>3. HeldIsOwn'
    BY <1>0, <2>1, <2>2 DEF PairInv, HeldIsOwn
  <2>4. \A f \in RTs : rtData[f] # Nil => rtData[f].at # t /\ tokData[rtData[f].at] # Nil
    BY <2>1 DEF PairInv, PairedOnce
  <2>5. PairedOnce'
    BY <1>0, <2>1, <2>2, <2>4 DEF PairInv, PairedOnce, Holding, At
  <2>6. TrackedLate'
    BY <1>0, <2>1 DEF PairInv, TrackedLate
  <2> QED
    BY <2>3, <2>5, <2>6 DEF PairInv
<1>2. ASSUME NEW p \in Procs, NEW f \in RTs, CreateRefreshToken(p, f) PROVE PairInv'
  <2>1. /\ proc[p].pc = "createRT" /\ rtData[f] = Nil
        /\ proc[p].at \in ATs /\ tokData[proc[p].at] # Nil
        /\ rtData'[f] # Nil
        /\ rtData'[f].at = proc[p].at
        /\ \A g \in RTs \ {f} : rtData'[g] = rtData[g]
        /\ proc'[p].pc \in {"rotate", "respond"}
        /\ proc'[p].at = proc[p].at
        /\ proc'[p].code = proc[p].code
        /\ proc'[p].rt = proc[p].rt
        /\ \A q \in Procs \ {p} : proc'[q] = proc[q]
        /\ tokData' = tokData
        /\ tracked' = tracked
    BY <1>2, CreateRTEffect
  <2>2. \A q \in Procs : /\ Holding(q)' <=> Holding(q)
                         /\ At(q, "createRT")' => q # p /\ At(q, "createRT")
                         /\ proc'[q].at = proc[q].at
                         /\ proc'[q].code = proc[q].code
                         /\ proc'[q].rt = proc[q].rt
    BY <2>1 DEF Holding, At
  <2>3. HeldIsOwn'
    BY <2>1, <2>2 DEF PairInv, HeldIsOwn
  <2>4. /\ \A q \in Procs \ {p} : At(q, "createRT") => proc[q].at # proc[p].at
        /\ \A g \in RTs : rtData[g] # Nil => rtData[g].at # proc[p].at
    BY <2>1 DEF PairInv, PairedOnce, Holding, At
  <2>5. PairedOnce'
    BY <2>1, <2>2, <2>4 DEF PairInv, PairedOnce
  <2>6. TrackedLate'
    BY <2>1 DEF PairInv, TrackedLate
  <2> QED
    BY <2>3, <2>5, <2>6 DEF PairInv
<1>3. ASSUME Quiet PROVE PairInv'
  <2>1. HeldIsOwn'
    BY <1>3 DEF Quiet, Moves, PairInv, HeldIsOwn
  <2>2. PairedOnce'
    BY <1>3 DEF Quiet, Moves, SameRefreshToken, PairInv, PairedOnce, Holding, At
  <2>3. TrackedLate'
    <3>1. ASSUME NEW q \in Procs,
                 proc'[q].pc \in {"createRT", "rotate", "respond", "track"}
          PROVE  /\ proc[q].pc \in {"createRT", "rotate", "respond", "track"}
                 /\ proc'[q].at = proc[q].at
      BY <1>3, <3>1 DEF Quiet, Moves, Holding
    <3>2. CASE tracked' = tracked
      BY <3>1, <3>2 DEF PairInv, TrackedLate
    <3>3. ASSUME NEW p \in Procs, TrackToken(p) PROVE TrackedLate'
      <4>1. /\ Holding(p)
            /\ tracked' = tracked \cup {proc[p].at}
            /\ proc'[p].pc = "delete"
        BY <3>3, ProcGoto DEF TrackToken, At, Holding, TypeInv, TypeOK, PCs
      <4> QED
        BY <3>1, <4>1 DEF PairInv, TrackedLate, PairedOnce, Holding
    <3> QED
      BY <3>2, <3>3, HistoryStep DEF Rotate, DetectReplay, RevokeRefresh
  <2> QED
    BY <2>1, <2>2, <2>3 DEF PairInv
<1> QED
  BY <1>1, <1>2, <1>3, QuietStep

-----------------------------------------------------------------------------
(* Revocation, replay and rotation are final.                              *)

\* Nothing brings an access token back once it is dead.
LEMMA DeadStays ==
  ASSUME TypeInv, PairInv, [Next]_vars, NEW t \in ATs, Dead(t)
  PROVE  Dead(t)'
<1> USE DEF tokenVars, rtVars
<1>0. refreshTokens \subseteq RTs /\ \A f \in refreshTokens : rtData[f] # Nil
  BY DEF TypeInv, TypeOK, StorageTypeOK, ObjectsExist
<1>1. ASSUME NEW p \in Procs, NEW u \in ATs, CreateAccessToken(p, u) PROVE Dead(t)'
  <2>1. /\ u # t
        /\ tokens' = tokens \cup {u}
        /\ tokData'[t] = tokData[t]
        /\ proc'[p].at = u
        /\ \A q \in Procs \ {p} : proc'[q] = proc[q]
        /\ rtData' = rtData /\ refreshTokens' = refreshTokens
    BY <1>1, CreateATEffect DEF Dead
  <2> QED
    BY <2>1 DEF Dead, Active, At
<1>2. ASSUME NEW p \in Procs, NEW f \in RTs, CreateRefreshToken(p, f) PROVE Dead(t)'
  <2>1. /\ proc[p].pc = "createRT" /\ rtData[f] = Nil
        /\ refreshTokens' = refreshTokens \cup {f}
        /\ rtData'[f].at = proc[p].at
        /\ \A g \in RTs \ {f} : rtData'[g] = rtData[g]
        /\ proc'[p].pc \in {"rotate", "respond"}
        /\ \A q \in Procs \ {p} : proc'[q] = proc[q]
        /\ tokData' = tokData /\ tokens' = tokens
    BY <1>2, CreateRTEffect
  <2>2. ~Active(t)'
    BY <1>0, <2>1 DEF Dead, Active, At
  <2> QED
    BY <2>1, <2>2 DEF Dead, At
<1>3. ASSUME Quiet PROVE Dead(t)'
  <2>1. ~Active(t)'
    BY <1>0, <1>3 DEF Quiet, SameRefreshToken, Dead, Active
  <2>2. \A q \in Procs : At(q, "createRT")' => At(q, "createRT") /\ proc'[q].at = proc[q].at
    BY <1>3 DEF Quiet, Moves, Holding, At
  <2> QED
    BY <1>3, <2>1, <2>2 DEF Quiet, Dead
<1> QED
  BY <1>1, <1>2, <1>3, QuietStep

\* A refresh token that exists and is not stored is never stored again.
LEMMA DroppedStays ==
  ASSUME TypeInv, [Next]_vars, NEW f \in RTs, rtData[f] # Nil
  PROVE  /\ rtData'[f] # Nil
         /\ rtData'[f].at = rtData[f].at
         /\ f \notin refreshTokens => f \notin refreshTokens'
<1> USE DEF rtVars
<1>1. ASSUME NEW p \in Procs, NEW u \in ATs, CreateAccessToken(p, u)
      PROVE  rtData' = rtData /\ refreshTokens' = refreshTokens
  BY <1>1, CreateATEffect
<1>2. ASSUME NEW p \in Procs, NEW g \in RTs, CreateRefreshToken(p, g)
      PROVE  g # f /\ rtData'[f] = rtData[f] /\ refreshTokens' = refreshTokens \cup {g}
  BY <1>2, CreateRTEffect
<1>3. ASSUME Quiet
      PROVE  /\ rtData'[f] # Nil /\ rtData'[f].at = rtData[f].at
             /\ refreshTokens' \subseteq refreshTokens
  BY <1>3 DEF Quiet, SameRefreshToken
<1> QED
  BY <1>1, <1>2, <1>3, QuietStep

\* An access token object never changes once it exists.
LEMMA TokenStays ==
  ASSUME TypeInv, [Next]_vars, NEW t \in ATs, tokData[t] # Nil
  PROVE  tokData'[t] = tokData[t]
<1> USE DEF tokenVars
<1>1. ASSUME NEW p \in Procs, NEW u \in ATs, CreateAccessToken(p, u)
      PROVE  tokData'[t] = tokData[t]
  BY <1>1, CreateATEffect
<1>2. ASSUME NEW p \in Procs, NEW f \in RTs, CreateRefreshToken(p, f)
      PROVE  tokData'[t] = tokData[t]
  BY <1>2, CreateRTEffect
<1> QED
  BY <1>1, <1>2, QuietStep DEF Quiet

\* Initially nothing has been revoked, rotated, tracked or replayed.
LEMMA LifeInit == Init => LifeInv
  BY DEF Init, LifeInv

\* Every step keeps what is over over.
LEMMA LifeStep ==
  TypeInv /\ CodeMaps /\ LineageInv /\ PairInv /\ LifeInv /\ [Next]_vars => LifeInv'
<1> SUFFICES ASSUME TypeInv, CodeMaps, LineageInv, PairInv, LifeInv, [Next]_vars
             PROVE  LifeInv'
  OBVIOUS
<1> USE StorageAssumption
<1>0. /\ rotated \subseteq RTs /\ revoked \subseteq RTs
      /\ doomed \subseteq ATs /\ tracked \subseteq ATs
      /\ \A f \in RTs : rtData[f] # Nil => rtData[f].at \in ATs
      /\ \A t \in tracked : /\ tokData[t] # Nil
                            /\ tokData[t].code \in Codes
                            /\ usedCodes[tokData[t].code] # Nil
                            /\ usedCodes[tokData[t].code] \in ReqIDs
      /\ codeTokens \in [ReqIDs -> SUBSET ATs]
      /\ proc \in [Procs -> Proc]
  <2>1. TypeOK /\ StorageTypeOK /\ ObjectsExist
    BY DEF TypeInv, TypeOK
  <2>2. \A t \in tracked : tokData[t] # Nil /\ tokData[t] \in Token
    BY <2>1 DEF TypeOK, StorageTypeOK, ObjectsExist
  <2>3. \A t \in tracked : usedCodes[tokData[t].code] # Nil
    BY <2>1, <2>2 DEF LineageInv, TokensInLineage, InLineage, TypeOK
  <2> QED
    BY <2>1, <2>2, <2>3 DEF TypeOK, StorageTypeOK, Token, RefreshToken
<1>1. UsedKept
  BY CodeMapsStep
<1>2. /\ \A f \in rotated : rtData'[f] # Nil /\ f \notin refreshTokens'
      /\ \A f \in revoked : /\ rtData'[f] # Nil
                            /\ f \notin refreshTokens'
                            /\ Dead(rtData[f].at)'
      /\ \A t \in doomed : Dead(t)'
      /\ \A t \in tracked : /\ tokData'[t] = tokData[t]
                            /\ usedCodes'[tokData[t].code] = usedCodes[tokData[t].code]
                            /\ Dead(t) => Dead(t)'
  <2>1. ASSUME NEW f \in revoked PROVE Dead(rtData[f].at)'
    <3>1. rtData[f] # Nil /\ Dead(rtData[f].at) /\ rtData[f].at \in ATs
      BY <1>0, <2>1 DEF LifeInv
    <3>2. rtData'[f].at = rtData[f].at
      BY <1>0, <3>1, DroppedStays
    <3>3. \A t \in ATs : Dead(t) => Dead(t)'
      BY DeadStays
    <3> QED
      BY <3>1, <3>2, <3>3 DEF Dead, Active, At
  <2> QED
    BY <1>0, <1>1, <2>1, DroppedStays, DeadStays, TokenStays DEF LifeInv, UsedKept
<1>3. CASE UNCHANGED <<rotated, revoked, doomed, tracked, codeTokens>>
  BY <1>2, <1>3 DEF LifeInv
<1>4. ASSUME NEW p \in Procs, Rotate(p) PROVE LifeInv'
  <2>1. /\ rotated' = rotated \cup {proc[p].rt}
        /\ refreshTokens' = refreshTokens \ {proc[p].rt}
        /\ rtData' = rtData
        /\ rtData[proc[p].rt] # Nil
        /\ UNCHANGED <<revoked, doomed, tracked, codeTokens>>
    BY <1>4 DEF Rotate, DropRefreshToken, At, TypeInv, PointersValid, ProcOK, Issuing
  <2> QED
    BY <1>2, <2>1 DEF LifeInv
<1>5. ASSUME NEW p \in Procs, TrackToken(p) PROVE LifeInv'
  <2>1. /\ proc[p].req \in ReqIDs
        /\ proc[p].at \in ATs /\ tokData[proc[p].at] # Nil
        /\ proc[p].code \in Codes
        /\ proc[p].req = usedCodes[proc[p].code]
        /\ tokData[proc[p].at].code = proc[p].code
        /\ usedCodes[proc[p].code] # Nil
    BY <1>5 DEF TrackToken, At, TypeInv, PointersValid, ProcOK, Issuing, LineageInv,
                ProcLineage, InLineage, PairInv, HeldIsOwn, Holding
  <2>2. /\ tracked' = tracked \cup {proc[p].at}
        /\ codeTokens' = [codeTokens EXCEPT ![proc[p].req] = @ \cup {proc[p].at}]
        /\ UNCHANGED <<rotated, revoked, doomed>>
    BY <1>5 DEF TrackToken, TrackTokenForAuthRequest
  <2>3. /\ tokData'[proc[p].at] = tokData[proc[p].at]
        /\ usedCodes'[proc[p].code] = usedCodes[proc[p].code]
    BY <1>1, <2>1, TokenStays DEF UsedKept
  <2>4. /\ proc[p].at \in codeTokens'[proc[p].req]
        /\ \A r \in ReqIDs : codeTokens[r] \subseteq codeTokens'[r]
    BY <1>0, <2>1, <2>2
  <2> QED
    BY <1>0, <1>2, <2>1, <2>2, <2>3, <2>4 DEF LifeInv
<1>6. ASSUME NEW p \in Procs, DetectReplay(p) PROVE LifeInv'
  <2> DEFINE c == proc[p].code
  <2>1. /\ tokens' = tokens \ TrackedFor(c)
        /\ refreshTokens' = {f \in refreshTokens : rtData[f].at \notin TrackedFor(c)}
        /\ codeTokens' = [r \in ReqIDs |-> IF r = usedCodes[c] THEN {} ELSE codeTokens[r]]
        /\ rtData' = rtData /\ tokData' = tokData
        /\ UNCHANGED <<rotated, revoked, tracked>>
        /\ doomed' \subseteq doomed \cup {t \in tracked : usedCodes[c] # Nil /\ tokData[t].code = c}
    BY <1>6 DEF DetectReplay, RevokeTokensForUsedCode
  <2> HIDE DEF c
  <2>2. \A q \in Procs : At(q, "createRT")' => At(q, "createRT") /\ proc'[q].at = proc[q].at
    <3>1. proc'[p].pc = "idle" /\ \A q \in Procs \ {p} : proc'[q] = proc[q]
      BY <1>0, <1>6, ProcAnswer DEF DetectReplay, Idle
    <3> QED
      BY <3>1 DEF At
  <2>3. ASSUME NEW t \in tracked, usedCodes[c] # Nil, t \in codeTokens[usedCodes[c]]
        PROVE  Dead(t)'
    <3>1. t \in TrackedFor(c)
      BY <2>3 DEF TrackedFor
    <3>2. \A q \in Procs : At(q, "createRT") => proc[q].at # t
      BY <2>3 DEF PairInv, TrackedLate, At
    <3> QED
      BY <1>0, <2>1, <2>2, <3>1, <3>2 DEF Dead, Active
  <2>4. \A t \in tracked :
          t \in codeTokens'[usedCodes'[tokData'[t].code]] \/ Dead(t)'
    BY <1>0, <1>2, <2>1, <2>3 DEF LifeInv
  <2>5. \A t \in doomed' : Dead(t)'
    BY <1>2, <2>1, <2>3 DEF LifeInv
  <2> QED
    BY <1>2, <2>1, <2>4, <2>5 DEF LifeInv
<1>7. ASSUME NEW f \in RTs, NEW cl \in Clients, RevokeRefresh(f, cl) PROVE LifeInv'
  <2>1. /\ tokens' = tokens \ {rtData[f].at}
        /\ refreshTokens' = refreshTokens \ {f}
        /\ rtData' = rtData /\ tokData' = tokData /\ proc' = proc
        /\ revoked' = revoked \cup {f}
        /\ f \in refreshTokens
        /\ UNCHANGED <<rotated, doomed, tracked, codeTokens>>
    BY <1>7 DEF RevokeRefresh, RevokeRefreshToken
  <2>2. /\ rtData[f] # Nil
        /\ \A g \in refreshTokens : g \in RTs /\ rtData[g] # Nil
    BY <2>1 DEF TypeInv, TypeOK, StorageTypeOK, ObjectsExist
  <2>3. Dead(rtData[f].at)'
    BY <2>1, <2>2 DEF PairInv, PairedOnce, Dead, Active, At
  <2> QED
    BY <1>2, <2>1, <2>2, <2>3 DEF LifeInv
<1> QED
  BY <1>3, <1>4, <1>5, <1>6, <1>7, HistoryStep

\* Types, codes, lineages, pairs and what is over form one inductive invariant.
THEOREM LifeInvariance ==
  Spec => [](TypeInv /\ CodeMaps /\ LineageInv /\ PairInv /\ LifeInv)
<1> QED
  BY TypeInit, TypeNext, CodeMapsInit, CodeMapsStep, LineageInit, LineageStep,
     PairInit, PairStep, LifeInit, LifeStep, PTL
  DEF Spec

\* A refresh token that was rotated out is never accepted again, for any number of
\* clients that present it at the same time (CreateAccessAndRefreshTokens draws a new
\* id each time and nothing puts an old one back).
THEOREM RotatedIsDeadHolds == Spec => []RotatedIsDead
<1>1. LifeInv => RotatedIsDead
  BY DEF LifeInv, RotatedIsDead
<1> QED
  BY <1>1, LifeInvariance, PTL

\* A revoked refresh token and its access token stay inactive, whatever requests
\* were under way when RevokeToken ran.
THEOREM RevokedStaysInactiveHolds == Spec => []RevokedStaysInactive
<1>1. LifeInv => RevokedStaysInactive
  BY DEF LifeInv, RevokedStaysInactive, Dead
<1> QED
  BY <1>1, LifeInvariance, PTL

\* What a replay revokes stays revoked: every token that the exchange had tracked
\* before RevokeTokensForUsedCode ran, and every refresh token issued with it.
THEOREM ReplayRevokesTrackedHolds == Spec => []ReplayRevokesTracked
<1>1. LifeInv => ReplayRevokesTracked
  BY DEF LifeInv, ReplayRevokesTracked, Dead
<1> QED
  BY <1>1, LifeInvariance, PTL

-----------------------------------------------------------------------------
(* DPoP bindings.  A key that a code was bound to travels with the         *)
(* goroutine that redeems it, with its tokens, and from a refresh token to *)
(* the goroutine that presents it.                                         *)

\* The key that the request behind a used code was bound to.
KeyOf(c) == dpopJKTs[usedCodes[c]]

\* For a public client and a bound code, key j is the one of the code.
BoundTo(c, cl, j) == cl \in PublicClients /\ KeyOf(c) # Nil => j = KeyOf(c)

\* A goroutine past the proof-of-possession check has proved the right key.  One
\* that is still about to narrow scopes has not been checked yet.
ProcBound(p) ==
  proc[p].pc \in Issuing \ {"narrow"} => BoundTo(proc[p].code, proc[p].client, proc[p].jkt)

BindingInv ==
  /\ \A t \in ATs : tokData[t] # Nil =>
       BoundTo(tokData[t].code, tokData[t].client, tokData[t].jkt)
  /\ \A f \in RTs : rtData[f] # Nil =>
       BoundTo(rtData[f].code, rtData[f].client, rtData[f].jkt)
  /\ \A p \in Procs : ProcBound(p)

\* SetAuthRequestDPoPJKT is called once, before anybody knows the request.
LEMMA KeysKept ==
  ASSUME TypeInv, [Next]_vars, NEW r \in ReqIDs, reqData[r] # Nil
  PROVE  dpopJKTs'[r] = dpopJKTs[r]
<1> USE DEF reqVars, storeVars
<1>0. dpopJKTs \in [ReqIDs -> Keys \cup {Nil}]
  BY DEF TypeInv, TypeOK, StorageTypeOK
<1>1. ASSUME NEW x \in ReqIDs, NEW c \in Clients, NEW s \in SUBSET Scopes,
             NEW k \in Keys \cup {Nil}, Authorize(x, c, s, k)
      PROVE  dpopJKTs'[r] = dpopJKTs[r]
  BY <1>0, <1>1 DEF Authorize, CreateAuthRequest, FreshReqs
<1>2. CASE AuthorizationStep
  BY <1>1, <1>2 DEF AuthorizationStep, Accept, CompleteAuthRequest, Login,
                    CheckUsernamePassword, Callback, CodeAges
<1>3. ASSUME NEW p \in Procs, CodeExchangeStep(p) PROVE dpopJKTs' = dpopJKTs
  BY <1>3 DEF CodeExchangeStep, RedeemUnknown, RedeemExpired, RedeemRejected,
              RedeemAccepted, DetectReplay, TrackToken, FinishExchange, DeleteAuthRequest
<1>4. ASSUME NEW p \in Procs, RefreshStep(p) \/ IssueStep(p) PROVE dpopJKTs' = dpopJKTs
  BY <1>4 DEF RefreshStep, PresentRefreshToken, NarrowScopes, Rotate, IssueStep,
              CreateAccessToken, CreateRefreshToken, Respond, RespondFails
<1>5. CASE RevocationStep
  BY <1>5 DEF RevocationStep, RevokeRefresh, RevokeAccess
<1>6. CASE UNCHANGED vars
  BY <1>6 DEF vars
<1> QED
  BY <1>2, <1>3, <1>4, <1>5, <1>6 DEF Next

\* So a used code keeps its key.
LEMMA KeyOfKept ==
  ASSUME TypeInv, CodeMaps, [Next]_vars, NEW c \in Codes, usedCodes[c] # Nil
  PROVE  KeyOf(c)' = KeyOf(c)
<1>1. usedCodes[c] \in ReqIDs /\ reqData[usedCodes[c]] # Nil
  BY DEF TypeInv, TypeOK, StorageTypeOK, CodeMaps
<1>2. usedCodes'[c] = usedCodes[c]
  BY CodeMapsStep DEF UsedKept
<1> QED
  BY <1>1, <1>2, KeysKept DEF KeyOf

\* The client of the request object is the client that authenticated.
LEMMA GrantClientIs ==
  ASSUME NEW p \in Procs, TypeInv, LineageInv, proc[p].pc \in Issuing
  PROVE  GrantClient(p) = proc[p].client
<1>1. /\ InLineage(proc[p].code, proc[p].client, proc[p].scopes)
      /\ proc[p].rt = Nil => proc[p].req = usedCodes[proc[p].code]
      /\ proc[p].rt # Nil => rtData[proc[p].rt].code = proc[p].code
      /\ proc[p].rt # Nil => proc[p].rt \in RTs /\ rtData[proc[p].rt] # Nil
  BY DEF LineageInv, ProcLineage, TypeInv, TypeOK, PointersValid, ProcOK, Proc
<1> QED
  BY <1>1 DEF LineageInv, RefreshTokensInLineage, InLineage, GrantClient

\* A goroutine that keeps its request, past the check, keeps its binding.
SameKey(q) ==
  proc'[q].pc \in Issuing \ {"narrow"} =>
    /\ proc[q].pc \in Issuing \ {"narrow"}
    /\ proc'[q].code = proc[q].code
    /\ proc'[q].client = proc[q].client
    /\ proc'[q].jkt = proc[q].jkt

\* Its part of the invariant holds again after the step.
LEMMA SameKeyBound ==
  ASSUME TypeInv, CodeMaps, LineageInv, [Next]_vars,
         NEW q \in Procs, ProcBound(q), SameKey(q)
  PROVE  ProcBound(q)'
<1> SUFFICES ASSUME proc'[q].pc \in Issuing \ {"narrow"} PROVE ProcBound(q)'
  BY DEF ProcBound
<1>1. proc[q].code \in Codes /\ usedCodes[proc[q].code] # Nil
  BY DEF SameKey, TypeInv, PointersValid, ProcOK, LineageInv, ProcLineage, InLineage, Issuing
<1>2. \A c \in Codes : usedCodes[c] # Nil => KeyOf(c)' = KeyOf(c)
  BY KeyOfKept
<1> QED
  BY <1>1, <1>2 DEF ProcBound, BoundTo, SameKey, KeyOf

\* Going on with a request keeps the key; an idle goroutine has none to keep.
LEMMA MovesKey ==
  ASSUME NEW p \in Procs, proc \in [Procs -> Proc],
         Answer(p) \/ (proc[p].pc \in Issuing \ {"narrow"} /\ \E pc \in PCs : Goto(p, pc))
  PROVE  \A q \in Procs : SameKey(q)
<1>1. CASE Answer(p)
  BY <1>1, ProcAnswer DEF SameKey, Idle, Issuing
<1>2. ASSUME NEW pc \in PCs, Goto(p, pc), proc[p].pc \in Issuing \ {"narrow"}
      PROVE  \A q \in Procs : SameKey(q)
  <2>1. /\ proc'[p] = [proc[p] EXCEPT !.pc = pc] /\ proc[p] \in Proc
        /\ \A q \in Procs \ {p} : proc'[q] = proc[q]
    BY <1>2, ProcGoto
  <2>2. /\ proc'[p].code = proc[p].code
        /\ proc'[p].client = proc[p].client
        /\ proc'[p].jkt = proc[p].jkt
    BY <2>1 DEF Proc
  <2> QED
    BY <1>2, <2>1, <2>2 DEF SameKey
<1> QED
  BY <1>1, <1>2

\* Every goroutine past the check has proved the right key after a quiet step.
LEMMA QuietProcBound ==
  ASSUME TypeInv, CodeMaps, LineageInv, BindingInv, [Next]_vars, Quiet
  PROVE  \A q \in Procs : ProcBound(q)'
<1> USE StorageAssumption
<1> USE DEF codeVars, reqVars, rtVars
<1>0. /\ proc \in [Procs -> Proc]
      /\ \A p \in Procs : ProcOK(p) /\ proc[p] \in Proc /\ ProcBound(p)
  BY DEF TypeInv, TypeOK, PointersValid, BindingInv
<1>1. ASSUME \A q \in Procs : SameKey(q) PROVE \A q \in Procs : ProcBound(q)'
  BY <1>0, <1>1, SameKeyBound
<1>2. ASSUME proc' = proc PROVE \A q \in Procs : ProcBound(q)'
  BY <1>1, <1>2 DEF SameKey
<1>3. ASSUME NEW p \in Procs,
             Answer(p) \/ (proc[p].pc \in Issuing \ {"narrow"} /\ \E pc \in PCs : Goto(p, pc))
      PROVE  \A q \in Procs : ProcBound(q)'
  BY <1>0, <1>1, <1>3, MovesKey
<1>4. ASSUME NEW p \in Procs, ProcBound(p)', \A q \in Procs \ {p} : proc'[q] = proc[q]
      PROVE  \A q \in Procs : ProcBound(q)'
  <2>1. \A q \in Procs \ {p} : SameKey(q)
    BY <1>4 DEF SameKey
  <2> QED
    BY <1>0, <1>4, <2>1, SameKeyBound
<1>5. ASSUME NEW p \in Procs, CodeExchangeStep(p) PROVE \A q \in Procs : ProcBound(q)'
  <2>1. ASSUME NEW c \in Codes, RedeemUnknown(p, c) \/ RedeemExpired(p, c)
        PROVE  \A q \in Procs : ProcBound(q)'
    <3> DEFINE rec == [Idle EXCEPT !.pc = "revoke", !.code = c]
    <3>1. rec.pc = "revoke"
      BY DEF Idle
    <3>2. proc' = [proc EXCEPT ![p] = rec]
      BY <2>1 DEF RedeemUnknown, RedeemExpired
    <3> HIDE DEF rec
    <3>3. proc'[p].pc = "revoke" /\ \A q \in Procs \ {p} : proc'[q] = proc[q]
      BY <1>0, <3>1, <3>2
    <3> QED
      BY <1>4, <3>3 DEF ProcBound, Issuing
  <2>2. ASSUME NEW c \in Codes, RedeemRejected(p, c)
        PROVE  \A q \in Procs : ProcBound(q)'
    BY <1>2, <2>2 DEF RedeemRejected
  <2>3. ASSUME NEW c \in Codes, NEW cl \in Clients, NEW k \in Keys \cup {Nil},
               RedeemAccepted(p, c, cl, k)
        PROVE  \A q \in Procs : ProcBound(q)'
    <3> DEFINE rec == [Idle EXCEPT !.pc = "createAT", !.code = c,
                         !.req = codeToAuthReq[c], !.client = cl, !.jkt = k]
    <3>1. rec.code = c /\ rec.client = cl /\ rec.jkt = k
      BY DEF Idle
    <3>2. /\ proc' = [proc EXCEPT ![p] = rec]
          /\ dpopJKTs[codeToAuthReq[c]] # Nil => k = dpopJKTs[codeToAuthReq[c]]
          /\ usedCodes'[c] = codeToAuthReq[c]
          /\ dpopJKTs' = dpopJKTs
      BY <2>3 DEF RedeemAccepted, CodeBindingAccepts, ConsumeCode, TypeInv, TypeOK,
                  StorageTypeOK
    <3> HIDE DEF rec
    <3>3. proc'[p] = rec /\ \A q \in Procs \ {p} : proc'[q] = proc[q]
      BY <1>0, <3>2
    <3>4. ProcBound(p)'
      BY <3>1, <3>2, <3>3 DEF ProcBound, BoundTo, KeyOf
    <3> QED
      BY <1>4, <3>3, <3>4
  <2>4. ASSUME DetectReplay(p) \/ TrackToken(p) \/ FinishExchange(p)
        PROVE  \A q \in Procs : ProcBound(q)'
    BY <1>3, <2>4 DEF DetectReplay, TrackToken, FinishExchange, At, Issuing, PCs
  <2> QED
    BY <1>5, <2>1, <2>2, <2>3, <2>4 DEF CodeExchangeStep
<1>6. ASSUME NEW p \in Procs, NEW f \in RTs, rtData[f] # Nil,
             rtData[f].code = proc'[p].code, rtData[f].client = proc'[p].client,
             RefreshBindingAccepts(f, proc'[p].client, proc'[p].jkt)
      PROVE  ProcBound(p)'
  <2>1. /\ BoundTo(rtData[f].code, rtData[f].client, rtData[f].jkt)
        /\ rtData[f].code \in Codes
        /\ usedCodes[rtData[f].code] # Nil
    BY <1>6 DEF BindingInv, TypeInv, TypeOK, StorageTypeOK, RefreshToken, LineageInv,
                RefreshTokensInLineage, InLineage
  <2>2. \A c \in Codes : usedCodes[c] # Nil => KeyOf(c)' = KeyOf(c)
    BY KeyOfKept
  <2> QED
    BY <1>6, <2>1, <2>2 DEF ProcBound, BoundTo, KeyOf, RefreshBindingAccepts
<1>7. ASSUME NEW p \in Procs, RefreshStep(p) PROVE \A q \in Procs : ProcBound(q)'
  <2>1. ASSUME NEW f \in RTs, NEW cl \in Clients, NEW k \in Keys \cup {Nil},
               NEW s \in SUBSET Scopes, PresentRefreshToken(p, f, cl, k, s)
        PROVE  \A q \in Procs : ProcBound(q)'
    <3> DEFINE pc0 == IF s = {} THEN "createAT" ELSE "narrow"
    <3> DEFINE rec == [Idle EXCEPT !.pc = pc0, !.code = rtData[f].code, !.rt = f,
                                   !.client = cl, !.jkt = k, !.scopes = s]
    <3>1. /\ rec.pc = pc0 /\ rec.code = rtData[f].code /\ rec.client = cl /\ rec.jkt = k
      BY DEF Idle
    <3>2. /\ proc' = [proc EXCEPT ![p] = rec]
          /\ cl = rtData[f].client /\ f \in refreshTokens
          /\ s = {} => RefreshBindingAccepts(f, cl, k)
      BY <2>1 DEF PresentRefreshToken
    <3> HIDE DEF rec
    <3>3. proc'[p] = rec /\ \A q \in Procs \ {p} : proc'[q] = proc[q]
      BY <1>0, <3>2
    <3>4. rtData[f] # Nil
      BY <3>2 DEF TypeInv, ObjectsExist
    <3>5. CASE s = {}
      <4>1. ProcBound(p)'
        BY <1>6, <3>1, <3>2, <3>3, <3>4, <3>5
      <4> QED
        BY <1>4, <3>3, <4>1
    <3>6. CASE s # {}
      BY <1>4, <3>1, <3>3, <3>6 DEF ProcBound
    <3> QED
      BY <3>5, <3>6
  <2>2. ASSUME NarrowScopes(p)
        PROVE  \A q \in Procs : ProcBound(q)'
    <3> DEFINE f == proc[p].rt
    <3>1. /\ f \in RTs /\ rtData[f] # Nil
          /\ proc[p].pc \in Issuing
      BY <1>0, <2>2 DEF NarrowScopes, At, ProcOK, Issuing, Proc
    <3>2. CASE Answer(p)
      BY <1>3, <3>2
    <3>3. CASE Goto(p, "createAT") /\ RefreshBindingAccepts(f, proc[p].client, proc[p].jkt)
      <4>1. /\ proc'[p] = [proc[p] EXCEPT !.pc = "createAT"] /\ proc[p] \in Proc
            /\ \A q \in Procs \ {p} : proc'[q] = proc[q]
        BY <1>0, <3>3, ProcGoto DEF PCs
      <4>2. /\ proc'[p].code = proc[p].code
            /\ proc'[p].client = proc[p].client
            /\ proc'[p].jkt = proc[p].jkt
        BY <4>1 DEF Proc
      <4>3. /\ rtData[f].code = proc[p].code
            /\ rtData[f].client = proc[p].client
        BY <3>1, GrantClientIs, StorageAssumption DEF LineageInv, ProcLineage, GrantClient
      <4>4. ProcBound(p)'
        BY <1>6, <3>1, <3>3, <4>2, <4>3
      <4> QED
        BY <1>4, <4>1, <4>4
    <3> QED
      BY <2>2, <3>2, <3>3 DEF NarrowScopes
  <2>3. ASSUME Rotate(p)
        PROVE  \A q \in Procs : ProcBound(q)'
    BY <1>3, <2>3 DEF Rotate, At, Issuing, PCs
  <2> QED
    BY <1>7, <2>1, <2>2, <2>3 DEF RefreshStep
<1>8. ASSUME NEW p \in Procs, Respond(p) \/ RespondFails(p)
      PROVE  \A q \in Procs : ProcBound(q)'
  BY <1>3, <1>8 DEF Respond, RespondFails, At, Issuing, PCs
<1>9. ASSUME NEW p \in Procs, NEW t \in ATs, CreateAccessToken(p, t) PROVE FALSE
  BY <1>9, CreateATEffect DEF Quiet
<1>10. ASSUME NEW p \in Procs, NEW f \in RTs, CreateRefreshToken(p, f) PROVE FALSE
  BY <1>10, CreateRTEffect DEF Quiet, SameRefreshToken
<1>11. CASE AuthorizationStep \/ RevocationStep
  BY <1>2, <1>11
  DEF AuthorizationStep, Authorize, Accept, Login, Callback, CodeAges, RevocationStep,
      RevokeRefresh, RevokeAccess
<1>12. CASE UNCHANGED vars
  BY <1>2, <1>12 DEF vars
<1> QED
  BY <1>5, <1>7, <1>8, <1>9, <1>10, <1>11, <1>12 DEF Next, IssueStep

\* Initially there is nothing to be bound.
LEMMA BindingInit == Init => BindingInv
  BY DEF Init, StorageInit, Idle, BindingInv, ProcBound, Issuing

\* Every step passes bindings on.
LEMMA BindingStep ==
  TypeInv /\ CodeMaps /\ LineageInv /\ BindingInv /\ [Next]_vars => BindingInv'
<1> SUFFICES ASSUME TypeInv, CodeMaps, LineageInv, BindingInv, [Next]_vars
             PROVE  BindingInv'
  OBVIOUS
<1> USE DEF codeVars, reqVars, tokenVars, rtVars
<1>0. /\ \A t \in ATs : tokData[t] # Nil => /\ tokData[t].code \in Codes
                                            /\ usedCodes[tokData[t].code] # Nil
      /\ \A f \in RTs : rtData[f] # Nil => /\ rtData[f].code \in Codes
                                           /\ usedCodes[rtData[f].code] # Nil
      /\ \A p \in Procs : ProcBound(p)
  BY DEF TypeInv, TypeOK, StorageTypeOK, Token, RefreshToken, LineageInv, TokensInLineage,
         RefreshTokensInLineage, InLineage, BindingInv
<1>1. \A c \in Codes : usedCodes[c] # Nil => KeyOf(c)' = KeyOf(c)
  BY KeyOfKept
<1>2. ASSUME NEW p \in Procs, NEW t \in ATs, CreateAccessToken(p, t) PROVE BindingInv'
  <2>1. /\ proc[p].pc = "createAT" /\ tokData[t] = Nil
        /\ tokData'[t].code = proc[p].code
        /\ tokData'[t].jkt = proc[p].jkt
        /\ tokData'[t].client = GrantClient(p)
        /\ \A u \in ATs \ {t} : tokData'[u] = tokData[u]
        /\ proc'[p].code = proc[p].code
        /\ proc'[p].client = proc[p].client
        /\ proc'[p].jkt = proc[p].jkt
        /\ \A q \in Procs \ {p} : proc'[q] = proc[q]
        /\ rtData' = rtData
        /\ usedCodes' = usedCodes /\ dpopJKTs' = dpopJKTs
    BY <1>2, CreateATEffect
  <2>2. tokData'[t].client = proc[p].client
    BY <2>1, GrantClientIs DEF Issuing
  <2>3. BoundTo(proc[p].code, proc[p].client, proc[p].jkt)
    BY <1>0, <2>1 DEF ProcBound, Issuing
  <2>4. \A u \in ATs : tokData'[u] # Nil =>
          BoundTo(tokData[u].code, tokData[u].client, tokData[u].jkt)'
    BY <2>1, <2>2, <2>3 DEF BindingInv, BoundTo, KeyOf
  <2>5. \A f \in RTs : rtData'[f] # Nil =>
          BoundTo(rtData[f].code, rtData[f].client, rtData[f].jkt)'
    BY <2>1 DEF BindingInv, BoundTo, KeyOf
  <2>6. \A q \in Procs : ProcBound(q)'
    BY <1>0, <2>1, <2>3 DEF ProcBound, BoundTo, KeyOf
  <2> QED
    BY <2>4, <2>5, <2>6 DEF BindingInv
<1>3. ASSUME NEW p \in Procs, NEW f \in RTs, CreateRefreshToken(p, f) PROVE BindingInv'
  <2>1. /\ proc[p].pc = "createRT" /\ rtData[f] = Nil
        /\ rtData'[f].code = proc[p].code
        /\ rtData'[f].jkt = proc[p].jkt
        /\ rtData'[f].client = GrantClient(p)
        /\ \A g \in RTs \ {f} : rtData'[g] = rtData[g]
        /\ proc'[p].code = proc[p].code
        /\ proc'[p].client = proc[p].client
        /\ proc'[p].jkt = proc[p].jkt
        /\ \A q \in Procs \ {p} : proc'[q] = proc[q]
        /\ tokData' = tokData
        /\ usedCodes' = usedCodes /\ dpopJKTs' = dpopJKTs
    BY <1>3, CreateRTEffect
  <2>2. rtData'[f].client = proc[p].client
    BY <2>1, GrantClientIs DEF Issuing
  <2>3. BoundTo(proc[p].code, proc[p].client, proc[p].jkt)
    BY <1>0, <2>1 DEF ProcBound, Issuing
  <2>4. \A u \in ATs : tokData'[u] # Nil =>
          BoundTo(tokData[u].code, tokData[u].client, tokData[u].jkt)'
    BY <2>1 DEF BindingInv, BoundTo, KeyOf
  <2>5. \A g \in RTs : rtData'[g] # Nil =>
          BoundTo(rtData[g].code, rtData[g].client, rtData[g].jkt)'
    BY <2>1, <2>2, <2>3 DEF BindingInv, BoundTo, KeyOf
  <2>6. \A q \in Procs : ProcBound(q)'
    BY <1>0, <2>1, <2>3 DEF ProcBound, BoundTo, KeyOf
  <2> QED
    BY <2>4, <2>5, <2>6 DEF BindingInv
<1>4. ASSUME Quiet PROVE BindingInv'
  <2>1. \A q \in Procs : ProcBound(q)'
    BY <1>4, QuietProcBound
  <2>2. \A t \in ATs : tokData'[t] # Nil =>
          BoundTo(tokData[t].code, tokData[t].client, tokData[t].jkt)'
    BY <1>0, <1>1, <1>4 DEF Quiet, BindingInv, BoundTo, KeyOf
  <2>3. \A f \in RTs : rtData'[f] # Nil =>
          BoundTo(rtData[f].code, rtData[f].client, rtData[f].jkt)'
    BY <1>0, <1>1, <1>4 DEF Quiet, SameRefreshToken, BindingInv, BoundTo, KeyOf
  <2> QED
    BY <2>1, <2>2, <2>3 DEF BindingInv
<1> QED
  BY <1>2, <1>3, <1>4, QuietStep

\* A public client that began with a DPoP-bound code never holds a token of that
\* lineage bound to another key or to none, through any number of refreshes.
THEOREM DPoPContinuityHolds == Spec => []DPoPContinuity
<1>1. TypeInv /\ CodeMaps /\ LineageInv /\ BindingInv => DPoPContinuity
  <2> SUFFICES ASSUME TypeInv, CodeMaps, LineageInv, BindingInv,
                      NEW t \in ATs, tokData[t] # Nil
               PROVE  LET k == dpopJKTs[RequestOfCode(tokData[t].code)] IN
                        k # Nil /\ tokData[t].client \in PublicClients =>
                          tokData[t].jkt = k
    BY DEF DPoPContinuity, Issued
  <2>1. tokData[t].code \in Codes /\ usedCodes[tokData[t].code] # Nil
    BY DEF TypeInv, TypeOK, StorageTypeOK, Token, LineageInv, TokensInLineage, InLineage
  <2>2. RequestOfCode(tokData[t].code) = usedCodes[tokData[t].code]
    BY <2>1 DEF CodeMaps, RequestOfCode
  <2> QED
    BY <2>2 DEF BindingInv, BoundTo, KeyOf
<1> QED
  BY <1>1, TypeInit, TypeNext, CodeMapsInit, CodeMapsStep, LineageInit, LineageStep,
     BindingInit, BindingStep, PTL
  DEF Spec

-----------------------------------------------------------------------------
(* The endpoints implement the code grant.                                 *)

\* The access token at the root of the lineage of code c.
HasRoot(c) ==
  \E t \in ATs : tokData[t] # Nil /\ tokData[t].code = c /\ tokData[t].rt = Nil

\* A lineage with a refresh token has a root.
RootInv == \A f \in RTs : rtData[f] # Nil => HasRoot(rtData[f].code)

\* Initially there is no lineage.
LEMMA RootInit == Init => RootInv
  BY DEF Init, StorageInit, RootInv

\* A refresh token is created after the access token it comes with, which is the
\* root itself or was obtained with a refresh token of the same lineage.
LEMMA RootStep ==
  TypeInv /\ LineageInv /\ PairInv /\ RootInv /\ [Next]_vars => RootInv'
<1> SUFFICES ASSUME TypeInv, LineageInv, PairInv, RootInv, [Next]_vars PROVE RootInv'
  OBVIOUS
<1> USE DEF tokenVars, rtVars
<1>0. \A c \in Codes : HasRoot(c) => HasRoot(c)'
  BY TokenStays DEF HasRoot
<1>1. \A f \in RTs : rtData[f] # Nil => rtData[f].code \in Codes
  BY DEF TypeInv, TypeOK, StorageTypeOK, RefreshToken
<1>2. ASSUME \A f \in RTs : rtData'[f] # Nil =>
               rtData[f] # Nil /\ rtData'[f].code = rtData[f].code
      PROVE  RootInv'
  <2> SUFFICES ASSUME NEW f \in RTs, rtData'[f] # Nil
               PROVE  HasRoot(rtData[f].code)'
    BY DEF RootInv
  <2>1. rtData'[f].code = rtData[f].code /\ rtData[f].code \in Codes
    BY <1>1, <1>2
  <2>2. HasRoot(rtData[f].code)
    BY <1>2 DEF RootInv
  <2> QED
    BY <1>0, <2>1, <2>2 DEF HasRoot
<1>3. ASSUME NEW p \in Procs, NEW t \in ATs, CreateAccessToken(p, t) PROVE RootInv'
  BY <1>2, <1>3, CreateATEffect
<1>4. ASSUME Quiet PROVE RootInv'
  BY <1>2, <1>4 DEF Quiet, SameRefreshToken
<1>5. ASSUME NEW p \in Procs, NEW f \in RTs, CreateRefreshToken(p, f) PROVE RootInv'
  <2>1. /\ proc[p].pc = "createRT" /\ rtData[f] = Nil
        /\ proc[p].at \in ATs /\ tokData[proc[p].at] # Nil
        /\ rtData'[f].code = proc[p].code
        /\ \A g \in RTs \ {f} : rtData'[g] = rtData[g]
        /\ tokData' = tokData
    BY <1>5, CreateRTEffect
  <2>2. HasRoot(proc[p].code)
    <3>1. CASE proc[p].rt = Nil
      BY <2>1, <3>1 DEF PairInv, HeldIsOwn, Holding, HasRoot
    <3>2. CASE proc[p].rt # Nil
      <4>1. /\ proc[p].rt \in RTs /\ rtData[proc[p].rt] # Nil
            /\ rtData[proc[p].rt].code = proc[p].code
        BY <2>1, <3>2 DEF TypeInv, TypeOK, PointersValid, ProcOK, Proc, Issuing, LineageInv,
                          ProcLineage
      <4> QED
        BY <4>1 DEF RootInv
    <3> QED
      BY <3>1, <3>2
  <2> QED
    BY <2>1, <2>2 DEF RootInv, HasRoot
<1> QED
  BY <1>3, <1>4, <1>5, QuietStep

\* The abstract state of a code that is in neither map and of one that is.
LEMMA StatusIs ==
  ASSUME CodeMaps, NEW c \in Codes
  PROVE  /\ codeUser[c] = Nil => CodeStatus(c) = "unknown" /\ CodeHolder(c) = Nil
         /\ codeToAuthReq[c] # Nil =>
              /\ CodeStatus(c) = "live"
              /\ CodeHolder(c) = reqData[codeToAuthReq[c]].client
         /\ usedCodes[c] # Nil =>
              /\ CodeStatus(c) = "spent"
              /\ CodeHolder(c) = reqData[usedCodes[c]].client
         /\ codeUser[c] # Nil /\ codeToAuthReq[c] = Nil /\ usedCodes[c] = Nil =>
              CodeStatus(c) = "lapsed" /\ CodeHolder(c) = Nil
  BY DEF CodeMaps, CodeStatus, CodeHolder, RequestOfCode, FreshCodes

\* A code whose entries stay as they are keeps its abstract state.
SameCode(c) ==
  /\ codeToAuthReq'[c] = codeToAuthReq[c]
  /\ usedCodes'[c] = usedCodes[c]
  /\ codeUser'[c] = codeUser[c]

\* Requests keep their client, so what the entries lead to stays the same too.
LEMMA SameCodeSame ==
  ASSUME TypeInv, CodeMaps, RequestsStable, NEW c \in Codes, SameCode(c)
  PROVE  CodeStatus(c)' = CodeStatus(c) /\ CodeHolder(c)' = CodeHolder(c)
<1>1. /\ codeToAuthReq[c] # Nil =>
           codeToAuthReq[c] \in ReqIDs /\ reqData[codeToAuthReq[c]] # Nil
      /\ usedCodes[c] # Nil => usedCodes[c] \in ReqIDs /\ reqData[usedCodes[c]] # Nil
  BY DEF TypeInv, TypeOK, StorageTypeOK, ObjectsExist, CodeMaps
<1>2. CodeStatus(c)' = CodeStatus(c)
  BY DEF SameCode, CodeStatus, FreshCodes
<1>3. CodeHolder(c)' = CodeHolder(c)
  BY <1>1 DEF SameCode, CodeHolder, RequestOfCode, RequestsStable
<1> QED
  BY <1>2, <1>3

\* What the steps on codes look like to the abstract specification: one code moves
\* and the others stay.
LEMMA CodeMoves ==
  ASSUME TypeInv, CodeMaps, [Next]_vars
  PROVE  \/ \A c \in Codes : SameCode(c)
         \/ \E c \in Codes :
              /\ \A d \in Codes \ {c} : SameCode(d)
              /\ \/ /\ codeUser[c] = Nil /\ codeToAuthReq'[c] # Nil
                    /\ reqData'[codeToAuthReq'[c]].client \in Clients
                 \/ /\ codeToAuthReq[c] # Nil
                    /\ usedCodes'[c] = codeToAuthReq[c]
                 \/ /\ codeToAuthReq[c] # Nil /\ codeToAuthReq'[c] = Nil
                    /\ usedCodes'[c] = Nil /\ codeUser'[c] # Nil
<1> USE StorageAssumption
<1> USE DEF codeVars, reqVars, storeVars
<1>0. StorageTypeOK /\ ObjectsExist /\ \A p \in Procs : ProcOK(p)
  BY DEF TypeInv, TypeOK, PointersValid
<1>1. ASSUME UNCHANGED codeVars PROVE \A c \in Codes : SameCode(c)
  BY <1>1 DEF SameCode
<1>2. ASSUME NEW c \in Codes, ConsumeCode(c), codeToAuthReq[c] # Nil
      PROVE  /\ \A d \in Codes \ {c} : SameCode(d)
             /\ usedCodes'[c] = codeToAuthReq[c]
  BY <1>0, <1>2 DEF ConsumeCode, SameCode, StorageTypeOK
<1>3. ASSUME NEW r \in ReqIDs, NEW c \in Codes, Callback(r, c)
      PROVE  /\ \A d \in Codes \ {c} : SameCode(d)
             /\ codeUser[c] = Nil /\ codeToAuthReq'[c] # Nil
             /\ reqData'[codeToAuthReq'[c]].client \in Clients
  <2>1. /\ codeUser[c] = Nil
        /\ codeToAuthReq' = [codeToAuthReq EXCEPT ![c] = r]
        /\ \E u : codeUser' = [codeUser EXCEPT ![c] = u]
        /\ usedCodes' = usedCodes /\ reqData' = reqData
        /\ r \in authRequests
    BY <1>3 DEF Callback, SaveAuthCode, FreshCodes
  <2>2. reqData[r].client \in Clients
    BY <1>0, <2>1 DEF ObjectsExist, StorageTypeOK, AuthRequest
  <2> QED
    BY <1>0, <2>1, <2>2 DEF SameCode, StorageTypeOK
<1>4. ASSUME NEW p \in Procs, NEW c \in Codes, RedeemExpired(p, c)
      PROVE  /\ \A d \in Codes \ {c} : SameCode(d)
             /\ codeToAuthReq[c] # Nil /\ codeToAuthReq'[c] = Nil
             /\ usedCodes'[c] = Nil /\ codeUser'[c] # Nil
  <2>1. /\ codeToAuthReq[c] # Nil
        /\ codeToAuthReq' = [codeToAuthReq EXCEPT ![c] = Nil]
        /\ usedCodes' = usedCodes /\ codeUser' = codeUser
    BY <1>4 DEF RedeemExpired, CodeExpired, CodeUnknown, DropExpiredCode
  <2> QED
    BY <1>0, <2>1 DEF CodeMaps, SameCode, StorageTypeOK
<1>5. ASSUME NEW p \in Procs, FinishExchange(p)
      PROVE  \/ \A c \in Codes : SameCode(c)
             \/ \E c \in Codes : /\ \A d \in Codes \ {c} : SameCode(d)
                                 /\ codeToAuthReq[c] # Nil
                                 /\ usedCodes'[c] = codeToAuthReq[c]
  <2> DEFINE r == proc[p].req
  <2> DEFINE c == authCodes[r]
  <2>1. r \in ReqIDs
    BY <1>0, <1>5 DEF FinishExchange, At, ProcOK, Issuing
  <2>2. c # Nil => c \in Codes /\ codeToAuthReq[c] = r
    BY <1>0, <2>1 DEF CodeMaps, StorageTypeOK
  <2>3. /\ codeToAuthReq' = [d \in Codes |-> IF d = c THEN Nil ELSE codeToAuthReq[d]]
        /\ usedCodes' = [d \in Codes |-> IF d = c THEN r ELSE usedCodes[d]]
        /\ codeUser' = codeUser
    BY <1>5 DEF FinishExchange, DeleteAuthRequest
  <2> HIDE DEF c, r
  <2>4. CASE c = Nil
    BY <2>3, <2>4 DEF SameCode
  <2>5. CASE c # Nil
    <3>1. /\ \A d \in Codes \ {c} : SameCode(d)
          /\ c \in Codes /\ codeToAuthReq[c] # Nil
          /\ usedCodes'[c] = codeToAuthReq[c]
      BY <2>1, <2>2, <2>3, <2>5 DEF SameCode
    <3> QED
      BY <3>1
  <2> QED
    BY <2>4, <2>5
<1>6. CASE AuthorizationStep
  <2>1. ASSUME NEW c \in Codes, CodeAges(c) PROVE \A d \in Codes : SameCode(d)
    BY <2>1 DEF CodeAges, SameCode
  <2>2. CASE \E r \in ReqIDs, c \in Codes : Callback(r, c)
    BY <1>3, <2>2
  <2> QED
    BY <1>1, <1>6, <2>1, <2>2 DEF AuthorizationStep, Authorize, Accept, Login
<1>7. ASSUME NEW p \in Procs, CodeExchangeStep(p)
      PROVE  \/ \A c \in Codes : SameCode(c)
             \/ \E c \in Codes :
                  /\ \A d \in Codes \ {c} : SameCode(d)
                  /\ \/ /\ codeToAuthReq[c] # Nil
                        /\ usedCodes'[c] = codeToAuthReq[c]
                     \/ /\ codeToAuthReq[c] # Nil /\ codeToAuthReq'[c] = Nil
                        /\ usedCodes'[c] = Nil /\ codeUser'[c] # Nil
  <2>1. ASSUME NEW c \in Codes,
               \/ RedeemRejected(p, c)
               \/ \E cl \in Clients, k \in Keys \cup {Nil} : RedeemAccepted(p, c, cl, k)
        PROVE  /\ \A d \in Codes \ {c} : SameCode(d)
               /\ codeToAuthReq[c] # Nil /\ usedCodes'[c] = codeToAuthReq[c]
    BY <1>2, <2>1 DEF RedeemRejected, RedeemAccepted, CodeRedeemable, CodeUnknown
  <2>2. ASSUME \/ DetectReplay(p)
               \/ TrackToken(p)
               \/ \E c \in Codes : RedeemUnknown(p, c)
        PROVE  UNCHANGED codeVars
    BY <2>2 DEF DetectReplay, TrackToken, RedeemUnknown
  <2>3. CASE \E c \in Codes : RedeemExpired(p, c)
    BY <1>4, <2>3
  <2>4. CASE \E c \in Codes : \/ RedeemRejected(p, c)
                              \/ \E cl \in Clients, k \in Keys \cup {Nil} :
                                   RedeemAccepted(p, c, cl, k)
    BY <2>1, <2>4
  <2> QED
    BY <1>1, <1>5, <1>7, <2>2, <2>3, <2>4 DEF CodeExchangeStep
<1>8. ASSUME NEW p \in Procs, RefreshStep(p) \/ IssueStep(p) PROVE UNCHANGED codeVars
  BY <1>8 DEF RefreshStep, PresentRefreshToken, NarrowScopes, Rotate, IssueStep,
              CreateAccessToken, CreateRefreshToken, Respond, RespondFails
<1>9. CASE RevocationStep
  BY <1>1, <1>9 DEF RevocationStep, RevokeRefresh, RevokeAccess
<1>10. CASE UNCHANGED vars
  BY <1>1, <1>10 DEF vars
<1> QED
  BY <1>1, <1>6, <1>7, <1>8, <1>9, <1>10 DEF Next

\* Steps on codes are steps of the code grant.
LEMMA CodeRefines ==
  ASSUME TypeInv, CodeMaps, CodeMaps', RequestsStable, [Next]_vars, tokData' = tokData
  PROVE  [CodeGrantSpec!Next]_(CodeGrantSpec!grantVars)
<1> DEFINE st == [c \in Codes |-> CodeStatus(c)]
           ho == [c \in Codes |-> CodeHolder(c)]
           gr == [t \in ATs |-> GrantOf(t)]
<1>0. gr' = gr
  BY DEF GrantOf
<1>1. \A d \in Codes : SameCode(d) => st'[d] = st[d] /\ ho'[d] = ho[d]
  BY SameCodeSame
<1>2. CASE \A c \in Codes : SameCode(c)
  <2>1. st' = st /\ ho' = ho
    BY <1>1, <1>2
  <2> QED
    BY <1>0, <2>1 DEF CodeGrantSpec!grantVars
<1>3. ASSUME NEW c \in Codes, \A d \in Codes \ {c} : SameCode(d),
             \/ /\ codeUser[c] = Nil /\ codeToAuthReq'[c] # Nil
                /\ reqData'[codeToAuthReq'[c]].client \in Clients
             \/ /\ codeToAuthReq[c] # Nil
                /\ usedCodes'[c] = codeToAuthReq[c]
             \/ /\ codeToAuthReq[c] # Nil /\ codeToAuthReq'[c] = Nil
                /\ usedCodes'[c] = Nil /\ codeUser'[c] # Nil
      PROVE  CodeGrantSpec!Next
  <2>0. \A x, y : /\ st'[c] = x => st' = [st EXCEPT ![c] = x]
                  /\ ho'[c] = y => ho' = [ho EXCEPT ![c] = y]
    BY <1>1, <1>3
  <2>1. /\ codeUser[c] = Nil => st[c] = "unknown"
        /\ codeToAuthReq[c] # Nil =>
             st[c] = "live" /\ ho[c] = reqData[codeToAuthReq[c]].client
    BY StatusIs
  <2>2. /\ codeToAuthReq'[c] # Nil =>
             st'[c] = "live" /\ ho'[c] = reqData'[codeToAuthReq'[c]].client
        /\ usedCodes'[c] # Nil =>
             st'[c] = "spent" /\ ho'[c] = reqData'[usedCodes'[c]].client
        /\ codeUser'[c] # Nil /\ codeToAuthReq'[c] = Nil /\ usedCodes'[c] = Nil =>
             st'[c] = "lapsed" /\ ho'[c] = Nil
    BY DEF CodeMaps, CodeStatus, CodeHolder, RequestOfCode, FreshCodes
  <2>3. CASE /\ codeUser[c] = Nil /\ codeToAuthReq'[c] # Nil
             /\ reqData'[codeToAuthReq'[c]].client \in Clients
    <3> DEFINE cl == reqData'[codeToAuthReq'[c]].client
    <3>1. st[c] = "unknown" /\ st' = [st EXCEPT ![c] = "live"] /\ ho' = [ho EXCEPT ![c] = cl]
      BY <2>0, <2>1, <2>2, <2>3
    <3> HIDE DEF st, ho, gr, cl
    <3>2. cl \in Clients
      BY <2>3 DEF cl
    <3>3. \E x \in Clients : CodeGrantSpec!Mint(c, x)
      BY <1>0, <3>1, <3>2 DEF CodeGrantSpec!Mint, st, ho, gr
    <3> QED
      BY <3>3 DEF CodeGrantSpec!Next
  <2>4. CASE codeToAuthReq[c] # Nil /\ usedCodes'[c] = codeToAuthReq[c]
    <3>1. codeToAuthReq[c] \in ReqIDs /\ reqData[codeToAuthReq[c]] # Nil
      BY <2>4 DEF TypeInv, TypeOK, StorageTypeOK, ObjectsExist
    <3>2. st[c] = "live" /\ st' = [st EXCEPT ![c] = "spent"] /\ ho'[c] = ho[c]
      BY <2>0, <2>1, <2>2, <2>4, <3>1 DEF RequestsStable
    <3>3. ho' = ho
      BY <1>1, <1>3, <3>2
    <3>4. CodeGrantSpec!Spend(c)
      BY <1>0, <3>2, <3>3 DEF CodeGrantSpec!Spend
    <3> QED
      BY <3>4 DEF CodeGrantSpec!Next
  <2>5. CASE /\ codeToAuthReq[c] # Nil /\ codeToAuthReq'[c] = Nil
             /\ usedCodes'[c] = Nil /\ codeUser'[c] # Nil
    <3>1. /\ st[c] = "live" /\ st' = [st EXCEPT ![c] = "lapsed"]
          /\ ho' = [ho EXCEPT ![c] = Nil]
      BY <2>0, <2>1, <2>2, <2>5
    <3>2. CodeGrantSpec!Lapse(c)
      BY <1>0, <3>1 DEF CodeGrantSpec!Lapse
    <3> QED
      BY <3>2 DEF CodeGrantSpec!Next
  <2> QED
    BY <1>3, <2>3, <2>4, <2>5
<1> QED
  BY <1>2, <1>3, CodeMoves

\* The creation of an access token is an exchange or a refresh of the code grant.
LEMMA TokenRefines ==
  ASSUME TypeInv, CodeMaps, LineageInv, ExchangeInv, RootInv,
         NEW p \in Procs, NEW t \in ATs, CreateAccessToken(p, t)
  PROVE  CodeGrantSpec!Next
<1> DEFINE st == [c \in Codes |-> CodeStatus(c)]
           ho == [c \in Codes |-> CodeHolder(c)]
           gr == [u \in ATs |-> GrantOf(u)]
           c == proc[p].code
           g == [code |-> c, client |-> proc[p].client, root |-> proc[p].rt = Nil]
<1>1. /\ proc[p].pc = "createAT" /\ tokData[t] = Nil
      /\ tokData'[t] # Nil
      /\ tokData'[t].code = c
      /\ tokData'[t].rt = proc[p].rt
      /\ tokData'[t].by = proc[p].client
      /\ \A u \in ATs \ {t} : tokData'[u] = tokData[u]
      /\ UNCHANGED <<codeVars, reqVars>>
  BY CreateATEffect
<1>2. st' = st /\ ho' = ho
  BY <1>1 DEF codeVars, reqVars, CodeStatus, CodeHolder, RequestOfCode, FreshCodes
<1>3. /\ c \in Codes /\ usedCodes[c] # Nil
      /\ proc[p].client = reqData[usedCodes[c]].client
      /\ proc[p].rt # Nil => /\ proc[p].rt \in RTs /\ rtData[proc[p].rt] # Nil
                             /\ rtData[proc[p].rt].code = c
  BY <1>1 DEF TypeInv, TypeOK, PointersValid, ProcOK, Proc, LineageInv, ProcLineage,
              InLineage, Issuing
<1>4. st[c] = "spent" /\ ho[c] = proc[p].client
  BY <1>3, StatusIs
<1>5. gr[t] = Nil /\ gr' = [gr EXCEPT ![t] = g]
  BY <1>1 DEF GrantOf
<1>6. \A u \in ATs : gr[u] # Nil => /\ tokData[u] # Nil
                                    /\ gr[u].code = tokData[u].code
                                    /\ gr[u].root <=> tokData[u].rt = Nil
  BY DEF GrantOf
<1>7. \A u \in ATs : tokData[u] # Nil => gr[u] # Nil
  <2> SUFFICES ASSUME NEW u \in ATs, tokData[u] # Nil PROVE gr[u] # Nil
    OBVIOUS
  <2> QED
    BY GrantAssumption DEF GrantOf, TypeInv, TypeOK, StorageTypeOK, Token
<1>8. CASE proc[p].rt = Nil
  <2>1. \A u \in ATs : ~(gr[u] # Nil /\ gr[u].code = c /\ gr[u].root)
    BY <1>1, <1>6, <1>8 DEF ExchangeInv, Pending, Issued
  <2>2. CodeGrantSpec!Roots(c) = {}
    BY <2>1 DEF CodeGrantSpec!Roots
  <2>3. g = [code |-> c, client |-> ho[c], root |-> TRUE]
    BY <1>4, <1>8
  <2> HIDE DEF g, c
  <2>4. CodeGrantSpec!Exchange(c, t)
    BY <1>2, <1>4, <1>5, <2>2, <2>3 DEF CodeGrantSpec!Exchange, CodeGrantSpec!Grant
  <2> QED
    BY <1>3, <2>4 DEF CodeGrantSpec!Next
<1>9. CASE proc[p].rt # Nil
  <2>1. HasRoot(c)
    BY <1>3, <1>9 DEF RootInv
  <2>2. CodeGrantSpec!Roots(c) # {}
    BY <1>6, <1>7, <2>1 DEF HasRoot, CodeGrantSpec!Roots
  <2>3. g = [code |-> c, client |-> ho[c], root |-> FALSE]
    BY <1>4, <1>9
  <2> HIDE DEF g, c
  <2>4. CodeGrantSpec!Refresh(c, t)
    BY <1>2, <1>4, <1>5, <2>2, <2>3 DEF CodeGrantSpec!Refresh, CodeGrantSpec!Grant
  <2> QED
    BY <1>3, <2>4 DEF CodeGrantSpec!Next
<1> QED
  BY <1>8, <1>9

\* The initial states map to the initial state of the code grant.
LEMMA RefinesInit == Init => CodeGrantSpec!Init
<1> SUFFICES ASSUME Init PROVE CodeGrantSpec!Init
  OBVIOUS
<1>1. \A c \in Codes : CodeStatus(c) = "unknown" /\ CodeHolder(c) = Nil
  BY DEF Init, StorageInit, CodeStatus, CodeHolder, RequestOfCode, FreshCodes
<1>2. \A t \in ATs : GrantOf(t) = Nil
  BY DEF Init, StorageInit, GrantOf
<1> QED
  BY <1>1, <1>2 DEF CodeGrantSpec!Init

\* The endpoints and the storage implement the code grant, for any number of codes,
\* clients and concurrent goroutines: every step is one of its steps or a stutter.
THEOREM RefinesCodeGrant == Spec => ImplementsCodeGrant
<1>1. /\ TypeInv /\ CodeMaps /\ CodeMaps' /\ LineageInv /\ ExchangeInv /\ RootInv
      /\ [Next]_vars
      => [CodeGrantSpec!Next]_(CodeGrantSpec!grantVars)
  <2> SUFFICES ASSUME TypeInv, CodeMaps, CodeMaps', LineageInv, ExchangeInv, RootInv,
                      [Next]_vars
               PROVE  [CodeGrantSpec!Next]_(CodeGrantSpec!grantVars)
    OBVIOUS
  <2>1. RequestsStable
    BY CodeMapsStep
  <2>2. ASSUME NEW p \in Procs, NEW t \in ATs, CreateAccessToken(p, t)
        PROVE  CodeGrantSpec!Next
    BY <2>2, TokenRefines
  <2>3. ASSUME NEW p \in Procs, NEW f \in RTs, CreateRefreshToken(p, f)
        PROVE  tokData' = tokData
    BY <2>3, CreateRTEffect DEF tokenVars
  <2>4. ASSUME Quiet PROVE tokData' = tokData
    BY <2>4 DEF Quiet
  <2>5. CASE tokData' = tokData
    BY <2>1, <2>5, CodeRefines
  <2> QED
    BY <2>2, <2>3, <2>4, <2>5, QuietStep
<1>2. Init => ExchangeInv
  BY DEF Init, StorageInit, Idle, ExchangeInv, CodeSingleUse, Issued, Pending
<1> QED
  BY <1>1, <1>2, TypeInit, TypeNext, CodeMapsInit, CodeMapsStep, LineageInit,
     LineageStep, ExchangeStep, PairInit, PairStep, RootInit, RootStep, RefinesInit, PTL
  DEF Spec, ImplementsCodeGrant, CodeGrantSpec!Spec

-----------------------------------------------------------------------------
(* Subjects.  They are stable under two hypotheses on the deployment: the  *)
(* login form, which overwrites the user of a completed request, is not    *)
(* mounted, and no pairwise client has the refresh_token grant, whose      *)
(* tokens are transformed once more with every refresh.                    *)

\* The user of the request behind a code is the user it was minted for.
UserInv ==
  /\ \A c \in Codes : codeToAuthReq[c] # Nil => reqData[codeToAuthReq[c]].user = codeUser[c]
  /\ \A c \in Codes : usedCodes[c] # Nil =>
       reqData[usedCodes[c]].done /\ reqData[usedCodes[c]].user = codeUser[c]

\* Without the login form a completed request keeps its user.
LEMMA UsersKept ==
  ASSUME ~LoginForm, TypeInv, [Next]_vars, NEW r \in ReqIDs, reqData[r] # Nil, reqData[r].done
  PROVE  reqData'[r].done /\ reqData'[r].user = reqData[r].user
<1> USE DEF reqVars, storeVars
<1>0. reqData \in [ReqIDs -> AuthRequest \cup {Nil}]
  BY DEF TypeInv, TypeOK, StorageTypeOK
<1>1. ASSUME NEW x \in ReqIDs, NEW c \in Clients, NEW s \in SUBSET Scopes,
             NEW k \in Keys \cup {Nil}, Authorize(x, c, s, k)
      PROVE  reqData'[r] = reqData[r]
  BY <1>0, <1>1 DEF Authorize, CreateAuthRequest, FreshReqs
<1>2. ASSUME NEW x \in ReqIDs, NEW u \in Users, NEW hasSid \in BOOLEAN, Accept(x, u, hasSid)
      PROVE  reqData'[r] = reqData[r]
  BY <1>0, <1>2 DEF Accept, CompleteAuthRequest
<1>3. CASE AuthorizationStep
  BY <1>1, <1>2, <1>3 DEF AuthorizationStep, Login, Callback, CodeAges
<1>4. ASSUME NEW p \in Procs, CodeExchangeStep(p) PROVE reqData' = reqData
  BY <1>4 DEF CodeExchangeStep, RedeemUnknown, RedeemExpired, RedeemRejected,
              RedeemAccepted, DetectReplay, TrackToken, FinishExchange, DeleteAuthRequest
<1>5. ASSUME NEW p \in Procs, RefreshStep(p) \/ IssueStep(p) PROVE reqData' = reqData
  BY <1>5 DEF RefreshStep, PresentRefreshToken, NarrowScopes, Rotate, IssueStep,
              CreateAccessToken, CreateRefreshToken, Respond, RespondFails
<1>6. CASE RevocationStep
  BY <1>6 DEF RevocationStep, RevokeRefresh, RevokeAccess
<1>7. CASE UNCHANGED vars
  BY <1>7 DEF vars
<1> QED
  BY <1>3, <1>4, <1>5, <1>6, <1>7 DEF Next

\* A minted code keeps its user.
LEMMA CodeUserKept ==
  ASSUME TypeInv, [Next]_vars, NEW c \in Codes, codeUser[c] # Nil
  PROVE  codeUser'[c] = codeUser[c]
<1> USE DEF codeVars, storeVars
<1>1. ASSUME NEW r \in ReqIDs, NEW d \in Codes, Callback(r, d)
      PROVE  codeUser'[c] = codeUser[c]
  BY <1>1 DEF Callback, SaveAuthCode, FreshCodes, TypeInv, TypeOK, StorageTypeOK
<1>2. CASE AuthorizationStep
  BY <1>1, <1>2 DEF AuthorizationStep, Authorize, Accept, Login, CodeAges
<1>3. ASSUME NEW p \in Procs, CodeExchangeStep(p) PROVE codeUser' = codeUser
  BY <1>3 DEF CodeExchangeStep, RedeemUnknown, RedeemExpired, RedeemRejected,
              RedeemAccepted, DetectReplay, TrackToken, FinishExchange, DeleteAuthRequest,
              DropExpiredCode, ConsumeCode
<1>4. ASSUME NEW p \in Procs, RefreshStep(p) \/ IssueStep(p) PROVE codeUser' = codeUser
  BY <1>4 DEF RefreshStep, PresentRefreshToken, NarrowScopes, Rotate, IssueStep,
              CreateAccessToken, CreateRefreshToken, Respond, RespondFails
<1>5. CASE RevocationStep
  BY <1>5 DEF RevocationStep, RevokeRefresh, RevokeAccess
<1>6. CASE UNCHANGED vars
  BY <1>6 DEF vars
<1> QED
  BY <1>2, <1>3, <1>4, <1>5, <1>6 DEF Next

\* A code that is minted gets the user of its request; one that moves keeps both.
LEMMA UserStep ==
  ASSUME ~LoginForm
  PROVE  TypeInv /\ CodeMaps /\ CodeMaps' /\ UserInv /\ [Next]_vars => UserInv'
<1> SUFFICES ASSUME TypeInv, CodeMaps, CodeMaps', UserInv, [Next]_vars
             PROVE  UserInv'
  OBVIOUS
<1>0. \A c \in Codes :
        /\ codeToAuthReq[c] # Nil =>
             /\ codeToAuthReq[c] \in ReqIDs /\ reqData[codeToAuthReq[c]] # Nil
             /\ reqData[codeToAuthReq[c]].done /\ codeUser[c] # Nil
        /\ usedCodes[c] # Nil =>
             /\ usedCodes[c] \in ReqIDs /\ reqData[usedCodes[c]] # Nil /\ codeUser[c] # Nil
  BY DEF TypeInv, TypeOK, StorageTypeOK, ObjectsExist, CodeMaps
<1>1. \A r \in ReqIDs : reqData[r] # Nil /\ reqData[r].done =>
        reqData'[r].done /\ reqData'[r].user = reqData[r].user
  BY UsersKept
<1>2. ASSUME NEW c \in Codes, SameCode(c)
      PROVE  /\ codeToAuthReq'[c] # Nil => reqData'[codeToAuthReq'[c]].user = codeUser'[c]
             /\ usedCodes'[c] # Nil => /\ reqData'[usedCodes'[c]].done
                                       /\ reqData'[usedCodes'[c]].user = codeUser'[c]
  BY <1>0, <1>1, <1>2 DEF SameCode, UserInv
<1>3. ASSUME NEW r \in ReqIDs, NEW c \in Codes, Callback(r, c) PROVE UserInv'
  <2>1. /\ codeToAuthReq'[c] = r /\ codeUser'[c] = reqData[r].user
        /\ \A d \in Codes \ {c} : SameCode(d)
        /\ usedCodes' = usedCodes /\ reqData' = reqData
        /\ usedCodes[c] = Nil
    BY <1>3 DEF Callback, SaveAuthCode, FreshCodes, SameCode, CodeMaps, TypeInv, TypeOK,
                StorageTypeOK, reqVars
  <2> QED
    BY <1>2, <2>1 DEF UserInv
<1>4. ASSUME NEW c \in Codes, \A d \in Codes \ {c} : SameCode(d), codeToAuthReq[c] # Nil,
             usedCodes'[c] = codeToAuthReq[c]
      PROVE  UserInv'
  <2>1. codeToAuthReq'[c] = Nil /\ codeUser'[c] = codeUser[c]
    BY <1>0, <1>4, CodeUserKept DEF CodeMaps
  <2>2. reqData'[codeToAuthReq[c]].done /\ reqData'[codeToAuthReq[c]].user = codeUser[c]
    BY <1>0, <1>1, <1>4 DEF UserInv
  <2> QED
    BY <1>2, <1>4, <2>1, <2>2 DEF UserInv
<1>5. ASSUME NEW c \in Codes, \A d \in Codes \ {c} : SameCode(d),
             codeToAuthReq'[c] = Nil, usedCodes'[c] = Nil
      PROVE  UserInv'
  BY <1>2, <1>5 DEF UserInv
<1>6. ASSUME NEW c \in Codes, \A d \in Codes \ {c} : SameCode(d),
             codeUser[c] = Nil, codeToAuthReq'[c] # Nil
      PROVE  UserInv'
  <2>1. \E r \in ReqIDs : Callback(r, c)
    <3>1. codeToAuthReq[c] = Nil
      BY <1>6 DEF CodeMaps
    <3>2. ASSUME NEW r \in ReqIDs, NEW d \in Codes, Callback(r, d) PROVE d = c
      BY <1>6, <3>1, <3>2 DEF Callback, SaveAuthCode, TypeInv, TypeOK, StorageTypeOK
    <3>3. ASSUME UNCHANGED codeVars PROVE FALSE
      BY <1>6, <3>1, <3>3 DEF codeVars
    <3>4. CASE AuthorizationStep
      BY <1>6, <3>1, <3>2, <3>3, <3>4
      DEF AuthorizationStep, Authorize, Accept, Login, CodeAges
    <3>5. ASSUME NEW p \in Procs, CodeExchangeStep(p) PROVE FALSE
      <4>1. ASSUME NEW d \in Codes, codeToAuthReq' = [codeToAuthReq EXCEPT ![d] = Nil]
            PROVE  FALSE
        BY <1>6, <3>1, <4>1 DEF TypeInv, TypeOK, StorageTypeOK
      <4>2. ASSUME FinishExchange(p) PROVE FALSE
        BY <1>6, <3>1, <4>2 DEF FinishExchange, DeleteAuthRequest
      <4> QED
        BY <3>3, <3>5, <4>1, <4>2
        DEF CodeExchangeStep, RedeemUnknown, RedeemExpired, RedeemRejected, RedeemAccepted,
            DetectReplay, TrackToken, DropExpiredCode, ConsumeCode, storeVars
    <3>6. ASSUME NEW p \in Procs, RefreshStep(p) \/ IssueStep(p) PROVE FALSE
      BY <3>3, <3>6
      DEF RefreshStep, PresentRefreshToken, NarrowScopes, Rotate, IssueStep,
          CreateAccessToken, CreateRefreshToken, Respond, RespondFails, storeVars
    <3>7. CASE RevocationStep
      BY <3>3, <3>7 DEF RevocationStep, RevokeRefresh, RevokeAccess
    <3>8. CASE UNCHANGED vars
      BY <3>3, <3>8 DEF vars, storeVars
    <3> QED
      BY <3>4, <3>5, <3>6, <3>7, <3>8 DEF Next
  <2> QED
    BY <1>3, <2>1
<1>7. CASE \A c \in Codes : SameCode(c)
  BY <1>2, <1>7 DEF UserInv
<1> QED
  BY <1>4, <1>5, <1>6, <1>7, CodeMoves

\* Tokens name that user, transformed once for a pairwise client; refresh tokens,
\* which no pairwise client has, name the user itself.
SubjectInv ==
  /\ SubjectStable
  /\ \A f \in RTs : rtData[f] # Nil =>
       /\ rtData[f].client \in RefreshClients
       /\ rtData[f].subject = [user |-> codeUser[rtData[f].code], hops |-> 0]
  /\ \A p \in Procs : At(p, "createRT") => proc[p].client \in RefreshClients

\* The subject a goroutine finds in its request object.
LEMMA GrantSubjectIs ==
  ASSUME NEW p \in Procs, TypeInv, LineageInv, UserInv, SubjectInv, proc[p].pc \in Issuing
  PROVE  /\ GrantSubject(p) = [user |-> codeUser[proc[p].code], hops |-> 0]
         /\ proc[p].rt # Nil => proc[p].client \in RefreshClients
<1>1. /\ proc[p].code \in Codes /\ usedCodes[proc[p].code] # Nil
      /\ proc[p].rt = Nil => proc[p].req = usedCodes[proc[p].code]
      /\ proc[p].rt # Nil => /\ rtData[proc[p].rt].code = proc[p].code
                             /\ proc[p].rt \in RTs /\ rtData[proc[p].rt] # Nil
  BY DEF LineageInv, ProcLineage, InLineage, TypeInv, TypeOK, PointersValid, ProcOK, Proc,
         Issuing
<1>2. CASE proc[p].rt = Nil
  BY <1>1, <1>2 DEF UserInv, GrantSubject
<1>3. CASE proc[p].rt # Nil
  <2>1. GrantClient(p) = proc[p].client
    BY GrantClientIs
  <2> QED
    BY <1>1, <1>3, <2>1 DEF SubjectInv, GrantSubject, GrantClient
<1> QED
  BY <1>2, <1>3

\* Every step keeps the subjects.
LEMMA SubjectStep ==
  ASSUME PairwiseClients \cap RefreshClients = {}
  PROVE  /\ TypeInv /\ CodeMaps /\ LineageInv /\ PairInv /\ UserInv /\ SubjectInv
         /\ [Next]_vars
         => SubjectInv'
<1> SUFFICES ASSUME TypeInv, CodeMaps, LineageInv, PairInv, UserInv, SubjectInv, [Next]_vars
             PROVE  SubjectInv'
  OBVIOUS
<1> USE DEF codeVars, reqVars, tokenVars, rtVars
<1>0. /\ \A t \in ATs : tokData[t] # Nil => /\ tokData[t].code \in Codes
                                            /\ codeUser[tokData[t].code] # Nil
      /\ \A f \in RTs : rtData[f] # Nil => /\ rtData[f].code \in Codes
                                           /\ codeUser[rtData[f].code] # Nil
  BY DEF TypeInv, TypeOK, StorageTypeOK, Token, RefreshToken, LineageInv, TokensInLineage,
         RefreshTokensInLineage, InLineage, CodeMaps
<1>1. \A c \in Codes : codeUser[c] # Nil => codeUser'[c] = codeUser[c]
  BY CodeUserKept
<1>2. ASSUME NEW p \in Procs, NEW t \in ATs, CreateAccessToken(p, t) PROVE SubjectInv'
  <2>1. /\ proc[p].pc = "createAT" /\ tokData[t] = Nil
        /\ tokData'[t].code = proc[p].code
        /\ tokData'[t].client = GrantClient(p)
        /\ tokData'[t].subject = applyPairwise(proc[p].client, GrantSubject(p))
        /\ \A u \in ATs \ {t} : tokData'[u] = tokData[u]
        /\ proc'[p].pc = "createRT" => proc[p].client \in RefreshClients
        /\ proc'[p].client = proc[p].client
        /\ \A q \in Procs \ {p} : proc'[q] = proc[q]
        /\ rtData' = rtData /\ codeUser' = codeUser
    BY <1>2, CreateATEffect
  <2>2. /\ GrantSubject(p) = [user |-> codeUser[proc[p].code], hops |-> 0]
        /\ GrantClient(p) = proc[p].client
        /\ proc[p].rt # Nil => proc[p].client \in RefreshClients
    BY <2>1, GrantSubjectIs, GrantClientIs DEF Issuing
  <2>3. tokData'[t].subject =
          [user |-> codeUser[proc[p].code],
           hops |-> IF proc[p].client \in PairwiseClients THEN 1 ELSE 0]
    BY <2>1, <2>2 DEF applyPairwise
  <2>4. SubjectStable'
    BY <2>1, <2>2, <2>3 DEF SubjectInv, SubjectStable, Issued
  <2> QED
    BY <2>1, <2>4 DEF SubjectInv, At
<1>3. ASSUME NEW p \in Procs, NEW f \in RTs, CreateRefreshToken(p, f) PROVE SubjectInv'
  <2>1. /\ proc[p].pc = "createRT" /\ rtData[f] = Nil
        /\ rtData'[f].code = proc[p].code
        /\ rtData'[f].client = GrantClient(p)
        /\ rtData'[f].subject = IF proc[p].client \in PairwiseClients
                                  THEN tokData[proc[p].at].subject ELSE GrantSubject(p)
        /\ \A g \in RTs \ {f} : rtData'[g] = rtData[g]
        /\ proc'[p].pc \in {"rotate", "respond"}
        /\ \A q \in Procs \ {p} : proc'[q] = proc[q]
        /\ tokData' = tokData /\ codeUser' = codeUser
    BY <1>3, CreateRTEffect
  <2>2. /\ GrantSubject(p) = [user |-> codeUser[proc[p].code], hops |-> 0]
        /\ GrantClient(p) = proc[p].client
        /\ proc[p].client \in RefreshClients
    BY <2>1, GrantSubjectIs, GrantClientIs DEF Issuing, SubjectInv, At
  <2>3. SubjectStable'
    BY <2>1 DEF SubjectInv, SubjectStable, Issued
  <2>4. /\ rtData'[f].client \in RefreshClients
        /\ rtData'[f].subject = [user |-> codeUser'[rtData'[f].code], hops |-> 0]
    BY <2>1, <2>2
  <2> QED
    BY <2>1, <2>3, <2>4 DEF SubjectInv, At
<1>4. ASSUME Quiet PROVE SubjectInv'
  <2>1. SubjectStable'
    BY <1>0, <1>1, <1>4 DEF Quiet, SubjectInv, SubjectStable, Issued
  <2>2. \A f \in RTs : rtData'[f] # Nil =>
          /\ rtData'[f].client \in RefreshClients
          /\ rtData'[f].subject = [user |-> codeUser'[rtData'[f].code], hops |-> 0]
    BY <1>0, <1>1, <1>4 DEF Quiet, SameRefreshToken, SubjectInv
  <2>3. \A q \in Procs : At(q, "createRT")' =>
          At(q, "createRT") /\ proc'[q].client = proc[q].client
    BY <1>4 DEF Quiet, Moves, Holding, At
  <2> QED
    BY <2>1, <2>2, <2>3 DEF SubjectInv
<1> QED
  BY <1>2, <1>3, <1>4, QuietStep

\* Every token of a lineage names the user for whom its code was minted, with one sub
\* value per client, where the login form is not mounted and no pairwise client
\* refreshes.
THEOREM SubjectStableHolds ==
  ASSUME ~LoginForm, PairwiseClients \cap RefreshClients = {}
  PROVE  Spec => []SubjectStable
<1>1. Init => UserInv /\ SubjectInv
  BY DEF Init, StorageInit, Idle, UserInv, SubjectInv, SubjectStable, Issued, At
<1>2. TypeInv /\ CodeMaps /\ CodeMaps' /\ UserInv /\ [Next]_vars => UserInv'
  BY UserStep
<1>3. /\ TypeInv /\ CodeMaps /\ LineageInv /\ PairInv /\ UserInv /\ SubjectInv
      /\ [Next]_vars
      => SubjectInv'
  BY SubjectStep
<1>4. SubjectInv => SubjectStable
  BY DEF SubjectInv
<1> QED
  BY <1>1, <1>2, <1>3, <1>4, TypeInit, TypeNext, CodeMapsInit, CodeMapsStep, LineageInit,
     LineageStep, PairInit, PairStep, PTL
  DEF Spec
=============================================================================
