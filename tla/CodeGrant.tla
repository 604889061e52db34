----------------------------- MODULE CodeGrant -----------------------------
(***************************************************************************)
(* What the authorization code grant promises, without requests, goroutines *)
(* or maps: a code is minted for one client, leaves circulation once and   *)
(* for good, and is the root of at most one lineage of access tokens, all  *)
(* of them the client's.  TokenEndpoint implements this.                   *)
(***************************************************************************)
CONSTANTS Codes, ATs, Clients, Nil

VARIABLES
  status,  \* Codes -> how far each code has come
  holder,  \* Codes -> the client it was minted for, Nil if unknown or forgotten
  grants   \* ATs -> the code, the client and the generation of an issued token

grantVars == <<status, holder, grants>>

Roots(c) == {t \in ATs : grants[t] # Nil /\ grants[t].code = c /\ grants[t].root}

Init ==
  /\ status = [c \in Codes |-> "unknown"]
  /\ holder = [c \in Codes |-> Nil]
  /\ grants = [t \in ATs |-> Nil]

Mint(c, cl) ==
  /\ status[c] = "unknown"
  /\ status' = [status EXCEPT ![c] = "live"]
  /\ holder' = [holder EXCEPT ![c] = cl]
  /\ UNCHANGED grants

\* The first request that presents the code, or the end of the login it belongs to.
Spend(c) ==
  /\ status[c] = "live"
  /\ status' = [status EXCEPT ![c] = "spent"]
  /\ UNCHANGED <<holder, grants>>

\* An expired code is forgotten.
Lapse(c) ==
  /\ status[c] = "live"
  /\ status' = [status EXCEPT ![c] = "lapsed"]
  /\ holder' = [holder EXCEPT ![c] = Nil]
  /\ UNCHANGED grants

Grant(c, t, root) ==
  /\ grants[t] = Nil
  /\ grants' = [grants EXCEPT ![t] = [code |-> c, client |-> holder[c], root |-> root]]
  /\ UNCHANGED <<status, holder>>

\* The token a code is exchanged for, and one that a refresh token brings later.
Exchange(c, t) == status[c] = "spent" /\ Roots(c) = {} /\ Grant(c, t, TRUE)

Refresh(c, t) == Roots(c) # {} /\ Grant(c, t, FALSE)

Next ==
  \/ \E c \in Codes : Spend(c) \/ Lapse(c) \/ \E cl \in Clients : Mint(c, cl)
  \/ \E c \in Codes, t \in ATs : Exchange(c, t) \/ Refresh(c, t)

Spec == Init /\ [][Next]_grantVars
=============================================================================
