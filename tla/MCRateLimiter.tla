--------------------------- MODULE MCRateLimiter ---------------------------
(***************************************************************************)
(* Instances of RateLimiter for TLC: client IPs share one limit, a client  *)
(* of the token endpoint has its own.                                       *)
(***************************************************************************)
EXTENDS RateLimiter

CONSTANTS Clients, IPLimit, IPWindow, ClientLimit, ClientWindow

MCKeys == Evictable \cup Clients
MCLimit == [k \in MCKeys |-> IF k \in Clients THEN ClientLimit ELSE IPLimit]
MCWindow == [k \in MCKeys |-> IF k \in Clients THEN ClientWindow ELSE IPWindow]
=============================================================================
