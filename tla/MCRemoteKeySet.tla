--------------------------- MODULE MCRemoteKeySet ---------------------------
(***************************************************************************)
(* An instance of RemoteKeySet for TLC: two keys with a kid, one without,  *)
(* and a forger's key under the kid of the first.                          *)
(***************************************************************************)
EXTENDS RemoteKeySet, TLC

CONSTANTS k1, k2, k3, x, a, b

MCKid == (k1 :> a) @@ (k2 :> b) @@ (k3 :> Nil) @@ (x :> a)
=============================================================================
