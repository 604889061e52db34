-------------------------- MODULE MCTokenEndpoint --------------------------
(***************************************************************************)
(* Instances of TokenEndpoint for TLC.  Identifiers that the program draws *)
(* at random (codes, token ids, request ids), keys, users and the request  *)
(* goroutines are interchangeable.                                          *)
(***************************************************************************)
EXTENDS TokenEndpoint, TLC

Symmetry ==
  Permutations(Procs) \cup Permutations(Codes) \cup Permutations(ATs)
    \cup Permutations(RTs) \cup Permutations(ReqIDs) \cup Permutations(Keys)
    \cup Permutations(Users)
=============================================================================
