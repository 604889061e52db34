---------------------------- MODULE MCCibaGrant ----------------------------
(***************************************************************************)
(* Instances of CibaGrant for TLC.  Pollers, approvers and request ids are *)
(* interchangeable where a run checks no liveness.                          *)
(***************************************************************************)
EXTENDS CibaGrant, TLC

Symmetry == Permutations(Pollers) \cup Permutations(Approvers) \cup Permutations(ReqIDs)
=============================================================================
