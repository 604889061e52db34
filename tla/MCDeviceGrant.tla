--------------------------- MODULE MCDeviceGrant ---------------------------
(***************************************************************************)
(* Instances of DeviceGrant for TLC.  Codes, users and handlers are        *)
(* interchangeable.                                                        *)
(***************************************************************************)
EXTENDS DeviceGrant, TLC

Symmetry == Permutations(DeviceCodes) \cup Permutations(UserCodes)
              \cup Permutations(Users) \cup Permutations(Authorizers)
              \cup Permutations(Pollers)
=============================================================================
