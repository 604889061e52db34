------------------------------ MODULE MCLogout ------------------------------
(* Two users, a client with a back channel and one without, two logins and   *)
(* two end_session requests; a logout token may arrive at once, just before  *)
(* or after it expires, and at a relying party whose clock is behind.        *)
EXTENDS Logout, TLC

MCTravel == {-3, -4, 0, 10}

Symmetry == Permutations(Users)

=============================================================================
