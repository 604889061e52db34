--------------------------- MODULE MCResourceAccess ---------------------------
(* Two requests in flight, two proofs against a cache of one, a token, a     *)
(* certificate, and two clients: web has no requirements, bank must prove    *)
(* possession of something.                                                  *)
EXTENDS ResourceAccess, TLC

Symmetry == Permutations(Procs) \cup Permutations(Keys) \cup Permutations(Jtis)

=============================================================================
