------------------------------ MODULE MCEngine ------------------------------
(* The built-in set and one optional plugin; the names that may be doubled,  *)
(* added by hand or disabled are those the other plugins depend on.          *)
EXTENDS Engine

MCOffered == Names

MCDoubled == {"endsession"}

MCByHand == {"authorization", "endsession", "par", "dpop"}

MCDisableable == {"authorization", "token", "endsession", "revocation", "par", "discovery"}

=============================================================================
