--------------------------- MODULE MCTokenVerifier ---------------------------
(* Small instances of TokenVerifier for TLC. *)
EXTENDS TokenVerifier

CONSTANTS k1, k2

(* A token of the one key in order, and one of the other without the scope. *)
MCTokens == {[kid |-> k1, claims |-> "good"], [kid |-> k2, claims |-> "unscoped"]}
=============================================================================
