----------------------------- MODULE MCEventLog -----------------------------
(* Small instances of EventLog for TLC. *)
EXTENDS EventLog, TLC

(* Requests, keys and households are named and nothing more. *)
Symmetry == Permutations(Requests) \cup Permutations(Keys)
              \cup Permutations(Households)
=============================================================================
