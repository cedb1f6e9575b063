-------------------------- MODULE MCReceiptUploads --------------------------
(* Small instances of ReceiptUploads for TLC. *)
EXTENDS ReceiptUploads, TLC

(* Households, uploads and calls are named and nothing more. *)
Symmetry ==
  Permutations(Households) \cup Permutations(Uploads) \cup Permutations(Confirms)
=============================================================================
