------------------------------ MODULE MCAccount ------------------------------
(* Account for TLC. *)
EXTENDS Account, TLC

(* Nothing tells one account from another. *)
Symmetry == Permutations(Owners)
=============================================================================
