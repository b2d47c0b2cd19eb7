------------------------- MODULE MCResumableUpload -------------------------
(* Resumable uploads for TLC. *)
EXTENDS ResumableUpload, TLC

(* Two versions that differ in every part, so that no mixture is either.   *)
MCContents == {[p \in Parts |-> b] : b \in Bytes}
MCSymmetry == Permutations(Attempts) \cup Permutations(Bytes)
=============================================================================
