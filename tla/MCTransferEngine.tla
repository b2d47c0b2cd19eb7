-------------------------- MODULE MCTransferEngine --------------------------
(* Small instances of the transfer queue for TLC. *)
EXTENDS TransferEngine, TLC

CONSTANTS u1, u2, s1, d1, l1, alice, bob

(* u1, u2: the user's uploads; s1, d1: an upload and a download of Folder  *)
(* Sync; l1: a legacy import without an owner.                             *)
MCRequestOwner == [id \in Jobs |-> IF id = l1 THEN NoOwner ELSE alice]
MCInitialStatus == [id \in Jobs |-> "Pending"]
MCLimits == {[direction \in {"Upload", "Download"} |-> 1]}
MCTwoLimits == {[Upload |-> n, Download |-> 1] : n \in 1..2}
MCSymmetry == Permutations({u1, u2})
=============================================================================
