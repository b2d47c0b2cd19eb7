---------------------------- MODULE MCFolderSync ----------------------------
(* Folder Sync for TLC: the policies a mapping may have. *)
EXTENDS FolderSync

Policy(direction, propagate, pause, adopt) ==
    [direction |-> direction, propagate_deletions |-> propagate,
     pause_on_conflicts |-> pause, adopt_matching_files |-> adopt]

Mirror == Policy("bidirectional", TRUE, FALSE, TRUE)
Backup == Policy("upload_only", FALSE, TRUE, FALSE)
RestoreOnly == Policy("download_only", TRUE, FALSE, FALSE)
TwoWay == Policy("bidirectional", FALSE, TRUE, FALSE)

AllPolicies == {Mirror, Backup, RestoreOnly}
TwoWayOnly == {TwoWay}
=============================================================================
