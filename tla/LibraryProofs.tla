--------------------------- MODULE LibraryProofs ---------------------------
(***************************************************************************)
(* Proofs about the user's library: the deletion grace period, downloads   *)
(* to disk, the scans of a folder and its inventory.  The four modules     *)
(* share no state; each has its own inductive invariant.                   *)
(***************************************************************************)
EXTENDS DeletionGrace, Download, FolderScan, FileInventory, FiniteSetTheorems, WellFoundedInduction, TLAPS

(***************************************************************************)
(* The deletion grace period, for every bound on the edits.                *)
(***************************************************************************)
(* A command that ends holds nothing, and is of the type of commands.      *)
LEMMA IdleIsCommand == Idle \in Commands
  BY VersionAssumption DEF VersionAssumption, Idle, Commands, Stages, MessageVersions

(* A change of stage keeps a command's type.                               *)
LEMMA StageIsCommand == ASSUME NEW c \in Commands, NEW a \in Stages PROVE [c EXCEPT !.at = a] \in Commands
  BY DEF Commands

(* A change of status keeps a removal's type.                              *)
LEMMA StatusIsRemoval == ASSUME NEW r \in Removals, NEW s \in RemovalStatuses PROVE [r EXCEPT !.status = s] \in Removals
  BY DEF Removals

(* The initial state, with the message posted and no removal, satisfies    *)
(* the inductive invariant.                                                *)
LEMMA GraceInitInv == GraceInit => GraceInv
<1> SUFFICES ASSUME GraceInit PROVE GraceInv
  OBVIOUS
<1>1. GraceTypeOK
  <2>1. posted \in MessageVersions
    BY VersionAssumption DEF VersionAssumption, GraceInit, MessageVersions
  <2>2. removal \in Removals
    BY VersionAssumption DEF VersionAssumption, GraceInit, Removals, RemovalStatuses, MessageVersions
  <2>3. command \in Commands /\ row \in BOOLEAN /\ killed \in BOOLEAN
    BY IdleIsCommand DEF GraceInit
  <2> QED
    BY <2>1, <2>2, <2>3 DEF GraceTypeOK
<1>2. GraceInv
  BY <1>1 DEF GraceInit, GraceInv, RestorableIsKept, DeletedIsGone, Idle
<1> QED
  BY <1>2

(* Scheduling and restoring (schedule, restore) keep the invariant: a      *)
(* removal that another command claimed is never put back to pending.      *)
LEMMA RequestsKeepInv == GraceInv /\ (ScheduleReads \/ ScheduleWrites \/ RestoreRemoval) => GraceInv'
<1> SUFFICES ASSUME GraceInv, ScheduleReads \/ ScheduleWrites \/ RestoreRemoval PROVE GraceInv'
  OBVIOUS
<1>1. CASE ScheduleReads
  <2>1. removal' \in Removals
    BY <1>1 DEF ScheduleReads, GraceInv, GraceTypeOK
  <2>2. command' \in Commands
    BY <1>1 DEF ScheduleReads, GraceInv, GraceTypeOK, Commands, Stages
  <2>3. posted' \in MessageVersions
    BY <1>1 DEF ScheduleReads, GraceInv, GraceTypeOK
  <2>4. row' \in BOOLEAN /\ killed' \in BOOLEAN
    BY <1>1 DEF ScheduleReads, GraceInv, GraceTypeOK
  <2>5. GraceTypeOK'
    BY <2>1, <2>2, <2>3, <2>4 DEF GraceTypeOK
  <2> QED
    BY <1>1, <2>5 DEF ScheduleReads, GraceInv, GraceTypeOK, Removals, Commands, RestorableIsKept, DeletedIsGone, Idle
<1>2. CASE ScheduleWrites
  <2>1. removal' \in Removals
    BY <1>2 DEF ScheduleWrites, GraceInv, GraceTypeOK, Removals, Commands, RemovalStatuses
  <2>2. command' \in Commands
    BY <1>2, IdleIsCommand DEF ScheduleWrites
  <2>3. posted' \in MessageVersions
    BY <1>2 DEF ScheduleWrites, GraceInv, GraceTypeOK
  <2>4. row' \in BOOLEAN /\ killed' \in BOOLEAN
    BY <1>2 DEF ScheduleWrites, GraceInv, GraceTypeOK
  <2>5. GraceTypeOK'
    BY <2>1, <2>2, <2>3, <2>4 DEF GraceTypeOK
  <2> QED
    BY <1>2, <2>5 DEF ScheduleWrites, GraceInv, GraceTypeOK, Removals, Commands, RestorableIsKept, DeletedIsGone, Idle
<1>3. CASE RestoreRemoval
  <2>1. removal' \in Removals
    BY <1>3, StatusIsRemoval DEF RestoreRemoval, GraceInv, GraceTypeOK, RemovalStatuses
  <2>2. command' \in Commands
    BY <1>3 DEF RestoreRemoval, GraceInv, GraceTypeOK
  <2>3. posted' \in MessageVersions
    BY <1>3 DEF RestoreRemoval, GraceInv, GraceTypeOK
  <2>4. row' \in BOOLEAN /\ killed' \in BOOLEAN
    BY <1>3 DEF RestoreRemoval, GraceInv, GraceTypeOK
  <2>5. GraceTypeOK'
    BY <2>1, <2>2, <2>3, <2>4 DEF GraceTypeOK
  <2> QED
    BY <1>3, <2>5 DEF RestoreRemoval, GraceInv, GraceTypeOK, Removals, Commands, RestorableIsKept, DeletedIsGone, Idle, MayRestore
<1> QED
  BY <1>1, <1>2, <1>3

(* The steps of process_one keep the invariant: the intent is on disk      *)
(* before the call, and the call's effect before the final status.         *)
LEMMA ProcessKeepsInv ==
  GraceInv /\ (FetchMessage \/ FileChanged \/ ClaimDelete \/ DeleteCall \/ DeleteAnswered \/ DeleteError
               \/ AbsentMessage \/ FinishDelete \/ CommandStops) => GraceInv'
<1> SUFFICES ASSUME GraceInv,
                    FetchMessage \/ FileChanged \/ ClaimDelete \/ DeleteCall \/ DeleteAnswered \/ DeleteError
                      \/ AbsentMessage \/ FinishDelete \/ CommandStops
             PROVE  GraceInv'
  OBVIOUS
<1>1. CASE FetchMessage
  <2>1. removal' \in Removals
    BY <1>1 DEF FetchMessage, GraceInv, GraceTypeOK
  <2>2. command' \in Commands
    BY <1>1 DEF FetchMessage, GraceInv, GraceTypeOK, Commands, Stages
  <2>3. posted' \in MessageVersions
    BY <1>1 DEF FetchMessage, GraceInv, GraceTypeOK
  <2>4. row' \in BOOLEAN /\ killed' \in BOOLEAN
    BY <1>1 DEF FetchMessage, GraceInv, GraceTypeOK
  <2>5. GraceTypeOK'
    BY <2>1, <2>2, <2>3, <2>4 DEF GraceTypeOK
  <2> QED
    BY <1>1, <2>5 DEF FetchMessage, GraceInv, GraceTypeOK, Removals, Commands, RestorableIsKept, DeletedIsGone, Idle, IsDue
<1>2. CASE FileChanged
  <2>1. removal' \in Removals
    BY <1>2, StatusIsRemoval DEF FileChanged, GraceInv, GraceTypeOK, RemovalStatuses
  <2>2. command' \in Commands
    BY <1>2, IdleIsCommand DEF FileChanged
  <2>3. posted' \in MessageVersions
    BY <1>2 DEF FileChanged, GraceInv, GraceTypeOK
  <2>4. row' \in BOOLEAN /\ killed' \in BOOLEAN
    BY <1>2 DEF FileChanged, GraceInv, GraceTypeOK
  <2>5. GraceTypeOK'
    BY <2>1, <2>2, <2>3, <2>4 DEF GraceTypeOK
  <2> QED
    BY <1>2, <2>5 DEF FileChanged, GraceInv, GraceTypeOK, Removals, Commands, RestorableIsKept, DeletedIsGone, Idle
<1>3. CASE ClaimDelete
  <2>1. removal' \in Removals
    BY <1>3, StatusIsRemoval DEF ClaimDelete, GraceInv, GraceTypeOK, RemovalStatuses
  <2>2. command' \in Commands
    BY <1>3, StageIsCommand DEF ClaimDelete, GraceInv, GraceTypeOK, Stages
  <2>3. posted' \in MessageVersions
    BY <1>3 DEF ClaimDelete, GraceInv, GraceTypeOK
  <2>4. row' \in BOOLEAN /\ killed' \in BOOLEAN
    BY <1>3 DEF ClaimDelete, GraceInv, GraceTypeOK
  <2>5. GraceTypeOK'
    BY <2>1, <2>2, <2>3, <2>4 DEF GraceTypeOK
  <2> QED
    BY <1>3, <2>5 DEF ClaimDelete, GraceInv, GraceTypeOK, Removals, Commands, RestorableIsKept, DeletedIsGone, Idle
<1>4. CASE DeleteCall
  <2>1. removal' \in Removals
    BY <1>4 DEF DeleteCall, GraceInv, GraceTypeOK
  <2>2. command' \in Commands
    BY <1>4, StageIsCommand DEF DeleteCall, GraceInv, GraceTypeOK, Stages
  <2>3. posted' \in MessageVersions
    BY <1>4, VersionAssumption DEF DeleteCall, GraceInv, GraceTypeOK, MessageVersions, VersionAssumption
  <2>4. row' \in BOOLEAN /\ killed' \in BOOLEAN
    BY <1>4 DEF DeleteCall, GraceInv, GraceTypeOK
  <2>5. GraceTypeOK'
    BY <2>1, <2>2, <2>3, <2>4 DEF GraceTypeOK
  <2> QED
    BY <1>4, <2>5 DEF DeleteCall, GraceInv, GraceTypeOK, Removals, Commands, RestorableIsKept, DeletedIsGone, Idle
<1>5. CASE DeleteAnswered
  <2>1. removal' \in Removals
    BY <1>5 DEF DeleteAnswered, GraceInv, GraceTypeOK
  <2>2. command' \in Commands
    BY <1>5, StageIsCommand DEF DeleteAnswered, GraceInv, GraceTypeOK, Stages
  <2>3. posted' \in MessageVersions
    BY <1>5 DEF DeleteAnswered, GraceInv, GraceTypeOK
  <2>4. row' \in BOOLEAN /\ killed' \in BOOLEAN
    BY <1>5 DEF DeleteAnswered, GraceInv, GraceTypeOK
  <2>5. GraceTypeOK'
    BY <2>1, <2>2, <2>3, <2>4 DEF GraceTypeOK
  <2> QED
    BY <1>5, <2>5 DEF DeleteAnswered, GraceInv, GraceTypeOK, Removals, Commands, RestorableIsKept, DeletedIsGone, Idle
<1>6. CASE DeleteError
  <2>1. removal' \in Removals
    BY <1>6 DEF DeleteError, GraceInv, GraceTypeOK
  <2>2. command' \in Commands
    BY <1>6, IdleIsCommand DEF DeleteError
  <2>3. posted' \in MessageVersions
    BY <1>6 DEF DeleteError, GraceInv, GraceTypeOK
  <2>4. row' \in BOOLEAN /\ killed' \in BOOLEAN
    BY <1>6 DEF DeleteError, GraceInv, GraceTypeOK
  <2>5. GraceTypeOK'
    BY <2>1, <2>2, <2>3, <2>4 DEF GraceTypeOK
  <2> QED
    BY <1>6, <2>5 DEF DeleteError, GraceInv, GraceTypeOK, Removals, Commands, RestorableIsKept, DeletedIsGone, Idle
<1>7. CASE AbsentMessage
  <2>1. removal' \in Removals
    BY <1>7 DEF AbsentMessage, GraceInv, GraceTypeOK
  <2>2. command' \in Commands
    BY <1>7, StageIsCommand DEF AbsentMessage, GraceInv, GraceTypeOK, Stages
  <2>3. posted' \in MessageVersions
    BY <1>7 DEF AbsentMessage, GraceInv, GraceTypeOK
  <2>4. row' \in BOOLEAN /\ killed' \in BOOLEAN
    BY <1>7 DEF AbsentMessage, GraceInv, GraceTypeOK
  <2>5. GraceTypeOK'
    BY <2>1, <2>2, <2>3, <2>4 DEF GraceTypeOK
  <2> QED
    BY <1>7, <2>5 DEF AbsentMessage, GraceInv, GraceTypeOK, Removals, Commands, RestorableIsKept, DeletedIsGone, Idle
<1>8. CASE FinishDelete
  <2>1. removal' \in Removals
    BY <1>8, StatusIsRemoval DEF FinishDelete, GraceInv, GraceTypeOK, RemovalStatuses
  <2>2. command' \in Commands
    BY <1>8, IdleIsCommand DEF FinishDelete
  <2>3. posted' \in MessageVersions
    BY <1>8 DEF FinishDelete, GraceInv, GraceTypeOK
  <2>4. row' \in BOOLEAN /\ killed' \in BOOLEAN
    BY <1>8 DEF FinishDelete, GraceInv, GraceTypeOK
  <2>5. GraceTypeOK'
    BY <2>1, <2>2, <2>3, <2>4 DEF GraceTypeOK
  <2> QED
    BY <1>8, <2>5 DEF FinishDelete, GraceInv, GraceTypeOK, Removals, Commands, RestorableIsKept, DeletedIsGone, Idle
<1>9. CASE CommandStops
  <2>1. removal' \in Removals
    BY <1>9 DEF CommandStops, GraceInv, GraceTypeOK
  <2>2. command' \in Commands
    BY <1>9, IdleIsCommand DEF CommandStops
  <2>3. posted' \in MessageVersions
    BY <1>9 DEF CommandStops, GraceInv, GraceTypeOK
  <2>4. row' \in BOOLEAN /\ killed' \in BOOLEAN
    BY <1>9 DEF CommandStops, GraceInv, GraceTypeOK
  <2>5. GraceTypeOK'
    BY <2>1, <2>2, <2>3, <2>4 DEF GraceTypeOK
  <2> QED
    BY <1>9, <2>5 DEF CommandStops, GraceInv, GraceTypeOK, Removals, Commands, RestorableIsKept, DeletedIsGone, Idle
<1> QED
  BY <1>1, <1>2, <1>3, <1>4, <1>5, <1>6, <1>7, <1>8, <1>9

(* The deadline and the other devices keep the invariant.                  *)
LEMMA EnvironmentKeepsInv == GraceInv /\ (DeadlinePasses \/ OtherDeviceEdits \/ OtherDeviceDeletes) => GraceInv'
<1> SUFFICES ASSUME GraceInv, DeadlinePasses \/ OtherDeviceEdits \/ OtherDeviceDeletes PROVE GraceInv'
  OBVIOUS
<1>1. CASE DeadlinePasses
  <2>1. removal' \in Removals
    BY <1>1 DEF DeadlinePasses, GraceInv, GraceTypeOK, Removals
  <2>2. command' \in Commands
    BY <1>1 DEF DeadlinePasses, GraceInv, GraceTypeOK
  <2>3. posted' \in MessageVersions
    BY <1>1 DEF DeadlinePasses, GraceInv, GraceTypeOK
  <2>4. row' \in BOOLEAN /\ killed' \in BOOLEAN
    BY <1>1 DEF DeadlinePasses, GraceInv, GraceTypeOK
  <2>5. GraceTypeOK'
    BY <2>1, <2>2, <2>3, <2>4 DEF GraceTypeOK
  <2> QED
    BY <1>1, <2>5 DEF DeadlinePasses, GraceInv, GraceTypeOK, Removals, Commands, RestorableIsKept, DeletedIsGone, Idle
<1>2. CASE OtherDeviceEdits
  <2>1. removal' \in Removals
    BY <1>2 DEF OtherDeviceEdits, GraceInv, GraceTypeOK
  <2>2. command' \in Commands
    BY <1>2 DEF OtherDeviceEdits, GraceInv, GraceTypeOK
  <2>3. posted' \in MessageVersions
    BY <1>2, VersionAssumption DEF OtherDeviceEdits, GraceInv, GraceTypeOK, MessageVersions, VersionAssumption
  <2>4. row' \in BOOLEAN /\ killed' \in BOOLEAN
    BY <1>2 DEF OtherDeviceEdits, GraceInv, GraceTypeOK
  <2>5. GraceTypeOK'
    BY <2>1, <2>2, <2>3, <2>4 DEF GraceTypeOK
  <2> QED
    BY <1>2, <2>5 DEF OtherDeviceEdits, GraceInv, GraceTypeOK, Removals, Commands, RestorableIsKept, DeletedIsGone, Idle
<1>3. CASE OtherDeviceDeletes
  <2>1. removal' \in Removals
    BY <1>3 DEF OtherDeviceDeletes, GraceInv, GraceTypeOK
  <2>2. command' \in Commands
    BY <1>3 DEF OtherDeviceDeletes, GraceInv, GraceTypeOK
  <2>3. posted' \in MessageVersions
    BY <1>3, VersionAssumption DEF OtherDeviceDeletes, GraceInv, GraceTypeOK, MessageVersions, VersionAssumption
  <2>4. row' \in BOOLEAN /\ killed' \in BOOLEAN
    BY <1>3 DEF OtherDeviceDeletes, GraceInv, GraceTypeOK
  <2>5. GraceTypeOK'
    BY <2>1, <2>2, <2>3, <2>4 DEF GraceTypeOK
  <2> QED
    BY <1>3, <2>5 DEF OtherDeviceDeletes, GraceInv, GraceTypeOK, Removals, Commands, RestorableIsKept, DeletedIsGone, Idle
<1> QED
  BY <1>1, <1>2, <1>3

(* GraceInv is an invariant of the grace period.                           *)
THEOREM GraceInvariant == GraceSpec => []GraceInv
<1>1. GraceInv /\ [GraceNext]_graceVars => GraceInv'
  <2> SUFFICES ASSUME GraceInv, [GraceNext]_graceVars PROVE GraceInv'
    OBVIOUS
  <2>1. CASE GraceNext
    BY <2>1, RequestsKeepInv, ProcessKeepsInv, EnvironmentKeepsInv DEF GraceNext
  <2>2. CASE UNCHANGED graceVars
    BY <2>2 DEF graceVars, GraceInv, GraceTypeOK, RestorableIsKept, DeletedIsGone
  <2> QED
    BY <2>1, <2>2
<1> QED
  BY GraceInitInv, <1>1, PTL DEF GraceSpec

(* A removal that may still be restored, or was, never lost its file to    *)
(* this program: cmd_cleanup_restore never promises what process_one may   *)
(* already have deleted.                                                   *)
THEOREM RestorableNeverDeleted == GraceSpec => []RestorableIsKept
<1>1. GraceInv => RestorableIsKept
  BY DEF GraceInv
<1> QED
  BY <1>1, GraceInvariant, PTL

(* The inventory gives up a file only when its message is gone.            *)
THEOREM DeletedOnlyWhenGone == GraceSpec => []DeletedIsGone
<1>1. GraceInv => DeletedIsGone
  BY DEF GraceInv
<1> QED
  BY <1>1, GraceInvariant, PTL

(* The message is posted and nothing is scheduled: the promise starts.     *)
LEMMA PromiseStarts == GraceInit => Promise!PromiseInit
  BY DEF GraceInit, Promise!PromiseInit, Fate

(* Scheduling offers a file or leaves its removal as it is; restoring      *)
(* takes it back.                                                          *)
LEMMA RequestsKeepPromise ==
  GraceInv /\ (ScheduleReads \/ ScheduleWrites \/ RestoreRemoval) => [Promise!PromiseNext]_(Promise!promiseVars)
<1> SUFFICES ASSUME GraceInv, ScheduleReads \/ ScheduleWrites \/ RestoreRemoval
             PROVE  [Promise!PromiseNext]_(Promise!promiseVars)
  OBVIOUS
<1>1. CASE ScheduleReads
  BY <1>1 DEF ScheduleReads, Fate, Promise!promiseVars
<1>2. CASE ScheduleWrites
  <2>1. CASE removal.status \in {"pending", "deleting"}
    BY <1>2, <2>1 DEF ScheduleWrites, Fate, Promise!promiseVars
  <2>2. CASE removal.status \notin {"pending", "deleting"}
    <3>1. removal.status # "deleted" /\ ~killed
      BY <1>2 DEF ScheduleWrites, GraceInv
    <3>2. removal'.status = "pending" /\ posted' = posted /\ killed' = killed
      BY <1>2, <2>2 DEF ScheduleWrites
    <3>3. Promise!Offer
      BY <2>2, <3>1, <3>2 DEF Promise!Offer, Fate
    <3> QED
      BY <3>3 DEF Promise!PromiseNext
  <2> QED
    BY <2>1, <2>2
<1>3. CASE RestoreRemoval
  <2>1. removal'.status = "restored" /\ posted' = posted /\ killed' = killed
    BY <1>3 DEF RestoreRemoval, GraceInv, GraceTypeOK, Removals
  <2>2. CASE removal.status = "pending"
    BY <2>1, <2>2 DEF Fate, Promise!TakeBack, Promise!PromiseNext
  <2>3. CASE removal.status = "failed"
    BY <2>1, <2>3 DEF Fate, Promise!promiseVars
  <2> QED
    BY <1>3, <2>2, <2>3 DEF RestoreRemoval, MayRestore
<1> QED
  BY <1>1, <1>2, <1>3

(* The steps of process_one: the claim condemns, a changed file is spared, *)
(* the call destroys, and the last transaction gives up what is gone.      *)
LEMMA ProcessKeepsPromise ==
  GraceInv /\ (FetchMessage \/ FileChanged \/ ClaimDelete \/ DeleteCall \/ DeleteAnswered \/ DeleteError
               \/ AbsentMessage \/ FinishDelete \/ CommandStops) => [Promise!PromiseNext]_(Promise!promiseVars)
<1> SUFFICES ASSUME GraceInv,
                    FetchMessage \/ FileChanged \/ ClaimDelete \/ DeleteCall \/ DeleteAnswered \/ DeleteError
                      \/ AbsentMessage \/ FinishDelete \/ CommandStops
             PROVE  [Promise!PromiseNext]_(Promise!promiseVars)
  OBVIOUS
<1>1. CASE FetchMessage \/ DeleteAnswered \/ DeleteError \/ AbsentMessage \/ CommandStops
  BY <1>1 DEF FetchMessage, DeleteAnswered, DeleteError, AbsentMessage, CommandStops, Fate, Promise!promiseVars
<1>2. CASE FileChanged
  <2>1. removal'.status = "failed" /\ posted' = posted /\ killed' = killed
    BY <1>2 DEF FileChanged, GraceInv, GraceTypeOK, Removals
  <2>2. removal.status \in {"pending", "deleting"} /\ ~killed
    BY <1>2 DEF FileChanged, GraceInv
  <2>3. Promise!TakeBack \/ Promise!Spare
    BY <2>1, <2>2 DEF Fate, Promise!TakeBack, Promise!Spare
  <2> QED
    BY <2>3 DEF Promise!PromiseNext
<1>3. CASE ClaimDelete
  <2>1. removal'.status = "deleting" /\ posted' = posted /\ killed' = killed
    BY <1>3 DEF ClaimDelete, GraceInv, GraceTypeOK, Removals
  <2>2. removal.status \in {"pending", "deleting"}
    BY <1>3 DEF ClaimDelete, GraceInv
  <2>3. CASE removal.status = "pending"
    BY <2>1, <2>3 DEF Fate, Promise!Condemn, Promise!PromiseNext
  <2>4. CASE removal.status = "deleting"
    BY <2>1, <2>4 DEF Fate, Promise!promiseVars
  <2> QED
    BY <2>2, <2>3, <2>4
<1>4. CASE DeleteCall
  <2>1. removal.status = "deleting" /\ removal' = removal /\ posted' = 0 /\ killed' = (killed \/ posted # 0)
    BY <1>4 DEF DeleteCall, GraceInv
  <2>2. CASE posted # 0
    BY <2>1, <2>2 DEF Fate, Promise!Destroy, Promise!PromiseNext
  <2>3. CASE posted = 0
    <3>1. killed' = killed
      BY <2>1, <2>3 DEF GraceInv, GraceTypeOK
    <3> QED
      BY <2>1, <2>3, <3>1 DEF Fate, Promise!promiseVars
  <2> QED
    BY <2>2, <2>3
<1>5. CASE FinishDelete
  <2>1. removal'.status = "deleted" /\ posted' = posted /\ killed' = killed
    BY <1>5 DEF FinishDelete, GraceInv, GraceTypeOK, Removals
  <2>2. removal.status \in {"pending", "deleting"} /\ posted = 0
    BY <1>5 DEF FinishDelete, GraceInv
  <2>3. Promise!GiveUp
    BY <2>1, <2>2 DEF Fate, Promise!GiveUp
  <2> QED
    BY <2>3 DEF Promise!PromiseNext
<1> QED
  BY <1>1, <1>2, <1>3, <1>4, <1>5

(* The deadline and an edit change nothing of the promise; a deletion by   *)
(* another device is the file's disappearance.                             *)
LEMMA EnvironmentKeepsPromise ==
  GraceInv /\ (DeadlinePasses \/ OtherDeviceEdits \/ OtherDeviceDeletes) => [Promise!PromiseNext]_(Promise!promiseVars)
<1> SUFFICES ASSUME GraceInv, DeadlinePasses \/ OtherDeviceEdits \/ OtherDeviceDeletes
             PROVE  [Promise!PromiseNext]_(Promise!promiseVars)
  OBVIOUS
<1>1. CASE DeadlinePasses
  <2>1. removal'.status = removal.status /\ posted' = posted /\ killed' = killed
    BY <1>1 DEF DeadlinePasses, GraceInv, GraceTypeOK, Removals
  <2> QED
    BY <2>1 DEF Fate, Promise!promiseVars
<1>2. CASE OtherDeviceEdits
  <2>1. posted # 0 /\ posted' # 0 /\ removal' = removal /\ killed' = killed
    BY <1>2, VersionAssumption DEF OtherDeviceEdits, VersionAssumption
  <2> QED
    BY <2>1 DEF Fate, Promise!promiseVars
<1>3. CASE OtherDeviceDeletes
  <2>1. posted # 0 /\ posted' = 0 /\ removal' = removal /\ killed' = killed
    BY <1>3 DEF OtherDeviceDeletes
  <2> QED
    BY <2>1 DEF Fate, Promise!Vanish, Promise!PromiseNext
<1> QED
  BY <1>1, <1>2, <1>3

(* The grace period implements RemovalPromise for every number of edits:   *)
(* whatever step schedule, restore or process_one stops at and whatever    *)
(* answer is lost, a file is destroyed only once its removal can no longer *)
(* be taken back, and given up only when it no longer exists.              *)
THEOREM GraceKeepsPromise == GraceSpec => KeepsPromise
<1>1. GraceInv /\ [GraceNext]_graceVars => [Promise!PromiseNext]_(Promise!promiseVars)
  <2> SUFFICES ASSUME GraceInv, [GraceNext]_graceVars PROVE [Promise!PromiseNext]_(Promise!promiseVars)
    OBVIOUS
  <2>1. CASE GraceNext
    BY <2>1, RequestsKeepPromise, ProcessKeepsPromise, EnvironmentKeepsPromise DEF GraceNext
  <2>2. CASE UNCHANGED graceVars
    BY <2>2 DEF graceVars, Fate, Promise!promiseVars
  <2> QED
    BY <2>1, <2>2
<1> QED
  BY PromiseStarts, GraceInvariant, <1>1, PTL DEF GraceSpec, KeepsPromise, Promise!PromiseSpec

(***************************************************************************)
(* Downloads.  SavedIsWhole needs what is known of a file while it is      *)
(* received: its chunks so far, in order, and the next one to ask for.     *)
(***************************************************************************)
Records ==
  [pc : {"new", "queued", "skipped", "open", "stream", "header", "publish", "done"},
   policy : Policies, path : FileNames, written : Seq(1 .. Chunks), next : Nat,
   budget : 0 .. Retries, session : 0 .. MaxVault, seen : SUBSET FileNames, index : 0 .. (MaxNames - 1)]

\* What the invariant says of one download's record.
Sound(d, j, part) ==
  /\ j \in Records
  /\ j.next = Len(j.written) + 1 /\ \A i \in DOMAIN j.written : j.written[i] = i
  /\ j.pc \in {"publish", "done"} /\ d \in Sized => Len(j.written) = Chunks
  /\ j.pc # "done" => j.path \in BaseNames
  /\ j.index # 0 => j.policy = "keepBoth" /\ j.pc = "publish"
  /\ j.pc \in Ended \cup {"queued", "new"} => ~part

LEMMA EachSound ==
  DownloadInv <=>
    /\ folder \in [FileNames -> Downloads \cup {"none", "other"}]
    /\ dl \in [Downloads -> Records]
    /\ \A d \in Downloads : Sound(d, dl[d], d \in partial)
    /\ partial \subseteq Downloads /\ downloadCancelled \subseteq Downloads
    /\ publication \in Downloads \cup {"free"} /\ downloadAccount \in BOOLEAN
    /\ vaults \in 0 .. MaxVault /\ vaultId \in 0 .. vaults
    /\ envelope \in [Downloads -> {"none", "probed", "authenticated"}]
BY DEF DownloadInv, DownloadTypeOK, SavedIsWhole, ReceivedInOrder, Sound, Records, Ended

\* The name without a number, and a numbered one.
LEMMA Names ==
  /\ <<>> \in BaseNames /\ BaseNames \subseteq FileNames /\ 0 \in 0 .. (MaxNames - 1) /\ 1 \in 1 .. Chunks
  /\ \A n \in BaseNames, i \in 0 .. (MaxNames - 1) : Sibling(n, i) \in FileNames
<1>1. MaxNames \in Nat \ {0} /\ Chunks \in Nat \ {0}
  BY DownloadAssumption
<1>2. 0 \in 0 .. (MaxNames - 1) /\ Sibling(<<>>, 0) = <<>> /\ 1 \in 1 .. Chunks
  BY <1>1 DEF Sibling
<1>3. <<>> \in BaseNames /\ BaseNames \subseteq FileNames
  BY <1>2 DEF BaseNames, FileNames
<1>4. ASSUME NEW n \in BaseNames, NEW i \in 0 .. (MaxNames - 1) PROVE Sibling(n, i) \in FileNames
  <2>1. CASE i = 0
    BY <2>1, <1>3 DEF Sibling
  <2>2. CASE i # 0
    <3>1. i \in Numbers
      BY <1>1, <2>2 DEF Numbers
    <3> QED BY <3>1 DEF FileNames
  <2> QED BY <2>1, <2>2
<1> QED BY <1>2, <1>3, <1>4

LEMMA NewRecord ==
  /\ Unqueued \in Records /\ Unqueued.pc = "new" /\ Unqueued.written = <<>> /\ Unqueued.next = 1 /\ Unqueued.index = 0
  /\ Unqueued.path \in BaseNames
<1>1. <<>> \in FileNames /\ <<>> \in BaseNames /\ 0 \in 0 .. (MaxNames - 1) /\ Retries \in 0 .. Retries /\ 0 \in 0 .. MaxVault
  BY Names, DownloadAssumption
<1>2. <<>> \in Seq(1 .. Chunks) /\ "keepBoth" \in Policies
  BY DEF Policies
<1> QED BY <1>1, <1>2 DEF Unqueued, Records

\* A record that waits, to be run for the first time or again.
LEMMA WaitingSound ==
  ASSUME NEW d \in Downloads, NEW policy \in Policies, NEW path \in BaseNames, NEW j,
         j = [Unqueued EXCEPT !.pc = "queued", !.policy = policy, !.path = path]
  PROVE  Sound(d, j, FALSE)
<1>1. path \in FileNames
  BY Names
<1>2. /\ j \in Records /\ j.pc = "queued" /\ j.path = path /\ j.written = <<>> /\ j.next = 1 /\ j.index = 0
  BY <1>1, NewRecord DEF Records
<1>3. Len(<<>>) = 0 /\ DOMAIN <<>> = {}
  OBVIOUS
<1> QED BY <1>2, <1>3 DEF Sound

LEMMA DownloadStarts == DownloadInit => DownloadInv
<1> SUFFICES ASSUME DownloadInit PROVE DownloadInv
  OBVIOUS
<1>1. Unqueued \in Records /\ \A d \in Downloads : Sound(d, Unqueued, FALSE)
  <2>1. Len(<<>>) = 0 /\ DOMAIN <<>> = {}
    OBVIOUS
  <2> QED BY <2>1, NewRecord DEF Sound
<1>2. folder \in [FileNames -> Downloads \cup {"none", "other"}]
  BY DEF DownloadInit
<1>3. dl \in [Downloads -> Records] /\ \A d \in Downloads : dl[d] = Unqueued /\ d \notin partial
  BY <1>1 DEF DownloadInit
<1>4. \A d \in Downloads : Sound(d, dl[d], d \in partial)
  BY <1>1, <1>3 DEF Sound
<1> QED BY <1>2, <1>3, <1>4, EachSound, DownloadAssumption DEF DownloadInit

\* One download moves on, to the record j.
LEMMA RecordMoves ==
  ASSUME DownloadInv, NEW d \in Downloads, NEW j, Sound(d, j, d \in partial'),
         dl' = [dl EXCEPT ![d] = j], partial' \subseteq Downloads, partial' \ {d} = partial \ {d},
         folder' \in [FileNames -> Downloads \cup {"none", "other"}], downloadCancelled' \subseteq Downloads,
         publication' \in Downloads \cup {"free"}, envelope' \in [Downloads -> {"none", "probed", "authenticated"}],
         UNCHANGED <<vaultId, vaults, downloadAccount>>
  PROVE  DownloadInv'
<1>1. /\ dl \in [Downloads -> Records] /\ j \in Records
      /\ \A e \in Downloads : Sound(e, dl[e], e \in partial)
  BY EachSound DEF Sound
<1>2. dl' \in [Downloads -> Records] /\ dl'[d] = j /\ \A e \in Downloads \ {d} : dl'[e] = dl[e]
  BY <1>1
<1>3. \A e \in Downloads : Sound(e, dl'[e], e \in partial')
  <2> TAKE e \in Downloads
  <2>1. CASE e = d
    BY <1>2, <2>1
  <2>2. CASE e # d
    <3>1. e \in partial' <=> e \in partial
      BY <2>2
    <3> QED BY <1>1, <1>2, <2>2, <3>1 DEF Sound
  <2> QED BY <2>1, <2>2
<1>4. /\ dl' \in [Downloads -> Records]
      /\ \A e \in Downloads : Sound(e, dl'[e], e \in partial')
      /\ vaults' \in 0 .. MaxVault /\ vaultId' \in 0 .. vaults' /\ downloadAccount' \in BOOLEAN
  BY <1>2, <1>3, EachSound
<1> QED BY <1>4 DEF DownloadInv, DownloadTypeOK, SavedIsWhole, ReceivedInOrder, Sound, Records, Ended

\* The command ends with an error: the record waits, the partial file is gone.
LEMMA FailSound ==
  ASSUME DownloadInv, NEW d \in Downloads, Fail(d), dl[d].pc # "done",
         folder' = folder, downloadCancelled' \subseteq Downloads, UNCHANGED <<vaultId, vaults, downloadAccount, envelope>>
  PROVE  DownloadInv'
<1>1. dl[d].policy \in Policies /\ dl[d].path \in BaseNames
  BY EachSound DEF Sound, Records
<1>0. PICK policy \in Policies, path \in BaseNames : policy = dl[d].policy /\ path = dl[d].path
  BY <1>1
<1>2. PICK j : j = [Unqueued EXCEPT !.pc = "queued", !.policy = policy, !.path = path]
  OBVIOUS
<1>5. Sound(d, j, FALSE)
  BY <1>2, WaitingSound
<1>3. dl' = [dl EXCEPT ![d] = j] /\ partial' = partial \ {d} /\ publication' \in {publication, "free"}
  BY <1>0, <1>2 DEF Fail
<1>4. Sound(d, j, d \in partial') /\ partial' \ {d} = partial \ {d}
  BY <1>5, <1>3 DEF Sound
<1> QED BY <1>3, <1>4, EachSound, RecordMoves

LEMMA DownloadFails ==
  ASSUME DownloadInv, NEW d \in Downloads,
         \/ HeaderRefused(d) \/ Cancelled(d) \/ Errs(d)
         \/ (ChunkFails(d) /\ Fail(d)) \/ (PublishCollides(d) /\ Fail(d))
  PROVE  DownloadInv'
<1>1. /\ Fail(d) /\ dl[d].pc # "done" /\ folder' = folder /\ downloadCancelled' \subseteq downloadCancelled
      /\ UNCHANGED <<vaultId, vaults, downloadAccount, envelope>>
  BY DEF HeaderRefused, Cancelled, Errs, ChunkFails, PublishCollides
<1> QED BY <1>1, FailSound, EachSound

\* Chunks arrive in order, each once.
LEMMA ReceiveSound ==
  ASSUME DownloadInv, NEW d \in Downloads, ReceiveChunk(d)
  PROVE  DownloadInv'
<1>1. /\ dl[d].pc = "stream" /\ dl[d].next <= Chunks
      /\ dl' = [dl EXCEPT ![d].written = Append(@, dl[d].next), ![d].next = @ + 1, ![d].budget = Retries,
                          ![d].pc = IF d \in Protected /\ dl[d].next = 1 THEN "header" ELSE "stream"]
      /\ UNCHANGED <<folder, partial, downloadCancelled, publication, vaultId, vaults, downloadAccount>>
  BY DEF ReceiveChunk
<1>2. dl \in [Downloads -> Records] /\ Sound(d, dl[d], d \in partial)
  BY EachSound
<1>3. /\ dl[d].written \in Seq(1 .. Chunks) /\ dl[d].next = Len(dl[d].written) + 1
      /\ dl[d].next \in 1 .. Chunks /\ Retries \in 0 .. Retries
  BY <1>1, <1>2, DownloadAssumption DEF Sound, Records
<1>4. PICK w : w = Append(dl[d].written, dl[d].next)
  OBVIOUS
<1>5. w \in Seq(1 .. Chunks) /\ Len(w) = dl[d].next /\ \A i \in DOMAIN w : w[i] = i
  BY <1>2, <1>3, <1>4 DEF Sound
<1>6. PICK pc \in {"header", "stream"} :
        dl' = [dl EXCEPT ![d].written = w, ![d].next = dl[d].next + 1, ![d].budget = Retries, ![d].pc = pc]
  BY <1>1, <1>2, <1>4
<1>14. PICK m \in Nat : m = dl[d].next + 1
  BY <1>3
<1>12. PICK k : k = [dl[d] EXCEPT !.written = w, !.next = m, !.budget = Retries]
  OBVIOUS
<1>13. /\ k \in Records /\ k.written = w /\ k.next = m /\ k.path = dl[d].path
       /\ k.policy = dl[d].policy /\ k.index = dl[d].index
  BY <1>2, <1>3, <1>5, <1>12 DEF Records
<1>7. PICK j : j = [k EXCEPT !.pc = pc]
  OBVIOUS
<1>8. dl' = [dl EXCEPT ![d] = j]
  BY <1>2, <1>6, <1>7, <1>12, <1>14
<1>9. /\ j \in Records /\ j.written = w /\ j.next = dl[d].next + 1 /\ j.pc = pc /\ j.path = dl[d].path
      /\ j.policy = dl[d].policy /\ j.index = dl[d].index
  BY <1>7, <1>13, <1>14 DEF Records
<1>10. Sound(d, j, d \in partial')
  BY <1>1, <1>2, <1>3, <1>5, <1>9 DEF Sound, Ended
<1>11. envelope' \in [Downloads -> {"none", "probed", "authenticated"}]
  BY EachSound DEF ReceiveChunk
<1> QED BY <1>1, <1>8, <1>10, <1>11, EachSound, RecordMoves

\* Steps of a download that only change what it waits for, or end it.
LEMMA StepSound ==
  ASSUME DownloadInv, NEW d \in Downloads,
         \/ \E p \in Policies : Queue(d, p)
         \/ SkipExisting(d) \/ OpenStream(d) \/ OpenProtected(d) \/ HeaderAuthenticated(d)
         \/ (ChunkFails(d) /\ ~Fail(d)) \/ PublishBegins(d) \/ PublishMoves(d)
         \/ (PublishCollides(d) /\ ~Fail(d))
  PROVE  DownloadInv'
<1>1. dl \in [Downloads -> Records] /\ Sound(d, dl[d], d \in partial) /\ dl[d] \in Records
  BY EachSound DEF Sound
<1>2. ASSUME NEW j, dl' = [dl EXCEPT ![d] = j], Sound(d, j, d \in partial'),
             partial' \in {partial, partial \cup {d}, partial \ {d}}, folder' = folder,
             downloadCancelled' \subseteq downloadCancelled, publication' \in {publication, "free", d},
             envelope' \in {envelope, [envelope EXCEPT ![d] = "authenticated"]},
             UNCHANGED <<vaultId, vaults, downloadAccount>>
      PROVE  DownloadInv'
  <2>1. /\ partial' \subseteq Downloads /\ partial' \ {d} = partial \ {d} /\ downloadCancelled' \subseteq Downloads
        /\ publication' \in Downloads \cup {"free"} /\ envelope' \in [Downloads -> {"none", "probed", "authenticated"}]
        /\ folder' \in [FileNames -> Downloads \cup {"none", "other"}]
    BY <1>2, EachSound
  <2> QED BY <1>2, <2>1, RecordMoves
<1>3. ASSUME NEW p \in Policies, Queue(d, p) PROVE DownloadInv'
  <2>1. PICK n \in BaseNames : dl' = [dl EXCEPT ![d].pc = "queued", ![d].policy = p, ![d].path = n]
    BY <1>3 DEF Queue, Reservable
  <2>2. PICK j : j = [dl[d] EXCEPT !.pc = "queued", !.policy = p, !.path = n]
    OBVIOUS
  <2>3. dl' = [dl EXCEPT ![d] = j] /\ dl[d].pc = "new" /\ partial' = partial
    BY <1>1, <1>3, <2>1, <2>2 DEF Queue
  <2>4. /\ j \in Records /\ j.pc = "queued" /\ j.policy = p /\ j.path = n /\ j.written = dl[d].written
        /\ j.next = dl[d].next /\ j.index = dl[d].index
    BY <1>1, <2>2, Names DEF Records
  <2>5. Sound(d, j, d \in partial')
    BY <1>1, <2>3, <2>4 DEF Sound, Ended
  <2> QED BY <1>2, <1>3, <2>3, <2>5 DEF Queue
<1>4. CASE SkipExisting(d)
  <2>1. PICK j : j = [dl[d] EXCEPT !.pc = "skipped"]
    OBVIOUS
  <2>2. dl' = [dl EXCEPT ![d] = j] /\ dl[d].pc = "queued" /\ partial' = partial
    BY <1>1, <1>4, <2>1 DEF SkipExisting
  <2>3. /\ j \in Records /\ j.pc = "skipped" /\ j.policy = dl[d].policy /\ j.path = dl[d].path /\ j.written = dl[d].written
        /\ j.next = dl[d].next /\ j.index = dl[d].index
    BY <1>1, <2>1 DEF Records
  <2>4. Sound(d, j, d \in partial')
    BY <1>1, <2>2, <2>3 DEF Sound, Ended
  <2> QED BY <1>2, <1>4, <2>2, <2>4 DEF SkipExisting
<1>5. CASE OpenStream(d) \/ OpenProtected(d) \/ HeaderAuthenticated(d)
  <2>1. PICK pc \in {"open", "stream"}, n \in 0 .. MaxVault : dl' = [dl EXCEPT ![d].pc = pc, ![d].session = n]
    <3>1. CASE OpenStream(d) \/ HeaderAuthenticated(d)
      <4>1. PICK pc \in {"open", "stream"} : dl' = [dl EXCEPT ![d].pc = pc]
        BY <3>1 DEF OpenStream, HeaderAuthenticated
      <4>2. PICK n \in 0 .. MaxVault : n = dl[d].session
        BY <1>1 DEF Records
      <4>3. [dl[d] EXCEPT !.pc = pc] = [dl[d] EXCEPT !.pc = pc, !.session = n]
        BY <1>1, <4>2 DEF Records
      <4> QED BY <1>1, <4>1, <4>3
    <3>2. CASE OpenProtected(d)
      <4>1. vaultId \in 0 .. MaxVault
        BY EachSound, DownloadAssumption
      <4> QED BY <3>2, <4>1 DEF OpenProtected
    <3> QED BY <1>5, <3>1, <3>2
  <2>2. PICK j : j = [dl[d] EXCEPT !.pc = pc, !.session = n]
    OBVIOUS
  <2>3. dl' = [dl EXCEPT ![d] = j] /\ dl[d].pc \in {"queued", "open", "header"}
    BY <1>1, <1>5, <2>1, <2>2 DEF OpenStream, OpenProtected, HeaderAuthenticated
  <2>4. /\ j \in Records /\ j.pc = pc /\ j.policy = dl[d].policy /\ j.path = dl[d].path /\ j.written = dl[d].written
        /\ j.next = dl[d].next /\ j.index = dl[d].index
    BY <1>1, <2>2 DEF Records
  <2>5. Sound(d, j, d \in partial')
    BY <1>1, <2>3, <2>4 DEF Sound, Ended
  <2>6. /\ partial' \in {partial, partial \cup {d}} /\ folder' = folder /\ downloadCancelled' \subseteq downloadCancelled
        /\ publication' = publication /\ envelope' \in {envelope, [envelope EXCEPT ![d] = "authenticated"]}
        /\ UNCHANGED <<vaultId, vaults, downloadAccount>>
    BY <1>5 DEF OpenStream, OpenProtected, HeaderAuthenticated, CreatePartial
  <2> QED BY <1>2, <2>3, <2>5, <2>6
<1>6. CASE ChunkFails(d) /\ ~Fail(d)
  <2>1. /\ dl[d].budget > 0 /\ dl[d].pc = "stream" /\ partial' = partial
        /\ dl' = [dl EXCEPT ![d].budget = @ - 1, ![d].next = ResumeAt(dl[d])]
    BY <1>6 DEF ChunkFails
  <2>2. /\ dl[d].written \in Seq(1 .. Chunks) /\ dl[d].budget - 1 \in 0 .. Retries /\ Len(dl[d].written) + 1 \in Nat
    BY <1>1, <2>1, DownloadAssumption DEF Records
  <2>3. PICK j : j = [dl[d] EXCEPT !.budget = dl[d].budget - 1, !.next = Len(dl[d].written) + 1]
    OBVIOUS
  <2>4. dl' = [dl EXCEPT ![d] = j]
    BY <1>1, <2>1, <2>3 DEF ResumeAt
  <2>5. /\ j \in Records /\ j.pc = dl[d].pc /\ j.policy = dl[d].policy /\ j.path = dl[d].path /\ j.written = dl[d].written
        /\ j.next = Len(dl[d].written) + 1 /\ j.index = dl[d].index
    BY <1>1, <2>2, <2>3 DEF Records
  <2>6. Sound(d, j, d \in partial')
    BY <1>1, <2>1, <2>5 DEF Sound, Ended
  <2> QED BY <1>2, <1>6, <2>1, <2>4, <2>6 DEF ChunkFails
<1>7. CASE PublishBegins(d)
  <2>1. /\ dl[d].pc = "stream" /\ partial' = partial /\ (d \in Sized => Len(dl[d].written) = Chunks)
        /\ dl' = [dl EXCEPT ![d].pc = "publish", ![d].seen = Existing, ![d].index = 0]
    BY <1>7 DEF PublishBegins, WholeEnough
  <2>2. Existing \in SUBSET FileNames /\ 0 \in 0 .. (MaxNames - 1)
    BY Names DEF Existing
  <2>3. PICK seen \in SUBSET FileNames : seen = Existing
    BY <2>2
  <2>4. PICK j : j = [dl[d] EXCEPT !.pc = "publish", !.seen = seen, !.index = 0]
    OBVIOUS
  <2>5. dl' = [dl EXCEPT ![d] = j]
    BY <1>1, <2>1, <2>3, <2>4
  <2>6. /\ j \in Records /\ j.pc = "publish" /\ j.policy = dl[d].policy /\ j.path = dl[d].path /\ j.written = dl[d].written
        /\ j.next = dl[d].next /\ j.index = 0
    BY <1>1, <2>2, <2>4 DEF Records
  <2>7. Sound(d, j, d \in partial')
    BY <1>1, <2>1, <2>6 DEF Sound, Ended
  <2> QED BY <1>2, <1>7, <2>5, <2>7 DEF PublishBegins
<1>8. CASE PublishMoves(d)
  <2>1. /\ dl[d].pc = "publish" /\ partial' = partial \ {d} /\ publication' = "free"
        /\ folder' = [folder EXCEPT ![Candidate(dl[d])] = d]
        /\ dl' = [dl EXCEPT ![d].pc = "done", ![d].path = Candidate(dl[d]), ![d].seen = {}, ![d].index = 0]
        /\ UNCHANGED <<downloadCancelled, vaultId, vaults, downloadAccount, envelope>>
    BY <1>8 DEF PublishMoves
  <2>2. PICK n \in FileNames : n = Candidate(dl[d])
    BY <1>1, <2>1, Names DEF Candidate, Sound, Records
  <2>3. PICK k : k = [dl[d] EXCEPT !.pc = "done", !.path = n]
    OBVIOUS
  <2>4. PICK j : j = [k EXCEPT !.seen = {}, !.index = 0]
    OBVIOUS
  <2>5. dl' = [dl EXCEPT ![d] = j]
    BY <1>1, <2>1, <2>2, <2>3, <2>4
  <2>6. /\ k \in Records /\ k.pc = "done" /\ k.written = dl[d].written /\ k.next = dl[d].next
    BY <1>1, <2>3 DEF Records
  <2>7. /\ j \in Records /\ j.pc = "done" /\ j.written = dl[d].written /\ j.next = dl[d].next /\ j.index = 0
    BY <2>4, <2>6, Names DEF Records
  <2>8. Sound(d, j, d \in partial')
    BY <1>1, <2>1, <2>7 DEF Sound, Ended
  <2>9. /\ folder' \in [FileNames -> Downloads \cup {"none", "other"}] /\ partial' \subseteq Downloads
        /\ partial' \ {d} = partial \ {d} /\ publication' \in Downloads \cup {"free"}
        /\ downloadCancelled' \subseteq Downloads /\ envelope' \in [Downloads -> {"none", "probed", "authenticated"}]
    BY <2>1, EachSound
  <2> QED BY <2>1, <2>5, <2>8, <2>9, RecordMoves
<1>9. CASE PublishCollides(d) /\ ~Fail(d)
  <2>1. CASE dl[d].policy = "skip"
    <3>1. PICK j : j = [dl[d] EXCEPT !.pc = "skipped", !.seen = {}]
      OBVIOUS
    <3>2. /\ dl' = [dl EXCEPT ![d].pc = "skipped", ![d].seen = {}] /\ partial' = partial \ {d} /\ publication' = "free"
          /\ UNCHANGED <<folder, downloadCancelled, vaultId, vaults, downloadAccount, envelope>>
      BY <1>9, <2>1 DEF PublishCollides
    <3>3. dl' = [dl EXCEPT ![d] = j]
      BY <1>1, <3>1, <3>2
    <3>4. /\ j \in Records /\ j.pc = "skipped" /\ j.policy = dl[d].policy /\ j.path = dl[d].path
          /\ j.written = dl[d].written /\ j.next = dl[d].next /\ j.index = dl[d].index
      BY <1>1, <3>1 DEF Records
    <3>5. Sound(d, j, d \in partial')
      BY <1>1, <2>1, <3>2, <3>4, <1>9 DEF Sound, Ended, PublishCollides
    <3> QED BY <1>2, <3>2, <3>3, <3>5
  <2>2. CASE dl[d].policy # "skip"
    <3>1. /\ dl[d].policy = "keepBoth" /\ dl[d].index + 1 < MaxNames /\ dl[d].pc = "publish"
          /\ dl' = [dl EXCEPT ![d].index = @ + 1] /\ UNCHANGED <<partial, publication>>
          /\ UNCHANGED <<folder, downloadCancelled, vaultId, vaults, downloadAccount, envelope>>
      BY <1>9, <2>2 DEF PublishCollides
    <3>2. dl[d].index + 1 \in 0 .. (MaxNames - 1)
      BY <1>1, <3>1, DownloadAssumption DEF Records
    <3>3. PICK j : j = [dl[d] EXCEPT !.index = dl[d].index + 1]
      OBVIOUS
    <3>4. dl' = [dl EXCEPT ![d] = j]
      BY <1>1, <3>1, <3>3
    <3>5. /\ j \in Records /\ j.pc = dl[d].pc /\ j.policy = dl[d].policy /\ j.path = dl[d].path
          /\ j.written = dl[d].written /\ j.next = dl[d].next
      BY <1>1, <3>2, <3>3 DEF Records
    <3>6. Sound(d, j, d \in partial')
      BY <1>1, <3>1, <3>5 DEF Sound, Ended
    <3> QED BY <1>2, <3>1, <3>4, <3>6
  <2> QED BY <2>1, <2>2
<1> QED BY <1>3, <1>4, <1>5, <1>6, <1>7, <1>8, <1>9

\* The rest of the world.
LEMMA WorldMoves ==
  ASSUME DownloadInv,
         \/ \E d \in Downloads : CancelDownload(d)
         \/ \E n \in BaseNames : OtherProgramWrites(n)
         \/ UnlockVault \/ LockVault \/ LeaveAccount
  PROVE  DownloadInv'
<1>1. /\ UNCHANGED <<dl, partial, publication, envelope>> /\ downloadCancelled' \subseteq Downloads
      /\ folder' \in [FileNames -> Downloads \cup {"none", "other"}]
  BY EachSound DEF CancelDownload, OtherProgramWrites, UnlockVault, LockVault, LeaveAccount
<1>2. vaults' \in 0 .. MaxVault /\ vaultId' \in 0 .. vaults'
  <2>1. vaults \in 0 .. MaxVault /\ vaultId \in 0 .. vaults /\ MaxVault \in Nat
    BY EachSound, DownloadAssumption
  <2> QED BY <2>1 DEF CancelDownload, OtherProgramWrites, UnlockVault, LockVault, LeaveAccount
<1>3. downloadAccount' \in BOOLEAN
  BY EachSound DEF CancelDownload, OtherProgramWrites, UnlockVault, LockVault, LeaveAccount
<1> QED
  BY <1>1, <1>2, <1>3 DEF DownloadInv, DownloadTypeOK, SavedIsWhole, ReceivedInOrder

LEMMA DownloadSteps == DownloadInv /\ [DownloadNext]_downloadVars => DownloadInv'
<1> SUFFICES ASSUME DownloadInv, [DownloadNext]_downloadVars PROVE DownloadInv'
  OBVIOUS
<1>1. CASE UNCHANGED downloadVars
  BY <1>1 DEF downloadVars, DownloadInv, DownloadTypeOK, SavedIsWhole, ReceivedInOrder, Existing
<1>2. CASE DownloadNext
  BY <1>2, DownloadFails, ReceiveSound, StepSound, WorldMoves DEF DownloadNext
<1> QED BY <1>1, <1>2

(***************************************************************************)
(* A file under its final name is the remote file, chunk by chunk, for any *)
(* number of downloads, chunks and retries (commands/fs.rs,                *)
(* PartialFileGuard).                                                      *)
(***************************************************************************)
THEOREM DownloadInvariant == DownloadSpec => []DownloadInv
BY DownloadStarts, DownloadSteps, PTL DEF DownloadSpec

(***************************************************************************)
(* Publication never replaces a file another program put there, but for an *)
(* explicit Replace of that very name (download_destination.rs:1).         *)
(***************************************************************************)
THEOREM NothingIsErased == DownloadSpec => NothingErased
<1>1. ASSUME DownloadInv, [DownloadNext]_downloadVars
      PROVE  [\A n \in FileNames :
                folder[n] # "none" /\ folder'[n] # folder[n] =>
                  \E d \in Downloads : folder'[n] = d /\ dl[d].policy = "replace" /\ dl[d].path = n]_downloadVars
  <2> SUFFICES ASSUME DownloadNext, NEW n \in FileNames, folder[n] # "none", folder'[n] # folder[n]
               PROVE  \E d \in Downloads : folder'[n] = d /\ dl[d].policy = "replace" /\ dl[d].path = n
    BY <1>1
  <2>1. PICK d \in Downloads : PublishMoves(d)
    <3>1. CASE \E m \in BaseNames : OtherProgramWrites(m)
      BY <3>1, <1>1, EachSound DEF OtherProgramWrites
    <3>2. CASE UNCHANGED folder
      BY <3>2
    <3> QED BY <3>1, <3>2 DEF DownloadNext, Queue, SkipExisting, OpenStream, OpenProtected, ReceiveChunk,
            HeaderAuthenticated, HeaderRefused, ChunkFails, Cancelled, Errs, PublishBegins, PublishCollides,
            CancelDownload, UnlockVault, LockVault, LeaveAccount
  <2>2. n = Candidate(dl[d]) /\ folder'[n] = d /\ Moves(dl[d])
    BY <1>1, <2>1, EachSound DEF PublishMoves
  <2>3. dl[d].policy = "replace"
    BY <2>2 DEF Moves, Existing
  <2>4. dl[d].path = n
    BY <1>1, <2>2, <2>3, EachSound DEF Sound, Candidate, Sibling
  <2> QED BY <2>2, <2>3, <2>4
<1> QED BY <1>1, DownloadStarts, DownloadSteps, PTL DEF DownloadSpec, NothingErased

(***************************************************************************)
(* Folder scans.  A scan is believed while its request is the current one  *)
(* and the account's revision is the one of its listing: TagsKept says     *)
(* what its tag means in the two tables until then, DeletionsKnown why a   *)
(* listing that may still be published knows of every applied deletion.    *)
(***************************************************************************)
Loads ==
  [pc : {"idle", "begin", "list", "scan", "chunk", "chunk2", "prune2", "done"},
   ticket : Nat, listing : [Ids -> 0 .. 2], left : SUBSET Ids, chunk : SUBSET Ids, whole : BOOLEAN]
FileRows == [version : 0 .. 2, scan : Scans \cup {"none", "activity"}]
ScanCommands ==
  [pc : {"none", "verify", "changed", "apply"}, kind : {"none", "delete", "rename", "move"}, ids : SUBSET Ids]

LEMMA ScanTypes ==
  ScanTypeOK <=>
    /\ atTelegram \in [Ids -> 0 .. 2] /\ target \subseteq Ids /\ dropped \subseteq Ids
    /\ commands \in 0 .. MaxCommands /\ account_rev \in Nat /\ account_rev + Owed <= 3 * commands
    /\ activeLoad \in Scans \cup {"none"}
    /\ wsRows \in [Ids -> FileRows] /\ invRows \in [Ids -> FileRows]
    /\ scanCommand \in ScanCommands
    /\ load \in [Scans -> Loads] /\ \A s \in Scans : load[s].ticket <= account_rev
<1>1. ASSUME account_rev \in Nat
      PROVE  load \in [Scans -> [pc : {"idle", "begin", "list", "scan", "chunk", "chunk2", "prune2", "done"},
                         ticket : 0 .. account_rev, listing : [Ids -> 0 .. 2], left : SUBSET Ids,
                         chunk : SUBSET Ids, whole : BOOLEAN]]
               <=> load \in [Scans -> Loads] /\ \A s \in Scans : load[s].ticket <= account_rev
  BY <1>1 DEF Loads
<1> QED BY <1>1 DEF ScanTypeOK, FileRows, ScanCommands

LEMMA NoLoads ==
  /\ \A p \in {"idle", "done"} :
       LET l == [NoLoad EXCEPT !.pc = p] IN
       l \in Loads /\ l.pc = p /\ l.ticket = 0 /\ l.left = {} /\ l.chunk = {}
  /\ NoLoad \in Loads /\ NoLoad.pc = "idle" /\ NoLoad.ticket = 0 /\ NoLoad.left = {} /\ NoLoad.chunk = {}
<1>1. /\ [i \in Ids |-> 0] \in [Ids -> 0 .. 2] /\ {} \in SUBSET Ids /\ 0 \in Nat /\ TRUE \in BOOLEAN
      /\ "idle" \in {"idle", "begin", "list", "scan", "chunk", "chunk2", "prune2", "done"}
  OBVIOUS
<1>2. NoLoad \in Loads
  BY <1>1, Zenon DEF NoLoad, Loads
<1>3. NoLoad.pc = "idle" /\ NoLoad.ticket = 0 /\ NoLoad.left = {} /\ NoLoad.chunk = {}
  BY DEF NoLoad
<1> QED BY <1>2, <1>3 DEF Loads

LEMMA NoRow == NoFileRow \in FileRows /\ NoFileRow.version = 0 /\ NoFileRow.scan = "none"
               /\ \A r \in FileRows : r.version = 0 /\ r.scan = "none" => r = NoFileRow
BY DEF NoFileRow, FileRows

LEMMA ScanStarts == ScanInit => ScanInv
<1> SUFFICES ASSUME ScanInit PROVE ScanInv
  OBVIOUS
<1>1. Owed = 0 /\ scanCommand \in ScanCommands
  BY DEF ScanInit, NoCommand, Owed, ScanCommands
<1>2. load \in [Scans -> Loads] /\ \A s \in Scans : load[s] = NoLoad
  BY NoLoads DEF ScanInit
<1>3. wsRows \in [Ids -> FileRows] /\ invRows \in [Ids -> FileRows] /\ \A i \in Ids : wsRows[i] = NoFileRow /\ invRows[i] = NoFileRow
  BY NoRow DEF ScanInit
<1>4. ScanTypeOK
  BY <1>1, <1>2, <1>3, NoLoads, ScanTypes, MaxCommandsAssumption DEF ScanInit
<1>5. RowsSound /\ DeletedStaysGone
  BY <1>3, NoRow DEF ScanInit, RowsSound, DeletedStaysGone
<1>6. DeletionsKnown
  BY <1>2, NoLoads DEF ScanInit, DeletionsKnown, NoCommand
<1>7. LocksHeld
  BY <1>2, <1>3, NoLoads, NoRow, TagsAssumption DEF LocksHeld
<1>8. TagsKept
  BY <1>2, NoLoads DEF TagsKept
<1> QED BY <1>4, <1>5, <1>6, <1>7, <1>8 DEF ScanInv

(***************************************************************************)
(* The commands.                                                           *)
(***************************************************************************)
\* A command that leaves the tables and the revision alone.
LEMMA CommandGoesOn ==
  ASSUME ScanInv,
         \/ \E i \in Ids : DeleteFile(i) \/ RenameFile(i) \/ OtherDeviceRemoves(i)
         \/ \E ids \in SUBSET Ids : ForwardFiles(ids)
         \/ DeleteOriginals \/ KeepOriginals \/ (ApplyFails /\ account_rev' = account_rev)
  PROVE  ScanInv'
<1>1. UNCHANGED <<account_rev, activeLoad, load, wsRows, invRows, dropped>>
  BY DEF DeleteFile, RenameFile, OtherDeviceRemoves, ForwardFiles, DeleteOriginals, KeepOriginals, ApplyFails, tables
<1>2. /\ atTelegram \in [Ids -> 0 .. 2] /\ commands \in 0 .. MaxCommands /\ MaxCommands \in Nat /\ account_rev \in Nat
      /\ scanCommand \in ScanCommands /\ account_rev + Owed <= 3 * commands /\ Owed \in 0 .. 3
      /\ (scanCommand.pc = "none" => Owed = 0) /\ (scanCommand.pc = "verify" => Owed = 3)
      /\ dropped \subseteq Ids /\ target \subseteq Ids
      /\ NoCommand \in ScanCommands /\ NoCommand.pc = "none"
  BY ScanTypes, MaxCommandsAssumption DEF ScanInv, Owed, NoCommand, ScanCommands
<1>3. /\ atTelegram' \in [Ids -> 0 .. 2] /\ target' \subseteq Ids
      /\ \A i \in Ids : atTelegram[i] = 0 => atTelegram'[i] = 0
  <2>1. CASE \E i \in Ids : DeleteFile(i) \/ RenameFile(i) \/ OtherDeviceRemoves(i)
    <3>1. PICK i \in Ids, v \in {0, 2} : atTelegram' = [atTelegram EXCEPT ![i] = v] /\ target' = target /\ atTelegram[i] # 0
      BY <2>1 DEF DeleteFile, RenameFile, OtherDeviceRemoves
    <3> QED BY <1>2, <3>1
  <2>2. CASE \E ids \in SUBSET Ids : ForwardFiles(ids)
    <3>1. atTelegram' = atTelegram /\ \E ids \in SUBSET Ids : \E copied \in SUBSET ids : target' = target \cup copied
      BY <2>2 DEF ForwardFiles
    <3> QED BY <1>2, <3>1
  <2>3. CASE DeleteOriginals
    <3>1. /\ target' = target
          /\ \/ atTelegram' = [i \in Ids |-> IF i \in scanCommand.ids THEN 0 ELSE atTelegram[i]]
             \/ atTelegram' = atTelegram
      BY <2>3 DEF DeleteOriginals
    <3> QED BY <1>2, <3>1
  <2>4. CASE KeepOriginals \/ ApplyFails
    BY <1>2, <2>4 DEF KeepOriginals, ApplyFails
  <2> QED BY <2>1, <2>2, <2>3, <2>4
<1>4. /\ scanCommand' \in ScanCommands /\ commands' \in 0 .. MaxCommands /\ account_rev' + Owed' <= 3 * commands'
      /\ (scanCommand'.pc \in {"changed", "apply"} /\ scanCommand'.kind # "rename" =>
            \A i \in scanCommand'.ids : atTelegram'[i] = 0)
  <2>1. CASE \E i \in Ids : DeleteFile(i) \/ RenameFile(i)
    <3>1. PICK i \in Ids, k \in {"delete", "rename"} :
            ScanCommanded(k, {i}) /\ (k = "delete" => atTelegram'[i] = 0)
      BY <1>2, <2>1 DEF DeleteFile, RenameFile
    <3>2. /\ scanCommand' = [pc |-> "changed", kind |-> k, ids |-> {i}] /\ commands' = commands + 1
          /\ commands < MaxCommands /\ scanCommand.pc = "none"
      BY <3>1, <1>2 DEF ScanCommanded
    <3>3. scanCommand' \in ScanCommands /\ Owed' = 3
      BY <3>2 DEF ScanCommands, Owed
    <3> QED BY <1>1, <1>2, <3>1, <3>2, <3>3
  <2>2. CASE \E i \in Ids : OtherDeviceRemoves(i)
    <3>1. scanCommand' = scanCommand /\ commands' = commands + 1 /\ commands < MaxCommands /\ Owed' = Owed
      BY <2>2 DEF OtherDeviceRemoves, Owed
    <3> QED BY <1>1, <1>2, <1>3, <3>1 DEF ScanInv, DeletionsKnown, ScanCommands
  <2>3. CASE \E ids \in SUBSET Ids : ForwardFiles(ids)
    <3>1. PICK ids \in SUBSET Ids : ForwardFiles(ids)
      BY <2>3
    <3>2. /\ scanCommand' = [pc |-> "verify", kind |-> "move", ids |-> ids] /\ commands' = commands + 1
          /\ commands < MaxCommands /\ scanCommand.pc = "none"
      BY <3>1, <1>2 DEF ForwardFiles
    <3>3. scanCommand' \in ScanCommands /\ Owed' = 3
      BY <3>2 DEF ScanCommands, Owed
    <3> QED BY <1>1, <1>2, <3>2, <3>3
  <2>4. CASE scanCommand' = NoCommand /\ commands' = commands
    <3>1. Owed' = 0
      BY <2>4, <1>2 DEF Owed
    <3> QED BY <1>1, <1>2, <2>4, <3>1
  <2>5. CASE DeleteOriginals /\ scanCommand' # NoCommand
    <3>1. /\ scanCommand' = [scanCommand EXCEPT !.pc = "changed"] /\ commands' = commands /\ scanCommand.pc = "verify"
          /\ atTelegram' = [i \in Ids |-> IF i \in scanCommand.ids THEN 0 ELSE atTelegram[i]]
      BY <2>5 DEF DeleteOriginals
    <3>2. /\ scanCommand' \in ScanCommands /\ Owed' = 3 /\ scanCommand'.ids = scanCommand.ids
          /\ scanCommand.ids \subseteq Ids
      BY <1>2, <3>1 DEF ScanCommands, Owed
    <3> QED BY <1>1, <1>2, <3>1, <3>2
  <2> QED BY <2>1, <2>2, <2>3, <2>4, <2>5 DEF DeleteOriginals, KeepOriginals, ApplyFails
<1>5. ScanTypeOK'
  BY <1>1, <1>3, <1>4, ScanTypes DEF ScanInv, ScanTypeOK, ScanCommands
<1>6. DeletionsKnown'
  BY <1>1, <1>2, <1>3, <1>4 DEF ScanInv, DeletionsKnown, LoadTicketHolds
<1> QED
  BY <1>1, <1>5, <1>6 DEF ScanInv, RowsSound, DeletedStaysGone, LocksHeld, TagsKept, Published, Current,
     LoadTicketHolds

\* The revision has moved on: no listing read so far holds its ticket any more.
LEMMA TicketsAreSpent ==
  ASSUME ScanTypeOK, account_rev' \in Nat, account_rev' > account_rev, load' = load
  PROVE  \A s \in Scans : load'[s].ticket <= account_rev' /\ ~LoadTicketHolds(s)'
BY ScanTypes DEF LoadTicketHolds, Loads

LEMMA RevisionMoves ==
  ASSUME ScanInv, RecordChanged \/ ApplyChange \/ (ApplyFails /\ account_rev' # account_rev)
  PROVE  ScanInv'
<1>1. /\ UNCHANGED <<atTelegram, target, activeLoad, load, invRows, commands>>
      /\ account_rev' \in {account_rev + 1, account_rev + 2}
  BY DEF RecordChanged, ApplyChange, ApplyFails, tables
<1>2. /\ commands \in 0 .. MaxCommands /\ MaxCommands \in Nat /\ account_rev \in Nat /\ scanCommand \in ScanCommands
      /\ account_rev + Owed <= 3 * commands /\ dropped \subseteq Ids /\ NoCommand \in ScanCommands /\ NoCommand.pc = "none"
      /\ wsRows \in [Ids -> FileRows] /\ load \in [Scans -> Loads]
      /\ (scanCommand.pc = "changed" => Owed = 3) /\ (scanCommand.pc = "apply" => Owed = 2)
  BY ScanTypes, MaxCommandsAssumption DEF ScanInv, Owed, NoCommand, ScanCommands
<1>3. account_rev' \in Nat /\ account_rev' > account_rev
  BY <1>1, <1>2
<1>4. \A s \in Scans : load'[s].ticket <= account_rev' /\ ~LoadTicketHolds(s)'
  BY <1>1, <1>3, TicketsAreSpent DEF ScanInv
<1>5. /\ scanCommand' \in ScanCommands /\ account_rev' + Owed' <= 3 * commands'
      /\ (scanCommand'.pc \in {"changed", "apply"} => scanCommand' = [scanCommand EXCEPT !.pc = "apply"] /\ scanCommand.pc = "changed")
  <2>1. CASE RecordChanged
    <3>1. scanCommand.pc = "changed" /\ scanCommand' = [scanCommand EXCEPT !.pc = "apply"] /\ account_rev' = account_rev + 1
      BY <2>1 DEF RecordChanged
    <3>2. scanCommand' \in ScanCommands /\ scanCommand'.pc = "apply"
      BY <1>2, <3>1 DEF ScanCommands
    <3>3. Owed' = 2
      BY <3>2 DEF Owed
    <3> QED BY <1>1, <1>2, <3>1, <3>2, <3>3
  <2>2. CASE ApplyChange \/ (ApplyFails /\ account_rev' # account_rev)
    <3>1. scanCommand.pc = "apply" /\ scanCommand' = NoCommand /\ account_rev' = account_rev + 2
      BY <1>2, <2>2 DEF ApplyChange, ApplyFails
    <3>2. Owed' = 0
      BY <1>2, <3>1 DEF Owed
    <3> QED BY <1>1, <1>2, <3>1, <3>2
  <2> QED BY <2>1, <2>2
<1>6. /\ wsRows' \in [Ids -> FileRows]
      /\ \A i \in Ids : wsRows'[i].version = 0 <=> wsRows'[i].scan = "none"
      /\ dropped' \subseteq Ids /\ \A i \in dropped' : wsRows'[i] = NoFileRow /\ atTelegram[i] = 0
      /\ \A i \in Ids : wsRows'[i].scan \in {wsRows[i].scan, "none"}
  <2>1. CASE wsRows' = wsRows /\ dropped' = dropped
    BY <1>2, <2>1 DEF ScanInv, RowsSound, DeletedStaysGone, DeletionsKnown
  <2>2. CASE ApplyChange
    <3>1. \A i \in Ids : /\ wsRows[i] \in FileRows
                         /\ wsRows[i].version = 0 <=> wsRows[i].scan = "none"
                         /\ (i \in dropped => wsRows[i] = NoFileRow)
      BY <1>2 DEF ScanInv, RowsSound, DeletedStaysGone
    <3>2. ASSUME NEW i \in Ids
          PROVE  LET r == [wsRows[i] EXCEPT !.version = 2] IN r \in FileRows /\ r.version = 2 /\ r.scan = wsRows[i].scan
      BY <3>1 DEF FileRows
    <3>3. wsRows' = [i \in Ids |->
                  IF i \notin scanCommand.ids \/ wsRows[i] = NoFileRow THEN wsRows[i]
                  ELSE IF scanCommand.kind = "rename" THEN [wsRows[i] EXCEPT !.version = 2] ELSE NoFileRow]
      BY <2>2 DEF ApplyChange
    <3>4. \A i \in Ids : /\ wsRows'[i] \in FileRows
                         /\ wsRows'[i].version = 0 <=> wsRows'[i].scan = "none"
                         /\ wsRows'[i].scan \in {wsRows[i].scan, "none"}
                         /\ (wsRows[i] = NoFileRow => wsRows'[i] = NoFileRow)
                         /\ (i \in scanCommand.ids /\ scanCommand.kind # "rename" => wsRows'[i] = NoFileRow)
      <4> TAKE i \in Ids
      <4>1. CASE wsRows'[i] = wsRows[i] /\ (i \notin scanCommand.ids \/ wsRows[i] = NoFileRow)
        BY <3>1, <4>1
      <4>2. CASE wsRows'[i] = NoFileRow
        BY <4>2, NoRow
      <4>3. CASE wsRows'[i] = [wsRows[i] EXCEPT !.version = 2] /\ wsRows[i] # NoFileRow /\ scanCommand.kind = "rename"
        <5>1. wsRows[i].scan # "none"
          BY <3>1, <4>3, NoRow
        <5> QED BY <3>1, <3>2, <4>3, <5>1
      <4> QED BY <3>3, <4>1, <4>2, <4>3
    <3>5. dropped' \subseteq Ids /\ \A i \in dropped' : i \in dropped \/ (i \in scanCommand.ids /\ scanCommand.kind # "rename")
      BY <1>2, <2>2 DEF ApplyChange, ScanCommands
    <3>6. scanCommand.pc = "apply"
      BY <2>2 DEF ApplyChange
    <3>7. \A i \in dropped' : wsRows'[i] = NoFileRow /\ atTelegram[i] = 0
      BY <3>1, <3>4, <3>5, <3>6, <1>2 DEF ScanInv, DeletionsKnown
    <3>8. wsRows' \in [Ids -> FileRows]
      BY <3>3, <3>4
    <3> QED BY <3>4, <3>5, <3>7, <3>8
  <2> QED BY <2>1, <2>2 DEF RecordChanged, ApplyFails, tables
<1>7. ScanTypeOK'
  BY <1>1, <1>2, <1>3, <1>4, <1>5, <1>6, ScanTypes DEF ScanInv, ScanTypeOK, ScanCommands, FileRows, Loads
<1>8. RowsSound' /\ DeletedStaysGone'
  BY <1>1, <1>6 DEF ScanInv, RowsSound, DeletedStaysGone
<1>9. DeletionsKnown'
  <2>1. \A i \in dropped' : atTelegram'[i] = 0
    BY <1>1, <1>6
  <2>2. ASSUME scanCommand'.pc \in {"changed", "apply"}, scanCommand'.kind # "rename"
        PROVE  \A i \in scanCommand'.ids : atTelegram'[i] = 0
    <3>1. scanCommand' = [scanCommand EXCEPT !.pc = "apply"] /\ scanCommand.pc = "changed"
      BY <1>5, <2>2
    <3>2. scanCommand'.kind = scanCommand.kind /\ scanCommand'.ids = scanCommand.ids
      BY <1>2, <3>1 DEF ScanCommands
    <3> QED BY <1>1, <2>2, <3>1, <3>2 DEF ScanInv, DeletionsKnown
  <2> QED BY <1>4, <2>1, <2>2 DEF DeletionsKnown
<1>10. LocksHeld'
  <2>1. ASSUME NEW s \in Scans, load[s].pc \in {"idle", "begin", "list"}, NEW i \in Ids
        PROVE  wsRows'[i].scan # s /\ invRows[i].scan # s
    BY <1>6, <2>1, TagsAssumption DEF ScanInv, LocksHeld
  <2> QED BY <1>1, <2>1 DEF ScanInv, LocksHeld, Current
<1>11. TagsKept'
  BY <1>4 DEF TagsKept
<1> QED BY <1>7, <1>8, <1>9, <1>10, <1>11 DEF ScanInv

LEMMA RememberKeeps ==
  ASSUME ScanInv, NEW i \in Ids, RememberLocalFile(i)
  PROVE  ScanInv'
<1>1. /\ UNCHANGED <<atTelegram, target, account_rev, activeLoad, load, scanCommand, invRows>>
      /\ commands < MaxCommands /\ commands' = commands + 1 /\ dropped' = dropped \ {i}
  BY DEF RememberLocalFile
<1>2. /\ commands \in 0 .. MaxCommands /\ MaxCommands \in Nat /\ account_rev \in Nat /\ Owed' = Owed /\ Owed \in 0 .. 3
      /\ account_rev + Owed <= 3 * commands /\ wsRows \in [Ids -> FileRows] /\ dropped \subseteq Ids
  BY <1>1, ScanTypes, MaxCommandsAssumption DEF ScanInv, Owed
<1>3. PICK v \in {1, 2} :
        wsRows' = [wsRows EXCEPT ![i] = [version |-> v, scan |-> IF @ = NoFileRow THEN "activity" ELSE @.scan]]
  BY DEF RememberLocalFile
<1>4. PICK t : t = IF wsRows[i] = NoFileRow THEN "activity" ELSE wsRows[i].scan
  OBVIOUS
<1>5. /\ t \in Scans \cup {"activity"} /\ t # "none" /\ (t # "activity" => t = wsRows[i].scan)
  <2>1. wsRows[i] \in FileRows /\ (wsRows[i].version = 0 <=> wsRows[i].scan = "none")
    BY <1>2 DEF ScanInv, RowsSound
  <2> QED BY <1>4, <2>1, NoRow, TagsAssumption DEF FileRows
<1>6. wsRows' = [wsRows EXCEPT ![i] = [version |-> v, scan |-> t]]
  BY <1>3, <1>4, <1>2
<1>7. /\ wsRows' \in [Ids -> FileRows] /\ wsRows'[i].version = v /\ wsRows'[i].scan = t
      /\ \A j \in Ids \ {i} : wsRows'[j] = wsRows[j]
  <2>1. [version |-> v, scan |-> t] \in FileRows
    BY <1>5 DEF FileRows
  <2> QED BY <1>2, <1>6, <2>1
<1>8. \A s \in Scans : \A j \in Ids : wsRows'[j].scan = s <=> wsRows[j].scan = s
  <2>1. ASSUME NEW s \in Scans PROVE wsRows'[i].scan = s <=> wsRows[i].scan = s
    <3>1. s # "none" /\ s # "activity"
      BY TagsAssumption
    <3>2. CASE wsRows[i] = NoFileRow
      BY <1>4, <1>7, <3>1, <3>2, NoRow
    <3>3. CASE wsRows[i] # NoFileRow
      BY <1>4, <1>7, <3>3
    <3> QED BY <3>2, <3>3
  <2> QED BY <1>7, <2>1
<1>9. ScanTypeOK'
  BY <1>1, <1>2, <1>7, ScanTypes DEF ScanInv, ScanTypeOK, FileRows
<1>10. RowsSound' /\ DeletedStaysGone'
  BY <1>1, <1>2, <1>5, <1>7 DEF ScanInv, RowsSound, DeletedStaysGone
<1>11. DeletionsKnown'
  BY <1>1 DEF ScanInv, DeletionsKnown, LoadTicketHolds
<1>12. LocksHeld'
  BY <1>1, <1>8 DEF ScanInv, LocksHeld, Current
<1>13. TagsKept'
  BY <1>1, <1>8 DEF ScanInv, TagsKept, Published, Current, LoadTicketHolds
<1> QED BY <1>9, <1>10, <1>11, <1>12, <1>13 DEF ScanInv

(***************************************************************************)
(* The steps of a scan.  LoadSound is what ScanInv says of one of them.    *)
(***************************************************************************)
Scanning == {"scan", "chunk", "chunk2", "prune2"}

LoadSound(s) ==
  /\ load[s].pc \in Scanning /\ LoadTicketHolds(s) => \A i \in dropped : load[s].listing[i] = 0
  /\ load[s].pc \in {"chunk2", "prune2"} => Current(s)
  /\ load[s].left \cup load[s].chunk \subseteq {i \in Ids : load[s].listing[i] # 0}
  /\ load[s].chunk \subseteq IF load[s].pc \in {"chunk", "chunk2"} THEN load[s].left ELSE {}
  /\ load[s].pc = "prune2" => load[s].left = {}
  /\ load[s].pc \in {"idle", "begin", "list"} => \A i \in Ids : wsRows[i].scan # s /\ invRows[i].scan # s
  /\ load[s].pc \in Scanning /\ Current(s) /\ LoadTicketHolds(s) =>
       /\ Published(s, wsRows, IF load[s].pc = "chunk2" THEN load[s].left \ load[s].chunk ELSE load[s].left)
       /\ Published(s, invRows, load[s].left)
       /\ \A i \in Ids : invRows[i].scan = s => invRows[i].version = load[s].listing[i]
       /\ load[s].pc = "prune2" => \A i \in Ids : invRows[i].scan \in {s, "none"}

LEMMA EachLoadSound == ScanInv => \A s \in Scans : LoadSound(s)
BY DEF ScanInv, DeletionsKnown, LocksHeld, TagsKept, LoadSound, Scanning

\* Another scan's step: the request it replaces or ends is no other's, and a
\* scan that writes the tables is the current one.
LEMMA OtherLoadKept ==
  ASSUME ScanInv, NEW s \in Scans, NEW t \in Scans \ {s}, UNCHANGED folderVars, load'[t] = load[t],
         activeLoad' = t => activeLoad = t,
         load[t].pc \in {"chunk2", "prune2"} => activeLoad' = activeLoad \/ activeLoad = s,
         \/ UNCHANGED tables
         \/ /\ Current(s)
            /\ \A i \in Ids : /\ wsRows'[i].scan \in {wsRows[i].scan, s, "none"}
                              /\ invRows'[i].scan \in {invRows[i].scan, s, "none"}
  PROVE  LoadSound(t)'
<1>1. LoadSound(t) /\ t # s /\ t # "none" /\ UNCHANGED <<dropped, account_rev>>
  BY EachLoadSound, TagsAssumption DEF folderVars
<1>2. CASE UNCHANGED tables
  BY <1>1, <1>2 DEF LoadSound, tables, Current, LoadTicketHolds, Published
<1>3. CASE /\ Current(s)
           /\ \A i \in Ids : /\ wsRows'[i].scan \in {wsRows[i].scan, s, "none"}
                             /\ invRows'[i].scan \in {invRows[i].scan, s, "none"}
  <2>1. ~Current(t) /\ ~Current(t)' /\ load[t].pc \notin {"chunk2", "prune2"}
    BY <1>1, <1>3 DEF Current, LoadSound
  <2> QED BY <1>1, <1>3, <2>1 DEF LoadSound, LoadTicketHolds
<1> QED BY <1>2, <1>3

LEMMA ScanStepKeeps ==
  ASSUME ScanInv, NEW s \in Scans, UNCHANGED folderVars,
         load' \in [Scans -> Loads], load'[s].ticket <= account_rev,
         \A t \in Scans \ {s} : load'[t] = load[t] /\ LoadSound(t)',
         activeLoad' \in Scans \cup {"none"},
         wsRows' \in [Ids -> FileRows], invRows' \in [Ids -> FileRows],
         RowsSound', DeletedStaysGone', LoadSound(s)'
  PROVE  ScanInv'
<1>1. UNCHANGED <<atTelegram, target, account_rev, scanCommand, commands, dropped>>
  BY DEF folderVars
<1>2. \A t \in Scans : LoadSound(t)' /\ load'[t].ticket <= account_rev'
  BY <1>1, ScanTypes DEF ScanInv
<1>3. account_rev' \in Nat /\ Owed' = Owed
  BY <1>1, ScanTypes DEF ScanInv, Owed
<1>4. load' \in [Scans -> [pc : {"idle", "begin", "list", "scan", "chunk", "chunk2", "prune2", "done"},
                         ticket : 0 .. account_rev', listing : [Ids -> 0 .. 2], left : SUBSET Ids,
                         chunk : SUBSET Ids, whole : BOOLEAN]]
  BY <1>2, <1>3 DEF Loads
<1>5. ScanTypeOK'
  BY <1>1, <1>3, <1>4 DEF ScanInv, ScanTypeOK, FileRows
<1>6. DeletionsKnown' /\ LocksHeld' /\ TagsKept'
  <2>1. DeletionsKnown'
    BY <1>1, <1>2 DEF ScanInv, DeletionsKnown, LoadSound, Scanning
  <2>2. LocksHeld'
    BY <1>2 DEF LocksHeld, LoadSound
  <2>3. TagsKept'
    BY <1>2 DEF TagsKept, LoadSound, Scanning
  <2> QED BY <2>1, <2>2, <2>3
<1> QED BY <1>5, <1>6 DEF ScanInv

\* The steps that leave the tables alone.
LEMMA Looks ==
  ASSUME ScanInv, NEW s \in Scans, NEW l \in Loads, UNCHANGED folderVars, UNCHANGED tables,
         load' = [load EXCEPT ![s] = l], l.ticket <= account_rev, activeLoad' \in Scans \cup {"none"},
         \A t \in Scans \ {s} : /\ activeLoad' = t => activeLoad = t
                                /\ load[t].pc \in {"chunk2", "prune2"} => activeLoad' = activeLoad \/ activeLoad = s,
         LoadSound(s)'
  PROVE  ScanInv'
<1>1. load \in [Scans -> Loads] /\ wsRows \in [Ids -> FileRows] /\ invRows \in [Ids -> FileRows]
  BY ScanTypes DEF ScanInv
<1>2. load' \in [Scans -> Loads] /\ load'[s] = l /\ \A t \in Scans \ {s} : load'[t] = load[t]
  BY <1>1
<1>3. \A t \in Scans \ {s} : LoadSound(t)'
  BY <1>2, OtherLoadKept
<1>4. wsRows' \in [Ids -> FileRows] /\ invRows' \in [Ids -> FileRows] /\ RowsSound' /\ DeletedStaysGone'
  BY <1>1 DEF tables, ScanInv, RowsSound, DeletedStaysGone, folderVars
<1> QED BY <1>2, <1>3, <1>4, ScanStepKeeps

LEMMA Leaves ==
  ASSUME ScanInv, NEW s \in Scans, NEW pc \in {"idle", "done"}, pc = "done", Leave(s, pc),
         UNCHANGED folderVars, UNCHANGED tables
  PROVE  ScanInv'
<1>1. PICK l : l = [NoLoad EXCEPT !.pc = pc]
  OBVIOUS
<1>2. l \in Loads /\ l.pc = "done" /\ l.ticket = 0 /\ l.left = {} /\ l.chunk = {}
  BY <1>1, NoLoads
<1>3. load \in [Scans -> Loads] /\ account_rev \in Nat /\ activeLoad \in Scans \cup {"none"}
  BY ScanTypes DEF ScanInv
<1>4. load' = [load EXCEPT ![s] = l] /\ load'[s] = l /\ activeLoad' = IF activeLoad = s THEN "none" ELSE activeLoad
  BY <1>1, <1>3 DEF Leave, Current
<1>5. LoadSound(s)'
  BY <1>2, <1>4 DEF LoadSound, Scanning
<1>6. \A t \in Scans \ {s} : /\ activeLoad' = t => activeLoad = t
                             /\ load[t].pc \in {"chunk2", "prune2"} => activeLoad' = activeLoad \/ activeLoad = s
  BY <1>4, TagsAssumption
<1>7. activeLoad' \in Scans \cup {"none"} /\ l.ticket <= account_rev
  BY <1>2, <1>3, <1>4
<1> QED BY <1>2, <1>4, <1>5, <1>6, <1>7, Looks

LEMMA RegisterKeeps ==
  ASSUME ScanInv, NEW s \in Scans, Register(s)
  PROVE  ScanInv'
<1>1. load \in [Scans -> Loads] /\ load[s] \in Loads /\ load[s].ticket <= account_rev /\ LoadSound(s)
  BY ScanTypes, EachLoadSound DEF ScanInv
<1>2. PICK l : l = [load[s] EXCEPT !.pc = "begin"]
  OBVIOUS
<1>3. /\ l \in Loads /\ l.pc = "begin" /\ l.ticket = load[s].ticket /\ l.listing = load[s].listing
      /\ l.left = load[s].left /\ l.chunk = load[s].chunk /\ load[s].pc = "idle"
      /\ activeLoad' = s /\ UNCHANGED folderVars /\ UNCHANGED tables
  BY <1>1, <1>2 DEF Loads, Register
<1>4. load' = [load EXCEPT ![s] = l] /\ load'[s] = l
  BY <1>1, <1>2 DEF Register
<1>5. LoadSound(s)'
  BY <1>1, <1>3, <1>4 DEF LoadSound, Scanning, tables
<1>6. \A t \in Scans \ {s} : /\ activeLoad' = t => activeLoad = t
                             /\ load[t].pc \in {"chunk2", "prune2"} => activeLoad' = activeLoad \/ activeLoad = s
  BY <1>3 DEF Register, WriteLockFree, ReadLockFree
<1>7. activeLoad' \in Scans \cup {"none"} /\ l.ticket <= account_rev
  BY <1>1, <1>3
<1> QED BY <1>3, <1>4, <1>5, <1>6, <1>7, Looks

LEMMA ListingKeeps ==
  ASSUME ScanInv, NEW s \in Scans, BeginListing(s) \/ ReadListing(s) \/ CollectChunk(s)
  PROVE  ScanInv'
<1>1. /\ load \in [Scans -> Loads] /\ load[s] \in Loads /\ load[s].ticket <= account_rev /\ LoadSound(s)
      /\ account_rev \in Nat /\ atTelegram \in [Ids -> 0 .. 2] /\ activeLoad \in Scans \cup {"none"}
      /\ \A i \in dropped : i \in Ids /\ atTelegram[i] = 0
  BY ScanTypes, EachLoadSound DEF ScanInv, DeletionsKnown
<1>2. /\ UNCHANGED folderVars /\ UNCHANGED tables /\ activeLoad' = activeLoad
      /\ UNCHANGED <<account_rev, dropped, wsRows, invRows>>
  BY DEF BeginListing, ReadListing, CollectChunk, folderVars, tables
<1>3. \A t \in Scans \ {s} : /\ activeLoad' = t => activeLoad = t
                             /\ load[t].pc \in {"chunk2", "prune2"} => activeLoad' = activeLoad \/ activeLoad = s
  BY <1>2
<1>4. CASE BeginListing(s)
  <2>1. PICK l : l = [load[s] EXCEPT !.pc = "list", !.ticket = account_rev]
    OBVIOUS
  <2>2. /\ l \in Loads /\ l.pc = "list" /\ l.ticket = account_rev /\ l.listing = load[s].listing
        /\ l.left = load[s].left /\ l.chunk = load[s].chunk /\ load[s].pc = "begin"
    BY <1>1, <1>4, <2>1 DEF Loads, BeginListing
  <2>3. load' = [load EXCEPT ![s] = l] /\ load'[s] = l
    BY <1>1, <1>4, <2>1 DEF BeginListing
  <2>4. LoadSound(s)'
    BY <1>1, <1>2, <2>2, <2>3 DEF LoadSound, Scanning
  <2>5. l.ticket <= account_rev /\ activeLoad' \in Scans \cup {"none"} /\ l \in Loads
    BY <1>1, <1>2, <2>2
  <2> QED BY <1>2, <1>3, <2>3, <2>4, <2>5, Looks
<1>5. CASE ReadListing(s)
  <2>1. PICK left \in SUBSET Ids, whole \in BOOLEAN :
          /\ left = {i \in Ids : atTelegram[i] # 0} /\ load[s].pc = "list"
          /\ load' = [load EXCEPT ![s].pc = "scan", ![s].listing = atTelegram, ![s].whole = whole, ![s].left = left]
    BY <1>5 DEF ReadListing
  <2>2. PICK k : k = [load[s] EXCEPT !.pc = "scan", !.listing = atTelegram, !.whole = whole]
    OBVIOUS
  <2>3. k \in Loads /\ k.pc = "scan" /\ k.ticket = load[s].ticket /\ k.listing = atTelegram /\ k.chunk = load[s].chunk
    BY <1>1, <2>2 DEF Loads
  <2>4. PICK l : l = [k EXCEPT !.left = left]
    OBVIOUS
  <2>5. l \in Loads /\ l.pc = "scan" /\ l.ticket = load[s].ticket /\ l.listing = atTelegram /\ l.chunk = {} /\ l.left = left
    BY <1>1, <2>1, <2>3, <2>4 DEF Loads, LoadSound
  <2>6. load' = [load EXCEPT ![s] = l] /\ load'[s] = l
    BY <1>1, <2>1, <2>2, <2>4 DEF Loads
  <2>7. LoadSound(s)'
    BY <1>1, <1>2, <2>1, <2>5, <2>6 DEF LoadSound, Scanning, Published
  <2> QED BY <1>1, <1>2, <1>3, <2>5, <2>6, <2>7, Looks
<1>6. CASE CollectChunk(s)
  <2>1. PICK c \in SUBSET load[s].left : load' = [load EXCEPT ![s].pc = "chunk", ![s].chunk = c] /\ load[s].pc = "scan"
    BY <1>6 DEF CollectChunk
  <2>2. PICK l : l = [load[s] EXCEPT !.pc = "chunk", !.chunk = c]
    OBVIOUS
  <2>3. /\ l \in Loads /\ l.pc = "chunk" /\ l.ticket = load[s].ticket /\ l.listing = load[s].listing
        /\ l.left = load[s].left /\ l.chunk = c
    BY <1>1, <2>1, <2>2 DEF Loads
  <2>4. load' = [load EXCEPT ![s] = l] /\ load'[s] = l
    BY <1>1, <2>1, <2>2
  <2>5. LoadSound(s)'
    BY <1>1, <1>2, <2>1, <2>3, <2>4 DEF LoadSound, Scanning, Published, Current, LoadTicketHolds
  <2> QED BY <1>1, <1>2, <1>3, <2>3, <2>4, <2>5, Looks
<1> QED BY <1>4, <1>5, <1>6

\* The steps that write the tables.
LEMMA RecordKeeps ==
  ASSUME ScanInv, NEW s \in Scans, RecordChunk(s) \/ UpsertInventoryChunk(s)
  PROVE  ScanInv'
<1>1. /\ load \in [Scans -> Loads] /\ load[s] \in Loads /\ load[s].ticket <= account_rev /\ LoadSound(s)
      /\ activeLoad \in Scans \cup {"none"} /\ wsRows \in [Ids -> FileRows] /\ invRows \in [Ids -> FileRows]
      /\ s # "none"
  BY ScanTypes, EachLoadSound, TagsAssumption DEF ScanInv
<1>2. /\ UNCHANGED folderVars /\ activeLoad' = activeLoad /\ UNCHANGED <<account_rev, dropped>>
      /\ load[s].pc \in {"chunk", "chunk2"} /\ LoadTicketHolds(s) /\ Current(s)
  BY <1>1 DEF RecordChunk, UpsertInventoryChunk, folderVars, LoadSound, MayPersist
<1>3. /\ \A i \in load[s].chunk : i \in Ids /\ load[s].listing[i] \in {1, 2} /\ i \in load[s].left /\ i \notin dropped
      /\ \A i \in Ids : load[s].listing[i] \in 0 .. 2
  BY <1>1, <1>2 DEF LoadSound, Loads, Scanning
<1>4. ASSUME NEW rows \in [Ids -> FileRows]
      PROVE  LET new == UpsertedFile(rows, s) IN
             /\ new \in [Ids -> FileRows]
             /\ \A i \in Ids : \/ i \in load[s].chunk /\ new[i].scan = s /\ new[i].version = load[s].listing[i]
                               \/ i \notin load[s].chunk /\ new[i] = rows[i]
  <2>1. \A i \in load[s].chunk : [version |-> load[s].listing[i], scan |-> s] \in FileRows
    BY <1>3 DEF FileRows
  <2>2. \A i \in Ids : rows[i] \in FileRows
    OBVIOUS
  <2> QED BY <2>1, <2>2 DEF UpsertedFile
<1>5. CASE RecordChunk(s)
  <2>1. wsRows' = UpsertedFile(wsRows, s) /\ invRows' = invRows /\ load[s].pc = "chunk"
    BY <1>5 DEF RecordChunk
  <2>2. /\ wsRows' \in [Ids -> FileRows] /\ invRows' \in [Ids -> FileRows]
        /\ \A i \in Ids : \/ i \in load[s].chunk /\ wsRows'[i].scan = s /\ wsRows'[i].version = load[s].listing[i]
                          \/ i \notin load[s].chunk /\ wsRows'[i] = wsRows[i]
    BY <1>1, <1>4, <2>1
  <2>3. PICK l : l = [load[s] EXCEPT !.pc = "chunk2"]
    OBVIOUS
  <2>4. /\ l \in Loads /\ l.pc = "chunk2" /\ l.ticket = load[s].ticket /\ l.listing = load[s].listing
        /\ l.left = load[s].left /\ l.chunk = load[s].chunk
    BY <1>1, <2>3 DEF Loads
  <2>5. load' = [load EXCEPT ![s] = l] /\ load'[s] = l
    BY <1>1, <1>5, <2>3 DEF RecordChunk
  <2>6. RowsSound' /\ DeletedStaysGone'
    BY <1>1, <1>2, <1>3, <2>1, <2>2 DEF ScanInv, RowsSound, DeletedStaysGone, ScanTypeOK
  <2>7. LoadSound(s)'
    <3>1. Published(s, wsRows, load[s].left) /\ Published(s, invRows, load[s].left)
      BY <1>1, <1>2, <2>1 DEF LoadSound, Scanning
    <3>2. Published(s, wsRows, l.left \ l.chunk)' /\ Published(s, invRows, l.left)'
      BY <1>3, <2>1, <2>2, <2>4, <2>5, <3>1 DEF Published
    <3> QED BY <1>1, <1>2, <2>1, <2>4, <2>5, <3>2 DEF LoadSound, Scanning, Published, Current, LoadTicketHolds
  <2>8. \A t \in Scans \ {s} : load'[t] = load[t] /\ LoadSound(t)'
    <3>1. \A i \in Ids : /\ wsRows'[i].scan \in {wsRows[i].scan, s, "none"}
                         /\ invRows'[i].scan \in {invRows[i].scan, s, "none"}
      BY <2>1, <2>2
    <3>2. \A t \in Scans \ {s} : load'[t] = load[t]
      BY <1>1, <2>5
    <3> QED BY <1>2, <3>1, <3>2, OtherLoadKept
  <2> QED BY <1>1, <1>2, <2>2, <2>4, <2>5, <2>6, <2>7, <2>8, ScanStepKeeps
<1>6. CASE UpsertInventoryChunk(s)
  <2>1. invRows' = UpsertedFile(invRows, s) /\ wsRows' = wsRows /\ load[s].pc = "chunk2"
    BY <1>6 DEF UpsertInventoryChunk
  <2>2. /\ invRows' \in [Ids -> FileRows] /\ wsRows' \in [Ids -> FileRows]
        /\ \A i \in Ids : \/ i \in load[s].chunk /\ invRows'[i].scan = s /\ invRows'[i].version = load[s].listing[i]
                          \/ i \notin load[s].chunk /\ invRows'[i] = invRows[i]
    BY <1>1, <1>4, <2>1
  <2>3. PICK l : l = [load[s] EXCEPT !.pc = "scan", !.left = load[s].left \ load[s].chunk, !.chunk = {}]
    OBVIOUS
  <2>4. /\ l \in Loads /\ l.pc = "scan" /\ l.ticket = load[s].ticket /\ l.listing = load[s].listing
        /\ l.left = load[s].left \ load[s].chunk /\ l.chunk = {}
    BY <1>1, <2>3 DEF Loads
  <2>5. load' = [load EXCEPT ![s] = l] /\ load'[s] = l
    BY <1>1, <1>6, <2>3 DEF UpsertInventoryChunk
  <2>6. RowsSound' /\ DeletedStaysGone'
    BY <1>1, <1>2, <1>3, <2>1, <2>2 DEF ScanInv, RowsSound, DeletedStaysGone
  <2>7. LoadSound(s)'
    <3>1. /\ Published(s, wsRows, load[s].left \ load[s].chunk) /\ Published(s, invRows, load[s].left)
          /\ \A i \in Ids : invRows[i].scan = s => invRows[i].version = load[s].listing[i]
      BY <1>1, <1>2, <2>1 DEF LoadSound, Scanning
    <3>2. /\ Published(s, wsRows, l.left)' /\ Published(s, invRows, l.left)'
          /\ \A i \in Ids : invRows'[i].scan = s => invRows'[i].version = l.listing[i]
      BY <1>3, <2>1, <2>2, <2>4, <2>5, <3>1 DEF Published
    <3> QED BY <1>1, <1>2, <2>1, <2>4, <2>5, <3>2 DEF LoadSound, Scanning, Published, Current, LoadTicketHolds
  <2>8. \A t \in Scans \ {s} : load'[t] = load[t] /\ LoadSound(t)'
    <3>1. \A i \in Ids : /\ wsRows'[i].scan \in {wsRows[i].scan, s, "none"}
                         /\ invRows'[i].scan \in {invRows[i].scan, s, "none"}
      BY <2>1, <2>2
    <3>2. \A t \in Scans \ {s} : load'[t] = load[t]
      BY <1>1, <2>5
    <3> QED BY <1>2, <3>1, <3>2, OtherLoadKept
  <2> QED BY <1>1, <1>2, <2>2, <2>4, <2>5, <2>6, <2>7, <2>8, ScanStepKeeps
<1> QED BY <1>5, <1>6

LEMMA CompletionKeeps ==
  ASSUME ScanInv, NEW s \in Scans, CompleteInventoryScan(s) \/ CompleteScan(s)
  PROVE  ScanInv'
<1>1. /\ load \in [Scans -> Loads] /\ load[s] \in Loads /\ load[s].ticket <= account_rev /\ LoadSound(s)
      /\ activeLoad \in Scans \cup {"none"} /\ wsRows \in [Ids -> FileRows] /\ invRows \in [Ids -> FileRows]
      /\ s # "none" /\ account_rev \in Nat /\ dropped \subseteq Ids
  BY ScanTypes, EachLoadSound, TagsAssumption DEF ScanInv
<1>2. /\ UNCHANGED folderVars /\ UNCHANGED <<account_rev, dropped>> /\ Current(s) /\ LoadTicketHolds(s)
  BY <1>1 DEF CompleteInventoryScan, CompleteScan, folderVars, LoadSound, MayPersist, Completes
<1>3. ASSUME NEW rows \in [Ids -> FileRows]
      PROVE  LET new == Pruned(rows, s) IN
             /\ new \in [Ids -> FileRows]
             /\ \A i \in Ids : \/ rows[i].scan = s /\ new[i] = rows[i]
                               \/ rows[i].scan # s /\ new[i] = NoFileRow
  BY NoRow DEF Pruned
<1>4. CASE CompleteInventoryScan(s)
  <2>1. invRows' = Pruned(invRows, s) /\ wsRows' = wsRows /\ activeLoad' = activeLoad /\ load[s].pc = "scan" /\ load[s].left = {}
    BY <1>4 DEF CompleteInventoryScan
  <2>2. /\ invRows' \in [Ids -> FileRows] /\ wsRows' \in [Ids -> FileRows]
        /\ \A i \in Ids : \/ invRows[i].scan = s /\ invRows'[i] = invRows[i]
                          \/ invRows[i].scan # s /\ invRows'[i] = NoFileRow
    BY <1>1, <1>3, <2>1
  <2>3. PICK l : l = [load[s] EXCEPT !.pc = "prune2"]
    OBVIOUS
  <2>4. /\ l \in Loads /\ l.pc = "prune2" /\ l.ticket = load[s].ticket /\ l.listing = load[s].listing
        /\ l.left = {} /\ l.chunk = load[s].chunk
    BY <1>1, <2>1, <2>3 DEF Loads
  <2>5. load' = [load EXCEPT ![s] = l] /\ load'[s] = l
    BY <1>1, <1>4, <2>3 DEF CompleteInventoryScan
  <2>6. RowsSound' /\ DeletedStaysGone'
    BY <1>1, <1>2, <2>1, <2>2, NoRow DEF ScanInv, RowsSound, DeletedStaysGone
  <2>7. LoadSound(s)'
    <3>1. /\ Published(s, wsRows, load[s].left) /\ Published(s, invRows, load[s].left)
          /\ \A i \in Ids : invRows[i].scan = s => invRows[i].version = load[s].listing[i]
      BY <1>1, <1>2, <2>1 DEF LoadSound, Scanning
    <3>2. /\ Published(s, wsRows, l.left)' /\ Published(s, invRows, l.left)'
          /\ \A i \in Ids : invRows'[i].scan = s => invRows'[i].version = l.listing[i]
          /\ \A i \in Ids : invRows'[i].scan \in {s, "none"}
      BY <1>1, <2>1, <2>2, <2>4, <2>5, <3>1, NoRow DEF Published
    <3> QED BY <1>1, <1>2, <2>1, <2>4, <2>5, <3>2 DEF LoadSound, Scanning, Published, Current, LoadTicketHolds
  <2>8. \A t \in Scans \ {s} : load'[t] = load[t] /\ LoadSound(t)'
    <3>1. \A i \in Ids : /\ wsRows'[i].scan \in {wsRows[i].scan, s, "none"}
                         /\ invRows'[i].scan \in {invRows[i].scan, s, "none"}
      BY <2>1, <2>2, NoRow
    <3>2. \A t \in Scans \ {s} : load'[t] = load[t]
      BY <1>1, <2>5
    <3> QED BY <1>2, <2>1, <3>1, <3>2, OtherLoadKept
  <2> QED BY <1>1, <1>2, <2>1, <2>2, <2>4, <2>5, <2>6, <2>7, <2>8, ScanStepKeeps
<1>5. CASE CompleteScan(s)
  <2>1. wsRows' = Pruned(wsRows, s) /\ invRows' = invRows
    BY <1>5 DEF CompleteScan
  <2>2. /\ invRows' \in [Ids -> FileRows] /\ wsRows' \in [Ids -> FileRows]
        /\ \A i \in Ids : \/ wsRows[i].scan = s /\ wsRows'[i] = wsRows[i]
                          \/ wsRows[i].scan # s /\ wsRows'[i] = NoFileRow
    BY <1>1, <1>3, <2>1
  <2>3. PICK l : l = [NoLoad EXCEPT !.pc = "done"]
    OBVIOUS
  <2>4. l \in Loads /\ l.pc = "done" /\ l.ticket = 0 /\ l.left = {} /\ l.chunk = {}
    BY <2>3, NoLoads
  <2>5. load' = [load EXCEPT ![s] = l] /\ load'[s] = l /\ activeLoad' = "none"
    BY <1>1, <1>2, <1>5, <2>3 DEF CompleteScan, Leave
  <2>6. RowsSound' /\ DeletedStaysGone'
    BY <1>1, <1>2, <2>1, <2>2, NoRow DEF ScanInv, RowsSound, DeletedStaysGone
  <2>7. LoadSound(s)'
    BY <2>4, <2>5 DEF LoadSound, Scanning
  <2>8. \A t \in Scans \ {s} : load'[t] = load[t] /\ LoadSound(t)'
    <3>1. \A i \in Ids : /\ wsRows'[i].scan \in {wsRows[i].scan, s, "none"}
                         /\ invRows'[i].scan \in {invRows[i].scan, s, "none"}
      BY <2>1, <2>2, NoRow
    <3>2. \A t \in Scans \ {s} : load'[t] = load[t]
      BY <1>1, <2>5
    <3>3. \A t \in Scans \ {s} : t # "none" /\ activeLoad = s
      BY <1>2, TagsAssumption DEF Current
    <3> QED BY <1>2, <2>5, <3>1, <3>2, <3>3, OtherLoadKept
  <2>9. load' \in [Scans -> Loads] /\ load'[s].ticket <= account_rev
    BY <1>1, <2>4, <2>5
  <2> QED BY <1>1, <1>2, <2>2, <2>5, <2>6, <2>7, <2>8, <2>9, ScanStepKeeps
<1> QED BY <1>4, <1>5

LEMMA ScanKeeps == ScanInv /\ [ScanNext]_scanVars => ScanInv'
<1> SUFFICES ASSUME ScanInv, [ScanNext]_scanVars PROVE ScanInv'
  OBVIOUS
<1>1. ASSUME NEW s \in Scans, ScanStep(s) PROVE ScanInv'
  <2>1. CASE Superseded(s) \/ EndIncomplete(s) \/ ScanFails(s)
    <3>1. Leave(s, "done") /\ UNCHANGED folderVars /\ UNCHANGED tables
      BY <2>1 DEF Superseded, EndIncomplete, ScanFails
    <3> QED BY <3>1, Leaves
  <2> QED BY <1>1, <2>1, RegisterKeeps, ListingKeeps, RecordKeeps, CompletionKeeps DEF ScanStep
<1>2. CASE UNCHANGED scanVars
  BY <1>2 DEF scanVars, ScanInv, ScanTypeOK, Owed, DeletedStaysGone, RowsSound, DeletionsKnown, LocksHeld, TagsKept,
     Published, Current, LoadTicketHolds
<1>3. CASE \E i \in Ids : RememberLocalFile(i)
  BY <1>3, RememberKeeps
<1>4. CASE \/ \E i \in Ids : DeleteFile(i) \/ RenameFile(i) \/ OtherDeviceRemoves(i)
           \/ \E ids \in SUBSET Ids : ForwardFiles(ids)
           \/ DeleteOriginals \/ KeepOriginals \/ (ApplyFails /\ account_rev' = account_rev)
  BY <1>4, CommandGoesOn
<1>5. CASE RecordChanged \/ ApplyChange \/ (ApplyFails /\ account_rev' # account_rev)
  BY <1>5, RevisionMoves
<1> QED BY <1>1, <1>2, <1>3, <1>4, <1>5 DEF ScanNext

\* The tables of a folder stay sound under every interleaving of scans and
\* commands: no scan brings back a file that a deletion or a move took, and
\* the tag of a current scan marks exactly what it has published.
THEOREM ScanInvariant == ScanSpec => []ScanInv
<1>1. ScanInv /\ [ScanNext]_scanVars => ScanInv'
  BY ScanKeeps
<1> QED BY <1>1, ScanStarts, PTL DEF ScanSpec

\* A scan that completes leaves exactly its listing in both tables, whatever
\* other requests and commands did while it ran.
THEOREM CompletionExact == ScanSpec => CompleteIsListing
<1> DEFINE Exact == \A s \in Scans :
       CompleteScan(s) =>
         LET listed == {i \in Ids : load[s].listing[i] # 0} IN
         /\ RowIds(wsRows') = listed
         /\ \A i \in Ids : invRows[i].version = load[s].listing[i]
<1>1. ASSUME ScanInv, ScanNext PROVE Exact
  <2> SUFFICES ASSUME NEW s \in Scans, CompleteScan(s)
               PROVE  /\ RowIds(wsRows') = {i \in Ids : load[s].listing[i] # 0}
                      /\ \A i \in Ids : invRows[i].version = load[s].listing[i]
    OBVIOUS
  <2>1. /\ load[s].pc = "prune2" /\ LoadTicketHolds(s) /\ LoadSound(s) /\ s # "none"
        /\ wsRows' = Pruned(wsRows, s) /\ wsRows \in [Ids -> FileRows] /\ invRows \in [Ids -> FileRows]
        /\ load \in [Scans -> Loads]
    BY <1>1, EachLoadSound, ScanTypes, TagsAssumption DEF CompleteScan, MayPersist, ScanInv
  <2>2. /\ \A i \in Ids : wsRows[i].scan = s <=> load[s].listing[i] # 0
        /\ \A i \in Ids : invRows[i].scan = s <=> load[s].listing[i] # 0
        /\ \A i \in Ids : invRows[i].scan = s => invRows[i].version = load[s].listing[i]
        /\ \A i \in Ids : invRows[i].scan \in {s, "none"}
    BY <2>1 DEF LoadSound, Scanning, Published
  <2>3. \A i \in Ids : /\ wsRows[i].version = 0 <=> wsRows[i].scan = "none"
                       /\ invRows[i].version = 0 <=> invRows[i].scan = "none"
    BY <1>1 DEF ScanInv, RowsSound
  <2>4. \A i \in Ids : wsRows'[i] = IF wsRows[i].scan = s THEN wsRows[i] ELSE NoFileRow
    BY <2>1 DEF Pruned
  <2>5. \A i \in Ids : wsRows'[i].version # 0 <=> load[s].listing[i] # 0
    BY <2>1, <2>2, <2>3, <2>4, NoRow
  <2>6. \A i \in Ids : invRows[i].version = load[s].listing[i]
    BY <2>1, <2>2, <2>3
  <2> QED BY <2>5, <2>6 DEF RowIds
<1>2. ScanInv /\ [ScanNext]_scanVars => [Exact]_scanVars
  BY <1>1
<1> QED BY <1>2, ScanInvariant, PTL DEF ScanSpec, CompleteIsListing

-----------------------------------------------------------------------------
(***************************************************************************)
(* The inventory of a folder, for any number of messages and changes and   *)
(* any limit on its files.                                                 *)
(***************************************************************************)
ChangeStages == {"none", "revision", "dirty", "apply"}
InventoryRecord ==
  [rows : [Messages -> 0 .. 2], complete : BOOLEAN, auditAfter : 0 .. Newest, dirty : Nat, cold : BOOLEAN, high : 0 .. Newest,
   pollDue : BOOLEAN, auditDue : BOOLEAN, stale : BOOLEAN]
ReadingRecord ==
  [pc : {"none", "history", "verify", "audit", "commit", "publish"}, background : BOOLEAN, rev : Nat, gen : Nat,
   ids : SUBSET Messages, at : 0 .. Newest, high : 0 .. Newest, rows : [Messages -> 0 .. 2], added : SUBSET Messages,
   auditAfter : 0 .. Newest, swept : BOOLEAN]
ChangeRecord == [pc : ChangeStages, message : 0 .. Newest, version : 0 .. 3]
InventoryTyped ==
  /\ remote \in [Messages -> 0 .. 3] /\ announced \in [Messages -> 0 .. 3]
  /\ revision \in Nat /\ changes \in 0 .. MaxChanges /\ dirtyMark \in [generation : Nat, ids : SUBSET Messages]
  /\ inventory \in InventoryRecord /\ reading \in ReadingRecord /\ change \in ChangeRecord
SentInOrder == \A m \in Messages : remote[m] # 0 <=> m <= Top
ChangesCounted ==
  /\ change.pc = "revision" => revision + 3 <= 3 * changes /\ dirtyMark.generation + 1 <= changes
  /\ change.pc = "dirty" => revision + 2 <= 3 * changes /\ dirtyMark.generation + 1 <= changes
  /\ change.pc = "apply" => revision + 2 <= 3 * changes
  /\ revision <= 3 * changes /\ dirtyMark.generation <= changes
ChangeMade ==
  change.pc \in {"revision", "dirty"} => change.message \in Messages /\ change.version \in 1 .. remote[change.message]
AnnouncedMade == \A m \in Messages : announced[m] <= remote[m]
Drawn == inventory.dirty <= dirtyMark.generation /\ reading.gen <= dirtyMark.generation
Behind(rows, m) == rows[m] # 0 /\ rows[m] < announced[m]
BehindMarked == \A m \in Messages : Behind(inventory.rows, m) \/ Behind(reading.rows, m) => m \in dirtyMark.ids
ColdEmpty == inventory.cold = TRUE => inventory.rows = Absent /\ inventory.high = 0
HighSent ==
  /\ inventory.high <= Top /\ reading.high <= Top /\ (reading.pc # "none" => inventory.high <= reading.high)
  /\ reading.pc = "history" => \A m \in reading.added : m > reading.at /\ m <= reading.high
ReadingSees ==
  reading.pc # "none" /\ reading.gen = dirtyMark.generation =>
    \A m \in Messages :
      /\ Behind(reading.rows, m) => m \in reading.ids /\ reading.pc \in {"history", "verify"} /\ inventory.cold # TRUE
      /\ announced[m] = 1 => m <= reading.high \/ (reading.pc = "history" /\ m <= reading.at)
Whole == (inventory.cold = TRUE \/ inventory.complete = TRUE) /\ (reading.pc = "history" \/ Cardinality(reading.added) <= MaxFiles)
Walked ==
  reading.pc # "none" /\ Whole =>
    \A m \in Messages :
      m <= reading.high /\ (reading.pc # "history" \/ m > reading.at \/ m <= inventory.high) /\ File(remote[m]) => reading.rows[m] # 0
InventorySound ==
  /\ InventoryTyped /\ SentInOrder /\ ChangesCounted /\ ChangeMade /\ AnnouncedMade /\ Drawn /\ BehindMarked /\ ColdEmpty
  /\ HighSent /\ ReadingSees /\ Walked /\ Cardinality(Listed(inventory.rows)) <= MaxFiles /\ AnnouncedSeen /\ NoFileMissed

-----------------------------------------------------------------------------
LEMMA NewestIs == Newest \in Nat \ {0} /\ MaxFiles \in Nat \ {0} /\ MaxChanges \in Nat
  BY InventoryAssumption DEF InventoryAssumption

LEMMA MessagesFinite ==
  /\ IsFiniteSet(Messages) /\ Messages \subseteq Nat
  /\ \A S \in SUBSET Messages : IsFiniteSet(S) /\ Cardinality(S) \in Nat /\ Cardinality(S) <= Newest
  /\ \A n \in 0 .. Newest : Cardinality(1 .. n) = n
  <1>1. \A n \in 0 .. Newest : Cardinality(1 .. n) = n /\ IsFiniteSet(1 .. n)
    BY NewestIs, FS_Interval
  <1>2. IsFiniteSet(Messages) /\ Cardinality(Messages) = Newest
    BY <1>1, NewestIs DEF Messages
  <1>3. ASSUME NEW S \in SUBSET Messages PROVE IsFiniteSet(S) /\ Cardinality(S) \in Nat /\ Cardinality(S) <= Newest
    BY <1>2, FS_Subset, FS_CardinalityType
  <1> QED BY <1>1, <1>2, <1>3 DEF Messages

LEMMA OldestOf ==
  ASSUME NEW S \in SUBSET Messages, S # {}
  PROVE  \E m \in S : \A o \in S : m <= o
  <1>1. S \subseteq Nat
    BY MessagesFinite
  <1>2. PICK m \in S : \A o \in S : ~(<<o, m>> \in OpToRel(<, Nat))
    <2>1. IsWellFoundedOn(OpToRel(<, Nat), Nat)
      BY NatLessThanWellFounded
    <2> QED BY <1>1, <2>1, WFMin
  <1>3. \A o \in S : ~(o < m)
    BY <1>1, <1>2 DEF OpToRel
  <1> QED BY <1>1, <1>3

\* The newest MaxFiles of a listing are at most MaxFiles.
LEMMA NewestBounded ==
  ASSUME NEW rows \in [Messages -> 0 .. 2]
  PROVE  NewestOf(rows) \subseteq Listed(rows) /\ Cardinality(NewestOf(rows)) <= MaxFiles
  <1>1. NewestOf(rows) \in SUBSET Messages /\ Listed(rows) \in SUBSET Messages
    BY DEF NewestOf, Listed
  <1>2. CASE NewestOf(rows) = {}
    BY <1>2, FS_EmptySet, NewestIs
  <1>3. CASE NewestOf(rows) # {}
    <2>1. PICK m \in NewestOf(rows) : \A o \in NewestOf(rows) : m <= o
      BY <1>1, <1>3, OldestOf
    <2>2. NewestOf(rows) \subseteq {o \in Listed(rows) : o >= m}
      BY <1>1, <2>1, MessagesFinite DEF NewestOf
    <2>3. {o \in Listed(rows) : o >= m} \in SUBSET Messages
      BY <1>1
    <2>4. Cardinality(NewestOf(rows)) <= Cardinality({o \in Listed(rows) : o >= m})
      BY <2>2, <2>3, FS_Subset, MessagesFinite
    <2>5. Cardinality({o \in Listed(rows) : o >= m}) <= MaxFiles
      BY DEF NewestOf
    <2>6. Cardinality(NewestOf(rows)) \in Nat /\ Cardinality({o \in Listed(rows) : o >= m}) \in Nat
      BY <1>1, <2>3, MessagesFinite
    <2>7. \A i, j \in Nat : i <= j /\ j <= MaxFiles => i <= MaxFiles
      BY NewestIs
    <2>8. Cardinality(NewestOf(rows)) <= MaxFiles
      BY <2>4, <2>5, <2>6, <2>7
    <2> QED BY <1>1, <2>8 DEF NewestOf
  <1> QED BY <1>1, <1>2, <1>3 DEF NewestOf

(***************************************************************************)
(* Messages are sent in order.                                             *)
(***************************************************************************)
LEMMA SentAtStart == InventoryInit => SentInOrder
  <1> SUFFICES ASSUME InventoryInit PROVE SentInOrder
    OBVIOUS
  <1> DEFINE S == {m \in Messages : remote[m] # 0}
  <1>1. /\ remote \in [Messages -> {0, 1}]
        /\ \A m \in Messages : m > 1 /\ remote[m] = 1 => remote[m - 1] = 1
    BY DEF InventoryInit
  <1>2. \E n \in 0 .. Newest : S = 1 .. n
    <2>1. CASE S = Messages
      BY <2>1, NewestIs DEF Messages
    <2>2. CASE S # Messages
      <3>1. PICK n \in Messages \ S : \A o \in Messages \ S : n <= o
        BY <2>2, OldestOf
      <3>2. \A m \in S : m < n
        <4> SUFFICES ASSUME {m \in S : m > n} # {} PROVE FALSE
          BY <3>1, MessagesFinite
        <4>1. PICK k \in {m \in S : m > n} : \A o \in {m \in S : m > n} : k <= o
          BY OldestOf
        <4>2. k \in Messages /\ n \in Messages /\ k \in 1 .. Newest /\ n \in 1 .. Newest /\ remote[k] = 1 /\ k > n
          BY <1>1, <4>1 DEF Messages
        <4>3. k - 1 \in Messages /\ k - 1 >= n /\ remote[k - 1] = 1
          BY <1>1, <4>2, NewestIs DEF Messages
        <4>4. k - 1 \in S /\ k - 1 # n
          BY <3>1, <4>3
        <4>5. k - 1 \in {m \in S : m > n}
          BY <4>2, <4>3, <4>4, NewestIs
        <4> QED BY <4>1, <4>2, <4>5, NewestIs
      <3>3. S = 1 .. (n - 1)
        BY <3>1, <3>2, NewestIs DEF Messages
      <3> QED BY <3>1, <3>3, NewestIs DEF Messages
    <2> QED BY <2>1, <2>2
  <1>3. PICK n \in 0 .. Newest : S = 1 .. n
    BY <1>2
  <1>4. Top = n
    BY <1>3, MessagesFinite DEF Top
  <1> QED BY <1>3, <1>4, NewestIs DEF SentInOrder, Messages

LEMMA TopIs == Top \in 0 .. Newest
  BY MessagesFinite, NewestIs DEF Top

\* The next message is sent.
LEMMA NextSent ==
  ASSUME InventoryTyped, SentInOrder, Top < Newest, NEW v \in 1 .. 3, remote' = [remote EXCEPT ![Top + 1] = v]
  PROVE  /\ Top + 1 \in Messages /\ remote' \in [Messages -> 0 .. 3] /\ Top' = Top + 1 /\ SentInOrder'
         /\ remote[Top + 1] = 0 /\ remote'[Top + 1] = v
         /\ \A m \in Messages : m <= Top => remote'[m] = remote[m]
         /\ \A m \in Messages : remote[m] <= remote'[m]
  <1>1. Top + 1 \in Messages /\ Top + 1 \in Nat
    BY TopIs, NewestIs DEF Messages
  <1>2. remote[Top + 1] = 0
    BY <1>1, TopIs DEF SentInOrder
  <1>3. /\ remote' \in [Messages -> 0 .. 3] /\ remote'[Top + 1] = v
        /\ \A m \in Messages \ {Top + 1} : remote'[m] = remote[m]
    BY <1>1 DEF InventoryTyped
  <1>4. {m \in Messages : remote'[m] # 0} = {m \in Messages : remote[m] # 0} \cup {Top + 1}
    BY <1>1, <1>3
  <1>5. IsFiniteSet({m \in Messages : remote[m] # 0}) /\ Top + 1 \notin {m \in Messages : remote[m] # 0}
    BY <1>2, MessagesFinite
  <1>6. Cardinality({m \in Messages : remote'[m] # 0}) = Cardinality({m \in Messages : remote[m] # 0}) + 1
    BY <1>4, <1>5, FS_AddElement
  <1>7. Messages' = Messages /\ Top' = Top + 1
    BY <1>6 DEF Top, Messages
  <1>8. SentInOrder'
    <2> SUFFICES ASSUME NEW m \in Messages PROVE remote'[m] # 0 <=> m <= Top + 1
      BY <1>7 DEF SentInOrder
    <2>1. m \in Nat
      BY MessagesFinite
    <2>2. CASE m = Top + 1
      BY <1>3, <2>1, <2>2
    <2>3. CASE m # Top + 1
      BY <1>3, <2>1, <2>3, TopIs DEF SentInOrder
    <2> QED BY <2>2, <2>3
  <1>9. \A m \in Messages : m <= Top => remote'[m] = remote[m]
    BY <1>3, TopIs
  <1>10. \A m \in Messages : remote[m] <= remote'[m]
    BY <1>2, <1>3 DEF InventoryTyped
  <1> QED BY <1>1, <1>2, <1>3, <1>7, <1>8, <1>9, <1>10

\* A file becomes a newer version of itself.
LEMMA VersionGrows ==
  ASSUME InventoryTyped, SentInOrder, NEW k \in Messages, File(remote[k]), NEW v \in 2 .. 3, v > remote[k],
         remote' = [remote EXCEPT ![k] = v]
  PROVE  /\ remote' \in [Messages -> 0 .. 3] /\ remote'[k] = v /\ Top' = Top /\ SentInOrder'
         /\ \A m \in Messages : remote[m] <= remote'[m] /\ (File(remote'[m]) => File(remote[m]))
  <1>1. remote' \in [Messages -> 0 .. 3] /\ remote'[k] = v /\ \A m \in Messages \ {k} : remote'[m] = remote[m]
    BY DEF InventoryTyped
  <1>2. {m \in Messages : remote'[m] # 0} = {m \in Messages : remote[m] # 0}
    BY <1>1 DEF File
  <1>3. Messages' = Messages /\ Top' = Top
    BY <1>2 DEF Top, Messages
  <1>4. SentInOrder'
    BY <1>1, <1>3 DEF SentInOrder, File
  <1>5. \A m \in Messages : remote[m] <= remote'[m] /\ (File(remote'[m]) => File(remote[m]))
    BY <1>1 DEF InventoryTyped, File
  <1> QED BY <1>1, <1>3, <1>4, <1>5

(***************************************************************************)
(* The changes of the folder.                                              *)
(***************************************************************************)
LEMMA FolderMoves ==
  ASSUME InventorySound, remote' \in [Messages -> 0 .. 3], SentInOrder', Top' \in Nat, Top <= Top',
         \A m \in Messages : remote[m] <= remote'[m] /\ (m <= Top /\ File(remote'[m]) => File(remote[m])),
         UNCHANGED <<revision, dirtyMark, inventory, reading, announced>>,
         change' \in ChangeRecord, changes' \in 0 .. MaxChanges, ChangesCounted', ChangeMade'
  PROVE  InventorySound'
  <1>0. InventoryTyped /\ Top \in Nat
    BY TopIs, NewestIs DEF InventorySound
  <1>1. inventory.high \in Nat /\ reading.high \in Nat /\ inventory.high <= Top /\ reading.high <= Top
    BY <1>0 DEF InventorySound, HighSent, InventoryTyped, InventoryRecord, ReadingRecord
  <1>2. InventoryTyped'
    BY <1>0 DEF InventoryTyped, Messages, InventoryRecord, ReadingRecord, ChangeRecord
  <1>3. AnnouncedMade'
    <2> SUFFICES ASSUME NEW m \in Messages PROVE announced[m] <= remote'[m]
      BY DEF AnnouncedMade, Messages
    <2>1. announced[m] <= remote[m] /\ remote[m] <= remote'[m] /\ announced[m] \in Nat /\ remote[m] \in Nat /\ remote'[m] \in Nat
      BY <1>0 DEF InventorySound, AnnouncedMade, InventoryTyped
    <2> QED BY <2>1
  <1>4. Drawn' /\ BehindMarked' /\ ColdEmpty' /\ ReadingSees' /\ AnnouncedSeen'
    <2>1. Drawn' /\ BehindMarked'
      BY DEF InventorySound, Drawn, BehindMarked, Behind, Messages
    <2>2. ColdEmpty'
      BY DEF InventorySound, ColdEmpty, Absent, Messages
    <2>3. ReadingSees'
      BY DEF InventorySound, ReadingSees, Behind, Messages
    <2>4. AnnouncedSeen'
      BY DEF InventorySound, AnnouncedSeen, IsDirty, Messages
    <2> QED BY <2>1, <2>2, <2>3, <2>4
  <1>5. HighSent'
    BY <1>0, <1>1 DEF InventorySound, HighSent
  <1>6. Walked'
    <2> SUFFICES ASSUME reading.pc # "none", Whole, NEW m \in Messages, m <= reading.high,
                        reading.pc # "history" \/ m > reading.at \/ m <= inventory.high, File(remote'[m])
                 PROVE  reading.rows[m] # 0
      BY DEF Walked, Whole, Messages
    <2>1. m <= Top
      BY <1>0, <1>1, MessagesFinite
    <2> QED BY <2>1 DEF InventorySound, Walked
  <1>7. NoFileMissed'
    <2> SUFFICES ASSUME ~inventory.cold, inventory.complete, NEW m \in 1 .. inventory.high, File(remote'[m])
                 PROVE  inventory.rows[m] # 0
      BY DEF NoFileMissed
    <2>1. m <= Top /\ m \in Messages
      BY <1>0, <1>1, TopIs, NewestIs DEF Messages
    <2> QED BY <2>1 DEF InventorySound, NoFileMissed
  <1>8. (Cardinality(Listed(inventory.rows)) <= MaxFiles)'
    BY DEF InventorySound, Listed, Messages
  <1> QED BY <1>2, <1>3, <1>4, <1>5, <1>6, <1>7, <1>8 DEF InventorySound

LEMMA OthersKeep ==
  ASSUME InventorySound, NEW v \in {1, 3}, NEW k \in Messages, OtherDeviceSends(v) \/ DeletedElsewhere(k)
  PROVE  InventorySound'
  <1>0. InventoryTyped /\ SentInOrder /\ Top \in Nat /\ ChangesCounted
    BY TopIs, NewestIs DEF InventorySound
  <1>1. UNCHANGED <<revision, dirtyMark, inventory, reading, change, announced, changes>>
    BY DEF OtherDeviceSends, DeletedElsewhere
  <1>2. change' \in ChangeRecord /\ changes' \in 0 .. MaxChanges /\ ChangesCounted'
    BY <1>0, <1>1 DEF InventoryTyped, ChangesCounted
  <1>3. /\ remote' \in [Messages -> 0 .. 3] /\ SentInOrder' /\ Top' \in Nat /\ Top <= Top'
        /\ \A m \in Messages : remote[m] <= remote'[m] /\ (m <= Top /\ File(remote'[m]) => File(remote[m]))
    <2>1. CASE OtherDeviceSends(v)
      <3>1. Top < Newest /\ remote' = [remote EXCEPT ![Top + 1] = v] /\ v \in 1 .. 3
        BY <2>1 DEF OtherDeviceSends
      <3>2. /\ remote' \in [Messages -> 0 .. 3] /\ Top' = Top + 1 /\ SentInOrder'
            /\ \A m \in Messages : m <= Top => remote'[m] = remote[m]
            /\ \A m \in Messages : remote[m] <= remote'[m]
        BY <1>0, <3>1, NextSent
      <3> QED BY <1>0, <3>2
    <2>2. CASE DeletedElsewhere(k)
      <3>1. File(remote[k]) /\ remote' = [remote EXCEPT ![k] = 3] /\ 3 > remote[k] /\ 3 \in 2 .. 3
        BY <2>2 DEF DeletedElsewhere, File
      <3>2. /\ remote' \in [Messages -> 0 .. 3] /\ Top' = Top /\ SentInOrder'
            /\ \A m \in Messages : remote[m] <= remote'[m] /\ (File(remote'[m]) => File(remote[m]))
        BY <1>0, <3>1, VersionGrows
      <3> QED BY <1>0, <3>2
    <2> QED BY <2>1, <2>2
  <1>4. ChangeMade'
    <2> SUFFICES ASSUME change.pc \in {"revision", "dirty"}
                 PROVE  change.message \in Messages /\ change.version \in 1 .. remote'[change.message]
      BY <1>1 DEF ChangeMade, Messages
    <2>1. change.message \in Messages /\ change.version \in 1 .. remote[change.message]
      BY DEF InventorySound, ChangeMade
    <2>2. remote[change.message] \in Nat /\ remote'[change.message] \in Nat /\ remote[change.message] <= remote'[change.message]
      BY <1>0, <1>3, <2>1 DEF InventoryTyped
    <2> QED BY <2>1, <2>2
  <1> QED BY <1>1, <1>2, <1>3, <1>4, FolderMoves

LEMMA MutateKeeps ==
  ASSUME InventorySound, NEW k \in Messages, NEW v \in 1 .. 3, Mutate(k, v)
  PROVE  InventorySound'
  <1>0. InventoryTyped /\ SentInOrder /\ Top \in Nat /\ ChangesCounted
    BY TopIs, NewestIs DEF InventorySound
  <1>1. /\ change = NoChange /\ changes < MaxChanges /\ changes' = changes + 1
        /\ change' = [pc |-> "revision", message |-> k, version |-> v]
        /\ remote' = [remote EXCEPT ![k] = v]
        /\ UNCHANGED <<revision, dirtyMark, inventory, reading, announced>>
    BY DEF Mutate
  <1>2. change.pc = "none" /\ change' \in ChangeRecord /\ change'.pc = "revision" /\ change'.message = k /\ change'.version = v
    BY <1>1 DEF NoChange, ChangeRecord, ChangeStages, Messages
  <1>3. changes' \in 0 .. MaxChanges
    BY <1>0, <1>1, NewestIs DEF InventoryTyped
  <1>4. ChangesCounted'
    BY <1>0, <1>1, <1>2, NewestIs DEF InventoryTyped, ChangesCounted
  <1>5. /\ remote' \in [Messages -> 0 .. 3] /\ remote'[k] = v /\ SentInOrder' /\ Top' \in Nat /\ Top <= Top'
        /\ \A m \in Messages : remote[m] <= remote'[m] /\ (m <= Top /\ File(remote'[m]) => File(remote[m]))
    <2>1. CASE v = 1 /\ k = Top + 1
      <3>1. Top < Newest /\ remote' = [remote EXCEPT ![Top + 1] = v]
        BY <1>0, <1>1, <2>1, NewestIs DEF Messages
      <3>2. /\ remote' \in [Messages -> 0 .. 3] /\ Top' = Top + 1 /\ SentInOrder' /\ remote'[Top + 1] = v
            /\ \A m \in Messages : m <= Top => remote'[m] = remote[m]
            /\ \A m \in Messages : remote[m] <= remote'[m]
        BY <1>0, <3>1, NextSent
      <3> QED BY <1>0, <2>1, <3>2
    <2>2. CASE v \in {2, 3} /\ File(remote[k]) /\ v > remote[k]
      <3>1. v \in 2 .. 3
        BY <2>2
      <3>2. /\ remote' \in [Messages -> 0 .. 3] /\ remote'[k] = v /\ Top' = Top /\ SentInOrder'
            /\ \A m \in Messages : remote[m] <= remote'[m] /\ (File(remote'[m]) => File(remote[m]))
        BY <1>0, <1>1, <2>2, <3>1, VersionGrows
      <3> QED BY <1>0, <3>2
    <2> QED BY <2>1, <2>2 DEF Mutate
  <1>6. ChangeMade'
    BY <1>2, <1>5 DEF ChangeMade, Messages
  <1> QED BY <1>1, <1>2, <1>3, <1>4, <1>5, <1>6, FolderMoves

\* The revision moves: nothing else does.
LEMMA RevisionKeeps ==
  ASSUME InventorySound, ChangedRevision \/ Apply
  PROVE  InventorySound'
  <1>0. InventoryTyped /\ SentInOrder /\ Top \in Nat /\ ChangesCounted /\ ChangeMade
    BY TopIs, NewestIs DEF InventorySound
  <1>1. UNCHANGED <<remote, dirtyMark, inventory, reading, announced, changes>>
    BY DEF ChangedRevision, Apply
  <1>2. /\ revision' \in Nat /\ change' \in ChangeRecord /\ ChangesCounted' /\ ChangeMade'
    <2>1. CASE ChangedRevision
      <3>1. change.pc = "revision" /\ revision' = revision + 1 /\ change' = [change EXCEPT !.pc = "dirty"]
        BY <2>1 DEF ChangedRevision
      <3>2. /\ change' \in ChangeRecord /\ change'.pc = "dirty" /\ change'.message = change.message
            /\ change'.version = change.version
        BY <1>0, <3>1 DEF InventoryTyped, ChangeRecord, ChangeStages
      <3>3. revision' \in Nat /\ ChangesCounted'
        BY <1>0, <1>1, <3>1, <3>2 DEF InventoryTyped, ChangesCounted
      <3>4. ChangeMade'
        BY <1>0, <1>1, <3>1, <3>2 DEF ChangeMade, Messages
      <3> QED BY <3>2, <3>3, <3>4
    <2>2. CASE Apply
      <3>1. change.pc = "apply" /\ revision' = revision + 2 /\ change' = NoChange
        BY <2>2 DEF Apply
      <3>2. change' \in ChangeRecord /\ change'.pc = "none"
        BY <3>1, NewestIs DEF NoChange, ChangeRecord, ChangeStages
      <3>3. revision' \in Nat /\ ChangesCounted'
        BY <1>0, <1>1, <3>1, <3>2 DEF InventoryTyped, ChangesCounted
      <3>4. ChangeMade'
        BY <3>2 DEF ChangeMade
      <3> QED BY <3>2, <3>3, <3>4
    <2> QED BY <2>1, <2>2
  <1>3. InventoryTyped' /\ SentInOrder' /\ AnnouncedMade'
    BY <1>0, <1>1, <1>2 DEF InventorySound, InventoryTyped, SentInOrder, AnnouncedMade, Top, Messages, InventoryRecord, ReadingRecord
  <1>4. Drawn' /\ BehindMarked' /\ ColdEmpty'
    BY <1>1 DEF InventorySound, Drawn, BehindMarked, Behind, ColdEmpty, Absent, Messages
  <1>5. HighSent' /\ ReadingSees'
    BY <1>1 DEF InventorySound, HighSent, ReadingSees, Behind, Top, Messages
  <1>6. Walked' /\ NoFileMissed'
    BY <1>1 DEF InventorySound, Walked, Whole, NoFileMissed, File, Messages
  <1>7. AnnouncedSeen' /\ (Cardinality(Listed(inventory.rows)) <= MaxFiles)'
    BY <1>1 DEF InventorySound, AnnouncedSeen, IsDirty, Listed, Messages
  <1> QED BY <1>2, <1>3, <1>4, <1>5, <1>6, <1>7 DEF InventorySound

\* The folder is marked; a read under way will not count as current.
LEMMA MarkedKeeps ==
  ASSUME InventorySound, ChangedDirty \/ Invalidate
  PROVE  InventorySound'
  <1>0. InventoryTyped /\ SentInOrder /\ Top \in Nat /\ ChangesCounted /\ ChangeMade /\ Drawn
    BY TopIs, NewestIs DEF InventorySound
  <1>1. /\ UNCHANGED <<remote, inventory, reading>> /\ dirtyMark'.generation = dirtyMark.generation + 1
        /\ dirtyMark' \in [generation : Nat, ids : SUBSET Messages] /\ dirtyMark.ids \subseteq dirtyMark'.ids
        /\ announced' \in [Messages -> 0 .. 3]
        /\ \A m \in Messages : /\ announced'[m] <= remote[m]
                               /\ announced'[m] = announced[m] \/ announced'[m] = 1 \/ m \in dirtyMark'.ids
    <2>1. CASE ChangedDirty
      <3>0. PICK k, v : k = change.message /\ v = change.version
        OBVIOUS
      <3>1. k \in Messages /\ v \in 1 .. 3 /\ v <= remote[k]
        BY <1>0, <2>1, <3>0 DEF ChangedDirty, ChangeMade, InventoryTyped
      <3>2. /\ dirtyMark' = [generation |-> dirtyMark.generation + 1,
                              ids |-> dirtyMark.ids \cup (IF v = 1 THEN {} ELSE {k})]
            /\ announced' = [announced EXCEPT ![k] = v] /\ UNCHANGED <<remote, inventory, reading>>
        BY <2>1, <3>0 DEF ChangedDirty
      <3>3. /\ announced' \in [Messages -> 0 .. 3] /\ announced'[k] = v
            /\ \A m \in Messages \ {k} : announced'[m] = announced[m]
        BY <1>0, <3>1, <3>2 DEF InventoryTyped
      <3>4. /\ dirtyMark' \in [generation : Nat, ids : SUBSET Messages] /\ dirtyMark.ids \subseteq dirtyMark'.ids
            /\ dirtyMark'.generation = dirtyMark.generation + 1 /\ (v # 1 => k \in dirtyMark'.ids)
        <4>1. PICK i : i = dirtyMark.ids \cup (IF v = 1 THEN {} ELSE {k})
          OBVIOUS
        <4>2. i \subseteq Messages /\ dirtyMark.ids \subseteq i /\ (v # 1 => k \in i)
          BY <1>0, <3>1, <4>1 DEF InventoryTyped
        <4> QED BY <1>0, <3>2, <4>1, <4>2 DEF InventoryTyped
      <3>5. \A m \in Messages : /\ announced'[m] <= remote[m]
                                /\ announced'[m] = announced[m] \/ announced'[m] = 1 \/ m \in dirtyMark'.ids
        BY <3>1, <3>3, <3>4 DEF InventorySound, AnnouncedMade
      <3> QED BY <3>2, <3>3, <3>4, <3>5
    <2>2. CASE Invalidate
      <3>1. dirtyMark' = [dirtyMark EXCEPT !.generation = dirtyMark.generation + 1] /\ UNCHANGED <<remote, inventory, reading, announced>>
        BY <2>2 DEF Invalidate
      <3>2. /\ dirtyMark' \in [generation : Nat, ids : SUBSET Messages] /\ dirtyMark'.generation = dirtyMark.generation + 1
            /\ dirtyMark'.ids = dirtyMark.ids
        BY <1>0, <3>1 DEF InventoryTyped
      <3> QED BY <1>0, <3>1, <3>2 DEF InventorySound, AnnouncedMade, InventoryTyped
    <2> QED BY <2>1, <2>2
  <1>2. /\ revision' \in Nat /\ change' \in ChangeRecord /\ ChangesCounted' /\ changes' \in 0 .. MaxChanges
        /\ change'.pc \notin {"revision", "dirty"}
    <2>1. CASE ChangedDirty
      <3>1. /\ change.pc = "dirty" /\ UNCHANGED <<revision, changes>>
            /\ change' = NoChange \/ change' = [change EXCEPT !.pc = "apply"]
        BY <2>1 DEF ChangedDirty
      <3>2. change' \in ChangeRecord /\ change'.pc \in {"none", "apply"}
        <4>1. NoChange \in ChangeRecord /\ NoChange.pc = "none"
          BY NewestIs DEF NoChange, ChangeRecord, ChangeStages
        <4>2. [change EXCEPT !.pc = "apply"] \in ChangeRecord /\ [change EXCEPT !.pc = "apply"].pc = "apply"
          BY <1>0 DEF InventoryTyped, ChangeRecord, ChangeStages
        <4> QED BY <3>1, <4>1, <4>2
      <3>3. revision' \in Nat /\ ChangesCounted' /\ changes' \in 0 .. MaxChanges
        BY <1>0, <1>1, <3>1, <3>2 DEF InventoryTyped, ChangesCounted
      <3> QED BY <3>2, <3>3
    <2>2. CASE Invalidate
      <3>1. change = NoChange /\ change' = change /\ changes < MaxChanges /\ changes' = changes + 1 /\ revision' = revision + 1
        BY <2>2 DEF Invalidate
      <3>2. change'.pc = "none" /\ change.pc = "none"
        BY <3>1 DEF NoChange
      <3>3. change' \in ChangeRecord
        BY <1>0, <3>1 DEF InventoryTyped
      <3>4. revision' \in Nat /\ ChangesCounted' /\ changes' \in 0 .. MaxChanges
        BY <1>0, <1>1, <3>1, <3>2, NewestIs DEF InventoryTyped, ChangesCounted
      <3> QED BY <3>2, <3>3, <3>4
    <2> QED BY <2>1, <2>2
  <1>3. InventoryTyped'
    BY <1>0, <1>1, <1>2 DEF InventoryTyped, Messages, InventoryRecord, ReadingRecord
  <1>4. SentInOrder' /\ AnnouncedMade' /\ ColdEmpty' /\ HighSent'
    <2>1. SentInOrder' /\ HighSent'
      BY <1>1 DEF InventorySound, SentInOrder, HighSent, Top, Messages
    <2>2. AnnouncedMade' /\ ColdEmpty'
      BY <1>1 DEF InventorySound, AnnouncedMade, ColdEmpty, Absent, Messages
    <2> QED BY <2>1, <2>2
  <1>5. Drawn' /\ inventory'.dirty # dirtyMark'.generation /\ reading'.gen # dirtyMark'.generation
    BY <1>0, <1>1 DEF InventoryTyped, InventoryRecord, ReadingRecord, Drawn
  <1>6. ChangeMade' /\ ReadingSees' /\ AnnouncedSeen'
    BY <1>2, <1>5 DEF ChangeMade, ReadingSees, AnnouncedSeen, IsDirty
  <1>7. BehindMarked'
    <2>1. ASSUME NEW rows \in [Messages -> 0 .. 2], NEW m \in Messages, Behind(rows, m) => m \in dirtyMark.ids,
                 rows[m] # 0 /\ rows[m] < announced'[m]
          PROVE  m \in dirtyMark'.ids
      BY <1>0, <1>1, <2>1 DEF Behind, InventoryTyped
    <2>2. inventory.rows \in [Messages -> 0 .. 2] /\ reading.rows \in [Messages -> 0 .. 2]
      BY <1>0 DEF InventoryTyped, InventoryRecord, ReadingRecord
    <2> QED BY <1>1, <2>1, <2>2 DEF InventorySound, BehindMarked, Behind, Messages
  <1>8. Walked' /\ NoFileMissed' /\ (Cardinality(Listed(inventory.rows)) <= MaxFiles)'
    BY <1>1 DEF InventorySound, Walked, Whole, NoFileMissed, File, Listed, Messages
  <1> QED BY <1>2, <1>3, <1>4, <1>5, <1>6, <1>7, <1>8 DEF InventorySound

(***************************************************************************)
(* The steps of a read.                                                    *)
(***************************************************************************)
\* What a read may look like beside the rest.
ReadingFits(r) ==
  /\ r \in ReadingRecord /\ r.gen <= dirtyMark.generation /\ r.high <= Top
  /\ \A m \in Messages : Behind(r.rows, m) => m \in dirtyMark.ids
  /\ r.pc # "none" => inventory.high <= r.high
  /\ r.pc = "history" => \A m \in r.added : m > r.at /\ m <= r.high

\* The two parts about what it has seen.
Sees(r) ==
  r.pc # "none" /\ r.gen = dirtyMark.generation =>
    \A m \in Messages :
      /\ Behind(r.rows, m) => m \in r.ids /\ r.pc \in {"history", "verify"} /\ inventory.cold # TRUE
      /\ announced[m] = 1 => m <= r.high \/ (r.pc = "history" /\ m <= r.at)

WalkedBy(r) ==
  r.pc # "none" /\ (inventory.cold = TRUE \/ inventory.complete = TRUE)
  /\ (r.pc = "history" \/ Cardinality(r.added) <= MaxFiles) =>
    \A m \in Messages :
      m <= r.high /\ (r.pc # "history" \/ m > r.at \/ m <= inventory.high) /\ File(remote[m]) => r.rows[m] # 0

LEMMA ReadingNow ==
  ASSUME InventorySound
  PROVE  ReadingFits(reading) /\ Sees(reading) /\ WalkedBy(reading)
  BY DEF InventorySound, InventoryTyped, Drawn, HighSent, BehindMarked, ReadingSees, Walked, Whole, ReadingFits, Sees, WalkedBy

LEMMA ReadingMoves ==
  ASSUME InventorySound, UNCHANGED <<remote, revision, dirtyMark, inventory, change, announced, changes>>,
         ReadingFits(reading'), Sees(reading'), WalkedBy(reading')
  PROVE  InventorySound'
  <1>1. InventoryTyped'
    BY DEF InventorySound, InventoryTyped, ReadingFits, Messages, InventoryRecord, ReadingRecord, ChangeRecord
  <1>2. SentInOrder' /\ ChangesCounted' /\ ChangeMade' /\ AnnouncedMade'
    <2>1. SentInOrder' /\ ChangesCounted'
      BY DEF InventorySound, SentInOrder, ChangesCounted, Top, Messages
    <2>2. ChangeMade' /\ AnnouncedMade'
      BY DEF InventorySound, ChangeMade, AnnouncedMade, Messages
    <2> QED BY <2>1, <2>2
  <1>3. Drawn' /\ BehindMarked' /\ ColdEmpty' /\ HighSent'
    <2>1. Drawn' /\ BehindMarked'
      BY DEF InventorySound, ReadingFits, Drawn, BehindMarked, Behind, Messages
    <2>2. ColdEmpty' /\ HighSent'
      BY DEF InventorySound, ReadingFits, ColdEmpty, HighSent, Absent, Top, Messages
    <2> QED BY <2>1, <2>2
  <1>4. ReadingSees'
    BY DEF Sees, ReadingSees, Behind, Messages
  <1>5. Walked'
    BY DEF WalkedBy, Walked, Whole, File, Messages
  <1>6. AnnouncedSeen' /\ NoFileMissed' /\ (Cardinality(Listed(inventory.rows)) <= MaxFiles)'
    <2>1. AnnouncedSeen'
      BY DEF InventorySound, AnnouncedSeen, IsDirty, Messages
    <2>2. NoFileMissed' /\ (Cardinality(Listed(inventory.rows)) <= MaxFiles)'
      BY DEF InventorySound, NoFileMissed, File, Listed, Messages
    <2> QED BY <2>1, <2>2
  <1> QED BY <1>1, <1>2, <1>3, <1>4, <1>5, <1>6 DEF InventorySound

LEMMA ReadBeginsKeeps ==
  ASSUME InventorySound, NEW background \in BOOLEAN, ReadBegins(background)
  PROVE  InventorySound'
  <1>0. InventoryTyped /\ Top \in Nat /\ inventory \in InventoryRecord
    BY TopIs, NewestIs DEF InventorySound, InventoryTyped
  <1>1. PICK ids : ids = IF IsDirty THEN dirtyMark.ids ELSE {}
    OBVIOUS
  <1>2. reading' = [NoReading EXCEPT !.pc = "history", !.background = background, !.rev = revision,
                              !.gen = dirtyMark.generation, !.ids = ids,
                              !.at = Newest, !.high = inventory.high, !.rows = inventory.rows,
                              !.auditAfter = inventory.auditAfter]
    BY <1>1 DEF ReadBegins
  <1>3. reading' = [pc |-> "history", background |-> background, rev |-> revision, gen |-> dirtyMark.generation, ids |-> ids,
                    at |-> Newest, high |-> inventory.high, rows |-> inventory.rows, added |-> {},
                    auditAfter |-> inventory.auditAfter, swept |-> FALSE]
    BY <1>2 DEF NoReading
  <1>4. PICK r : r = [pc |-> "history", background |-> background, rev |-> revision, gen |-> dirtyMark.generation, ids |-> ids,
                    at |-> Newest, high |-> inventory.high, rows |-> inventory.rows, added |-> {},
                    auditAfter |-> inventory.auditAfter, swept |-> FALSE]
    OBVIOUS
  <1>5. reading' = r /\ r.pc = "history" /\ r.gen = dirtyMark.generation /\ r.ids = ids /\ r.at = Newest
        /\ r.high = inventory.high /\ r.rows = inventory.rows /\ r.added = {}
    BY <1>3, <1>4
  <1>6. r \in ReadingRecord
    <2>1. ids \subseteq Messages
      BY <1>0, <1>1 DEF InventoryTyped
    <2>2. /\ inventory.high \in 0 .. Newest /\ inventory.auditAfter \in 0 .. Newest /\ inventory.rows \in [Messages -> 0 .. 2]
          /\ Newest \in 0 .. Newest /\ revision \in Nat /\ dirtyMark.generation \in Nat
      BY <1>0, NewestIs DEF InventoryTyped, InventoryRecord
    <2> QED BY <1>4, <2>1, <2>2 DEF ReadingRecord
  <1>7. ReadingFits(r)
    BY <1>0, <1>5, <1>6 DEF ReadingFits, InventorySound, BehindMarked, HighSent, InventoryTyped, InventoryRecord
  <1>8. Sees(r)
    <2> SUFFICES ASSUME NEW m \in Messages
                 PROVE  /\ Behind(inventory.rows, m) => m \in ids /\ inventory.cold # TRUE
                        /\ m <= Newest
      BY <1>5 DEF Sees
    <2>1. m <= Newest
      BY DEF Messages
    <2>2. Behind(inventory.rows, m) => inventory.cold # TRUE
      BY DEF InventorySound, ColdEmpty, Behind, Absent
    <2>3. ASSUME Behind(inventory.rows, m) PROVE m \in ids
      <3>1. m \in dirtyMark.ids
        BY <2>3 DEF InventorySound, BehindMarked
      <3>2. IsDirty
        <4>1. inventory.rows[m] \in Nat /\ announced[m] \in Nat
          BY <1>0 DEF InventoryTyped, InventoryRecord
        <4>2. inventory.cold \in BOOLEAN /\ inventory.cold # TRUE
          BY <1>0, <2>2, <2>3 DEF InventoryRecord
        <4>3. ~inventory.cold
          BY <4>2
        <4>4. inventory.rows[m] # 0 /\ ~(inventory.rows[m] >= announced[m])
          BY <2>3, <4>1 DEF Behind
        <4> QED BY <4>3, <4>4 DEF InventorySound, AnnouncedSeen
      <3> QED BY <1>1, <3>1, <3>2
    <2> QED BY <2>1, <2>2, <2>3
  <1>9. WalkedBy(r)
    <2> SUFFICES ASSUME inventory.cold = TRUE \/ inventory.complete = TRUE, NEW m \in Messages,
                        m <= inventory.high, File(remote[m])
                 PROVE  inventory.rows[m] # 0
      BY <1>5 DEF WalkedBy
    <2>1. m \in 1 .. inventory.high
      BY <1>0 DEF Messages, InventoryRecord
    <2>2. inventory.cold # TRUE
      <3>1. inventory.cold = TRUE => inventory.high = 0
        BY DEF InventorySound, ColdEmpty
      <3>2. inventory.high # 0
        BY <2>1
      <3> QED BY <3>1, <3>2
    <2>3. ~inventory.cold /\ inventory.complete
      BY <1>0, <2>2 DEF InventoryRecord
    <2> QED BY <2>1, <2>3 DEF InventorySound, NoFileMissed
  <1> QED BY <1>5, <1>7, <1>8, <1>9, ReadingMoves DEF ReadBegins

LEMMA HistoryMessageKeeps ==
  ASSUME InventorySound, HistoryMessage
  PROVE  InventorySound'
  <1>0. InventoryTyped /\ Top \in Nat /\ inventory \in InventoryRecord /\ reading \in ReadingRecord
    BY TopIs DEF InventorySound, InventoryTyped
  <1>1. PICK m : m = reading.at
    OBVIOUS
  <1>2. m \in Messages /\ m \in Nat /\ m > inventory.high /\ reading.pc = "history" /\ inventory.high \in Nat
    BY <1>0, <1>1 DEF HistoryMessage, InHistory, InventoryRecord, ReadingRecord, Messages
  <1>3. PICK high, added, rows :
          /\ high = IF remote[m] # 0 /\ m > reading.high THEN m ELSE reading.high
          /\ added = IF File(remote[m]) THEN reading.added \cup {m} ELSE reading.added
          /\ rows = IF File(remote[m]) THEN [reading.rows EXCEPT ![m] = remote[m]] ELSE reading.rows
    OBVIOUS
  <1>4. reading' = [reading EXCEPT !.at = m - 1, !.high = high, !.added = added, !.rows = rows]
    BY <1>1, <1>3 DEF HistoryMessage
  <1>5. /\ rows \in [Messages -> 0 .. 2] /\ \A o \in Messages \ {m} : rows[o] = reading.rows[o]
        /\ File(remote[m]) => rows[m] = remote[m]
        /\ ~File(remote[m]) => rows[m] = reading.rows[m]
    BY <1>0, <1>2, <1>3 DEF File, ReadingRecord
  <1>6. /\ high \in 0 .. Newest /\ reading.high <= high /\ (remote[m] # 0 => m <= high)
        /\ high = reading.high \/ (high = m /\ remote[m] # 0)
    <2>1. m \in 0 .. Newest /\ reading.high \in 0 .. Newest
      BY <1>0, <1>2 DEF ReadingRecord, Messages
    <2>2. CASE remote[m] # 0 /\ m > reading.high
      BY <1>3, <2>1, <2>2
    <2>3. CASE ~(remote[m] # 0 /\ m > reading.high)
      BY <1>3, <2>1, <2>3
    <2> QED BY <2>2, <2>3
  <1>7. /\ reading' \in ReadingRecord /\ reading'.pc = "history" /\ reading'.at = m - 1 /\ reading'.high = high
        /\ reading'.added = added /\ reading'.rows = rows /\ reading'.gen = reading.gen /\ reading'.ids = reading.ids
    <2>1. added \in SUBSET Messages /\ m - 1 \in 0 .. Newest
      <3>1. added \in SUBSET Messages
        BY <1>0, <1>2, <1>3 DEF ReadingRecord
      <3>2. m - 1 \in 0 .. Newest
        BY <1>2, NewestIs DEF Messages
      <3> QED BY <3>1, <3>2
    <2>2. PICK h : h = [reading EXCEPT !.at = m - 1, !.high = high]
      OBVIOUS
    <2>3. /\ h \in ReadingRecord /\ h.pc = "history" /\ h.at = m - 1 /\ h.high = high /\ h.gen = reading.gen
          /\ h.ids = reading.ids
      BY <1>0, <1>2, <1>6, <2>1, <2>2 DEF ReadingRecord
    <2>4. reading' = [h EXCEPT !.added = added, !.rows = rows]
      BY <1>0, <1>4, <2>2 DEF ReadingRecord
    <2> QED BY <1>5, <2>1, <2>3, <2>4 DEF ReadingRecord
  <1>8. announced[m] <= remote[m] /\ announced[m] \in Nat /\ remote[m] \in Nat
    BY <1>0, <1>2 DEF InventorySound, AnnouncedMade, InventoryTyped
  <1>9. \A o \in Messages : Behind(rows, o) => o # m \/ Behind(reading.rows, o)
    BY <1>5, <1>8 DEF Behind
  <1>10. \A o \in Messages : Behind(rows, o) => Behind(reading.rows, o)
    BY <1>5, <1>9 DEF Behind
  <1>11. ReadingFits(reading) /\ Sees(reading) /\ WalkedBy(reading)
    BY ReadingNow
  <1>12. high <= Top
    BY <1>0, <1>2, <1>6, <1>11 DEF ReadingFits, InventorySound, SentInOrder, ReadingRecord
  <1>13. ReadingFits(reading')
    <2>1. \A o \in added : o > m - 1 /\ o <= high
      <3> SUFFICES ASSUME NEW o \in added PROVE o > m - 1 /\ o <= high
        OBVIOUS
      <3>1. CASE o = m
        <4>1. File(remote[m]) \/ m \in reading.added
          BY <1>3, <3>1
        <4>2. ~(m > m)
          BY <1>2
        <4>3. File(remote[m])
          BY <1>1, <1>2, <1>11, <4>1, <4>2 DEF ReadingFits
        <4> QED BY <1>2, <1>6, <3>1, <4>3 DEF File
      <3>2. CASE o # m
        <4>1. o \in reading.added /\ o \in Nat
          BY <1>0, <1>3, <3>2, MessagesFinite DEF ReadingRecord
        <4>2. o > m /\ o <= reading.high
          BY <1>1, <1>2, <1>11, <4>1 DEF ReadingFits
        <4> QED BY <1>0, <1>2, <1>6, <4>1, <4>2 DEF ReadingRecord
      <3> QED BY <3>1, <3>2
    <2>2. inventory.high <= high
      BY <1>0, <1>2, <1>6, <1>11 DEF ReadingFits, ReadingRecord
    <2>3. reading'.gen <= dirtyMark.generation
      BY <1>7, <1>11 DEF ReadingFits
    <2>4. \A o \in Messages : Behind(rows, o) => o \in dirtyMark.ids
      BY <1>10, <1>11 DEF ReadingFits
    <2> QED BY <1>7, <1>12, <2>1, <2>2, <2>3, <2>4 DEF ReadingFits
  <1>14. Sees(reading')
    <2> SUFFICES ASSUME reading.gen = dirtyMark.generation, NEW o \in Messages
                 PROVE  /\ Behind(rows, o) => o \in reading.ids /\ inventory.cold # TRUE
                        /\ announced[o] = 1 => o <= high \/ o <= m - 1
      BY <1>7 DEF Sees
    <2>1. Behind(rows, o) => o \in reading.ids /\ inventory.cold # TRUE
      BY <1>2, <1>10, <1>11 DEF Sees
    <2>2. ASSUME announced[o] = 1 PROVE o <= high \/ o <= m - 1
      <3>1. o <= reading.high \/ o <= m
        BY <1>1, <1>2, <1>11, <2>2 DEF Sees
      <3>2. o = m => o <= high
        BY <1>6, <1>8, <2>2
      <3>3. o \in Nat /\ high \in Nat /\ reading.high \in Nat
        BY <1>0, <1>6, MessagesFinite DEF ReadingRecord
      <3> QED BY <1>2, <1>6, <3>1, <3>2, <3>3
    <2> QED BY <2>1, <2>2
  <1>15. WalkedBy(reading')
    <2> SUFFICES ASSUME inventory.cold = TRUE \/ inventory.complete = TRUE, NEW o \in Messages,
                        o <= high, o > m - 1 \/ o <= inventory.high, File(remote[o])
                 PROVE  rows[o] # 0
      BY <1>7 DEF WalkedBy
    <2>1. CASE o = m
      BY <1>5, <2>1 DEF File
    <2>2. CASE o # m
      <3>1. o > m \/ o <= inventory.high
        BY <1>2, <2>2, MessagesFinite
      <3>2. o \in Nat /\ high \in Nat /\ reading.high \in Nat /\ inventory.high <= reading.high
        BY <1>0, <1>2, <1>6, <1>11, MessagesFinite DEF ReadingRecord, ReadingFits
      <3>3. o <= reading.high
        BY <1>2, <1>6, <2>2, <3>1, <3>2
      <3>4. reading.rows[o] # 0
        BY <1>1, <1>2, <1>11, <3>1, <3>3 DEF WalkedBy
      <3> QED BY <1>5, <2>2, <3>4
    <2> QED BY <2>1, <2>2
  <1> QED BY <1>13, <1>14, <1>15, ReadingMoves DEF HistoryMessage

\* A step that leaves what was seen and only goes on.
LEMMA GoesOnKeeps ==
  ASSUME InventorySound, HistoryEnds \/ AuditRefused \/ SaveCursor
  PROVE  InventorySound'
  <1>0. InventoryTyped /\ Top \in Nat /\ inventory \in InventoryRecord /\ reading \in ReadingRecord
    BY TopIs DEF InventorySound, InventoryTyped
  <1>1. /\ UNCHANGED <<remote, revision, dirtyMark, inventory, change, announced, changes>>
        /\ reading.pc \in {"history", "audit", "commit"}
    BY DEF HistoryEnds, HistoryDone, AuditRefused, SaveCursor
  <1>2. PICK pc \in {"verify", "audit", "commit", "publish"} :
          /\ reading' = [reading EXCEPT !.pc = pc]
          /\ pc = "verify" => HistoryEnds /\ ~inventory.cold
          /\ pc = "audit" => HistoryEnds /\ reading.ids = {}
          /\ pc = "commit" => AuditRefused \/ (HistoryEnds /\ inventory.cold)
          /\ pc = "publish" => SaveCursor
    BY <1>0 DEF HistoryEnds, AuditRefused, SaveCursor, InventoryRecord
  <1>3. /\ reading' \in ReadingRecord /\ reading'.pc = pc /\ reading'.gen = reading.gen /\ reading'.ids = reading.ids
        /\ reading'.high = reading.high /\ reading'.rows = reading.rows /\ reading'.added = reading.added
    BY <1>0, <1>2 DEF ReadingRecord
  <1>4. ReadingFits(reading) /\ Sees(reading) /\ WalkedBy(reading)
    BY ReadingNow
  <1>5. HistoryEnds => /\ reading.pc = "history"
                       /\ reading.at <= inventory.high \/ ~(Cardinality(reading.added) <= MaxFiles)
    BY <1>0 DEF HistoryEnds, HistoryDone, InHistory, ReadingRecord, InventoryRecord
  <1>6. ~HistoryEnds => reading.pc \in {"audit", "commit"}
    BY DEF AuditRefused, SaveCursor
  <1>7. ReadingFits(reading')
    BY <1>1, <1>2, <1>3, <1>4 DEF ReadingFits
  <1>8. Sees(reading')
    <2> SUFFICES ASSUME reading.gen = dirtyMark.generation, NEW m \in Messages
                 PROVE  /\ Behind(reading.rows, m) => m \in reading.ids /\ pc = "verify" /\ inventory.cold # TRUE
                        /\ announced[m] = 1 => m <= reading.high
      BY <1>2, <1>3 DEF Sees
    <2>1. Behind(reading.rows, m) => m \in reading.ids /\ reading.pc = "history" /\ inventory.cold # TRUE
      BY <1>1, <1>4 DEF Sees
    <2>2. Behind(reading.rows, m) => HistoryEnds
      BY <1>6, <2>1
    <2>3. Behind(reading.rows, m) => pc = "verify"
      <3> SUFFICES ASSUME Behind(reading.rows, m) PROVE pc = "verify"
        OBVIOUS
      <3>1. pc # "audit"
        BY <1>2, <2>1
      <3>2. reading.pc = "history" /\ inventory.cold # TRUE
        BY <2>1
      <3>3. pc # "commit"
        BY <1>0, <1>2, <3>2 DEF AuditRefused, InventoryRecord
      <3>4. pc # "publish"
        BY <1>2, <3>2 DEF SaveCursor
      <3> QED BY <3>1, <3>3, <3>4
    <2>4. announced[m] = 1 => m <= reading.high
      <3> SUFFICES ASSUME announced[m] = 1, ~(m <= reading.high) PROVE FALSE
        OBVIOUS
      <3>1. reading.pc = "history" /\ m <= reading.at
        BY <1>1, <1>4 DEF Sees
      <3>2. HistoryEnds
        BY <1>6, <3>1
      <3>3. m \in Nat /\ reading.at \in Nat /\ reading.high \in Nat /\ inventory.high \in Nat
        BY <1>0, MessagesFinite DEF ReadingRecord, InventoryRecord
      <3>4. inventory.high <= reading.high
        BY <1>1, <1>4 DEF ReadingFits
      <3>5. CASE reading.at <= inventory.high
        BY <3>1, <3>3, <3>4, <3>5
      <3>6. CASE ~(Cardinality(reading.added) <= MaxFiles)
        <4>1. reading.added # {}
          BY <3>6, FS_EmptySet, NewestIs
        <4>2. PICK o \in reading.added : o > reading.at /\ o <= reading.high
          BY <1>4, <3>1, <4>1 DEF ReadingFits
        <4>3. o \in Nat
          BY <1>0, <4>2, MessagesFinite DEF ReadingRecord
        <4> QED BY <3>1, <3>3, <4>2, <4>3
      <3> QED BY <1>5, <3>2, <3>5, <3>6
    <2> QED BY <2>1, <2>3, <2>4
  <1>9. WalkedBy(reading')
    <2> SUFFICES ASSUME inventory.cold = TRUE \/ inventory.complete = TRUE, Cardinality(reading.added) <= MaxFiles,
                        NEW m \in Messages, m <= reading.high, File(remote[m])
                 PROVE  reading.rows[m] # 0
      BY <1>1, <1>2, <1>3 DEF WalkedBy
    <2>1. CASE HistoryEnds
      <3>1. reading.at <= inventory.high
        BY <1>5, <2>1
      <3>2. m > reading.at \/ m <= inventory.high
        BY <1>0, <3>1, MessagesFinite DEF ReadingRecord, InventoryRecord
      <3> QED BY <1>4, <1>5, <2>1, <3>2 DEF WalkedBy
    <2>2. CASE ~HistoryEnds
      <3>1. reading.pc \in {"audit", "commit"}
        BY <1>6, <2>2
      <3> QED BY <1>4, <3>1 DEF WalkedBy
    <2> QED BY <2>1, <2>2
  <1> QED BY <1>1, <1>7, <1>8, <1>9, ReadingMoves

LEMMA VerifiedIs ==
  ASSUME InventorySound, NEW rows \in [Messages -> 0 .. 2], NEW m \in Messages
  PROVE  /\ Verified(rows, m) \in [Messages -> 0 .. 2] /\ ~Behind(Verified(rows, m), m)
         /\ File(remote[m]) => Verified(rows, m)[m] # 0
         /\ \A o \in Messages \ {m} : Verified(rows, m)[o] = rows[o]
  <1>1. PICK v : v = IF File(remote[m]) THEN remote[m] ELSE 0
    OBVIOUS
  <1>2. v \in 0 .. 2 /\ (File(remote[m]) => v = remote[m] /\ v # 0) /\ (~File(remote[m]) => v = 0)
    BY <1>1 DEF File
  <1>3. Verified(rows, m) = [rows EXCEPT ![m] = v]
    BY <1>1 DEF Verified
  <1>4. announced[m] <= remote[m] /\ announced[m] \in Nat /\ remote[m] \in Nat
    BY DEF InventorySound, InventoryTyped, AnnouncedMade
  <1> QED BY <1>2, <1>3, <1>4 DEF Behind

\* A read that has verified one message.
LEMMA VerifyingFits ==
  ASSUME InventorySound, NEW m \in Messages, reading.pc \in {"verify", "audit"}, NEW r \in ReadingRecord,
         r.pc \in {"verify", "audit", "commit"}, r.rows = Verified(reading.rows, m), r.gen = reading.gen, r.high = reading.high,
         r.added = reading.added, \A o \in Messages : o \in reading.ids /\ reading.pc = "verify" /\ o # m => o \in r.ids /\ r.pc = "verify"
  PROVE  ReadingFits(r) /\ Sees(r) /\ WalkedBy(r)
  <1>0. InventoryTyped /\ reading \in ReadingRecord /\ ReadingFits(reading) /\ Sees(reading) /\ WalkedBy(reading)
    BY ReadingNow DEF InventorySound, InventoryTyped
  <1>1. /\ ~Behind(r.rows, m) /\ (File(remote[m]) => r.rows[m] # 0)
        /\ \A o \in Messages \ {m} : r.rows[o] = reading.rows[o]
    BY <1>0, VerifiedIs DEF ReadingRecord
  <1>2. \A o \in Messages : Behind(r.rows, o) => o # m /\ Behind(reading.rows, o)
    BY <1>1 DEF Behind
  <1>3. ReadingFits(r)
    BY <1>0, <1>2 DEF ReadingFits
  <1>4. Sees(r)
    BY <1>0, <1>2 DEF Sees
  <1>5. WalkedBy(r)
    BY <1>0, <1>1 DEF WalkedBy
  <1> QED BY <1>3, <1>4, <1>5

LEMMA VerifyKeeps ==
  ASSUME InventorySound, NEW m \in Messages, VerifyChanged(m)
  PROVE  InventorySound'
  <1>0. reading \in ReadingRecord
    BY DEF InventorySound, InventoryTyped
  <1>1. PICK pc, rows, ids : /\ pc = (IF reading.ids = {m} THEN "audit" ELSE "verify")
                             /\ rows = Verified(reading.rows, m) /\ ids = reading.ids \ {m}
    OBVIOUS
  <1>2. /\ reading.pc = "verify" /\ m \in reading.ids
        /\ reading' = [reading EXCEPT !.ids = ids, !.rows = rows, !.pc = pc]
    BY <1>1 DEF VerifyChanged
  <1>3. pc \in {"audit", "verify"} /\ ids \subseteq Messages /\ rows \in [Messages -> 0 .. 2]
        /\ \A o \in Messages : o \in reading.ids /\ o # m => o \in ids /\ pc = "verify"
    BY <1>0, <1>1, <1>2, VerifiedIs DEF ReadingRecord
  <1>4. /\ reading' \in ReadingRecord /\ reading'.pc = pc /\ reading'.rows = rows /\ reading'.ids = ids /\ reading'.gen = reading.gen
        /\ reading'.high = reading.high /\ reading'.added = reading.added
    BY <1>0, <1>2, <1>3 DEF ReadingRecord
  <1>5. ReadingFits(reading') /\ Sees(reading') /\ WalkedBy(reading')
    BY <1>1, <1>2, <1>3, <1>4, VerifyingFits
  <1> QED BY <1>5, ReadingMoves DEF VerifyChanged

LEMMA AuditKeeps ==
  ASSUME InventorySound, AuditBatch
  PROVE  InventorySound'
  <1>0. reading \in ReadingRecord /\ reading.pc = "audit" /\ ReadingFits(reading) /\ Sees(reading) /\ WalkedBy(reading)
    BY ReadingNow DEF InventorySound, InventoryTyped, AuditBatch
  <1>1. ASSUME NEW m \in ToAudit,
               reading' = [reading EXCEPT !.pc = "commit", !.rows = Verified(reading.rows, m), !.auditAfter = m,
                                          !.swept = ToAudit = {m}]
        PROVE  ReadingFits(reading') /\ Sees(reading') /\ WalkedBy(reading')
    <2>1. m \in Messages /\ m \in 0 .. Newest
      BY DEF ToAudit, Listed, Messages
    <2>a. PICK rows : rows = Verified(reading.rows, m)
      OBVIOUS
    <2>b. PICK swept \in BOOLEAN : swept = (ToAudit = {m})
      OBVIOUS
    <2>2. rows = Verified(reading.rows, m) /\ swept = (ToAudit = {m})
      BY <2>a, <2>b
    <2>3. rows \in [Messages -> 0 .. 2]
      BY <1>0, <2>1, <2>2, VerifiedIs DEF ReadingRecord
    <2>4. PICK h : h = [reading EXCEPT !.pc = "commit", !.rows = rows]
      OBVIOUS
    <2>5. /\ h \in ReadingRecord /\ h.pc = "commit" /\ h.rows = rows /\ h.ids = reading.ids /\ h.gen = reading.gen
          /\ h.high = reading.high /\ h.added = reading.added
      BY <1>0, <2>3, <2>4 DEF ReadingRecord
    <2>6. reading' = [h EXCEPT !.auditAfter = m, !.swept = swept]
      BY <1>0, <1>1, <2>2, <2>4 DEF ReadingRecord
    <2>7. /\ reading' \in ReadingRecord /\ reading'.pc = "commit" /\ reading'.rows = rows /\ reading'.ids = reading.ids
          /\ reading'.gen = reading.gen /\ reading'.high = reading.high /\ reading'.added = reading.added
      BY <2>1, <2>5, <2>6 DEF ReadingRecord
    <2> QED BY <1>0, <2>1, <2>2, <2>7, VerifyingFits
  <1>2. ASSUME \/ reading' = [reading EXCEPT !.pc = "commit", !.swept = TRUE]
               \/ reading' = [reading EXCEPT !.pc = "commit"]
        PROVE  ReadingFits(reading') /\ Sees(reading') /\ WalkedBy(reading')
    <2>1. /\ reading' \in ReadingRecord /\ reading'.pc = "commit" /\ reading'.rows = reading.rows /\ reading'.ids = reading.ids
          /\ reading'.gen = reading.gen /\ reading'.high = reading.high /\ reading'.added = reading.added
      BY <1>0, <1>2 DEF ReadingRecord
    <2>2. ReadingFits(reading')
      BY <1>0, <2>1 DEF ReadingFits
    <2>3. Sees(reading')
      BY <1>0, <2>1 DEF Sees
    <2>4. WalkedBy(reading')
      BY <1>0, <2>1 DEF WalkedBy
    <2> QED BY <2>2, <2>3, <2>4
  <1>3. ReadingFits(reading') /\ Sees(reading') /\ WalkedBy(reading')
    BY <1>1, <1>2 DEF AuditBatch
  <1> QED BY <1>3, ReadingMoves DEF AuditBatch

(***************************************************************************)
(* What becomes of the inventory.                                          *)
(***************************************************************************)
\* Its flags change, or nothing of it: the rows and the cursors stay.
LEMMA FlagsKeep ==
  ASSUME InventorySound, inventory' \in InventoryRecord, inventory'.rows = inventory.rows, inventory'.high = inventory.high,
         inventory'.dirty = inventory.dirty, inventory'.cold = inventory.cold, inventory'.complete = inventory.complete,
         reading' = reading \/ reading' = NoReading,
         UNCHANGED <<remote, revision, dirtyMark, change, announced, changes>>
  PROVE  InventorySound'
  <1>0. InventoryTyped /\ Messages' = Messages /\ Top' = Top /\ Top \in Nat
    BY TopIs DEF InventorySound, Messages, Top
  <1>1. ReadingFits(reading) /\ Sees(reading) /\ WalkedBy(reading)
    BY ReadingNow
  <1>2. NoReading \in ReadingRecord /\ NoReading.pc = "none" /\ NoReading.gen = 0 /\ NoReading.high = 0 /\ NoReading.rows = Absent
    BY NewestIs DEF NoReading, ReadingRecord, Absent
  <1>3. \A m \in Messages : ~Behind(Absent, m)
    BY DEF Behind, Absent
  <1>4. ReadingFits(NoReading) /\ Sees(NoReading) /\ WalkedBy(NoReading)
    BY <1>0, <1>2, <1>3 DEF ReadingFits, Sees, WalkedBy, InventoryTyped
  <1>5. ReadingFits(reading') /\ Sees(reading') /\ WalkedBy(reading')
    BY <1>1, <1>4
  <1>6. InventoryTyped'
    BY <1>0, <1>5 DEF InventoryTyped, ReadingFits, InventoryRecord, ReadingRecord, ChangeRecord
  <1>7. SentInOrder' /\ ChangesCounted' /\ ChangeMade' /\ AnnouncedMade'
    <2>1. SentInOrder' /\ ChangesCounted'
      BY <1>0 DEF InventorySound, SentInOrder, ChangesCounted
    <2>2. ChangeMade' /\ AnnouncedMade'
      BY <1>0 DEF InventorySound, ChangeMade, AnnouncedMade
    <2> QED BY <2>1, <2>2
  <1>8. Drawn' /\ BehindMarked' /\ ColdEmpty' /\ HighSent'
    <2>1. Drawn' /\ BehindMarked'
      BY <1>0, <1>5 DEF InventorySound, ReadingFits, Drawn, BehindMarked, Behind
    <2>2. ColdEmpty' /\ HighSent'
      BY <1>0, <1>5 DEF InventorySound, ReadingFits, ColdEmpty, HighSent, Absent
    <2> QED BY <2>1, <2>2
  <1>9. ReadingSees'
    BY <1>0, <1>5 DEF Sees, ReadingSees, Behind
  <1>10. Walked'
    BY <1>0, <1>5 DEF WalkedBy, Walked, Whole, File
  <1>11. AnnouncedSeen' /\ NoFileMissed' /\ (Cardinality(Listed(inventory.rows)) <= MaxFiles)'
    <2>1. AnnouncedSeen'
      BY <1>0 DEF InventorySound, AnnouncedSeen, IsDirty
    <2>2. NoFileMissed'
      BY <1>0 DEF InventorySound, NoFileMissed, File
    <2>3. (Cardinality(Listed(inventory.rows)) <= MaxFiles)'
      BY <1>0 DEF InventorySound, Listed
    <2> QED BY <2>1, <2>2, <2>3
  <1> QED BY <1>6, <1>7, <1>8, <1>9, <1>10, <1>11 DEF InventorySound

LEMMA DroppedKeeps ==
  ASSUME InventorySound, ReadConflicts \/ ReadFails
  PROVE  InventorySound'
  <1>0. inventory \in InventoryRecord
    BY DEF InventorySound, InventoryTyped
  <1>1. PICK stale \in BOOLEAN : stale = (inventory.stale \/ reading.background)
    OBVIOUS
  <1>2. /\ reading' = NoReading /\ inventory' = [inventory EXCEPT !.stale = stale]
        /\ UNCHANGED <<remote, revision, dirtyMark, change, announced, changes>>
    BY <1>1 DEF ReadConflicts, ReadFails, ReadDropped
  <1>3. /\ inventory' \in InventoryRecord /\ inventory'.rows = inventory.rows /\ inventory'.high = inventory.high
        /\ inventory'.dirty = inventory.dirty /\ inventory'.cold = inventory.cold /\ inventory'.complete = inventory.complete
    BY <1>0, <1>2 DEF InventoryRecord
  <1> QED BY <1>2, <1>3, FlagsKeep

LEMMA TimeKeeps ==
  ASSUME InventorySound, PollDue \/ AuditDue
  PROVE  InventorySound'
  <1>0. inventory \in InventoryRecord
    BY DEF InventorySound, InventoryTyped
  <1>1. /\ inventory' = [inventory EXCEPT !.pollDue = TRUE] \/ inventory' = [inventory EXCEPT !.auditDue = TRUE]
        /\ UNCHANGED <<remote, revision, dirtyMark, reading, change, announced, changes>>
    BY DEF PollDue, AuditDue
  <1>2. /\ inventory' \in InventoryRecord /\ inventory'.rows = inventory.rows /\ inventory'.high = inventory.high
        /\ inventory'.dirty = inventory.dirty /\ inventory'.cold = inventory.cold /\ inventory'.complete = inventory.complete
    BY <1>0, <1>1 DEF InventoryRecord
  <1> QED BY <1>1, <1>2, FlagsKeep

\* What remains when the inventory is another one and no read is under way.
LEMMA InventoryReplaced ==
  ASSUME InventorySound, UNCHANGED <<remote, revision, change, announced, changes>>, reading' = NoReading,
         inventory' \in InventoryRecord, dirtyMark' \in [generation : Nat, ids : SUBSET Messages],
         dirtyMark'.generation = dirtyMark.generation, inventory'.dirty <= dirtyMark.generation, inventory'.high <= Top,
         \A m \in Messages : Behind(inventory'.rows, m) => m \in dirtyMark'.ids,
         inventory'.cold = TRUE => inventory'.rows = Absent /\ inventory'.high = 0,
         Cardinality(Listed(inventory'.rows)) <= MaxFiles, AnnouncedSeen', NoFileMissed'
  PROVE  InventorySound'
  <1>0. InventoryTyped /\ Messages' = Messages /\ Top' = Top /\ Top \in Nat /\ Absent' = Absent
    BY TopIs DEF InventorySound, Messages, Top, Absent
  <1>2. NoReading \in ReadingRecord /\ NoReading.pc = "none" /\ NoReading.gen = 0 /\ NoReading.high = 0 /\ NoReading.rows = Absent
    BY NewestIs DEF NoReading, ReadingRecord, Absent
  <1>3. \A m \in Messages : ~Behind(Absent, m)
    BY DEF Behind, Absent
  <1>4. InventoryTyped'
    BY <1>0, <1>2 DEF InventoryTyped, InventoryRecord, ReadingRecord, ChangeRecord
  <1>5. SentInOrder' /\ ChangesCounted' /\ ChangeMade' /\ AnnouncedMade'
    <2>1. SentInOrder' /\ ChangesCounted'
      BY <1>0 DEF InventorySound, SentInOrder, ChangesCounted
    <2>2. ChangeMade' /\ AnnouncedMade'
      BY <1>0 DEF InventorySound, ChangeMade, AnnouncedMade
    <2> QED BY <2>1, <2>2
  <1>6. Drawn' /\ BehindMarked' /\ ColdEmpty' /\ HighSent'
    <2>1. Drawn'
      BY <1>0, <1>2 DEF InventoryTyped, Drawn
    <2>2. BehindMarked'
      BY <1>0, <1>2, <1>3 DEF BehindMarked, Behind
    <2>3. ColdEmpty' /\ HighSent'
      BY <1>0, <1>2 DEF ColdEmpty, HighSent
    <2> QED BY <2>1, <2>2, <2>3
  <1>7. ReadingSees' /\ Walked'
    BY <1>2 DEF ReadingSees, Walked
  <1>8. (Cardinality(Listed(inventory.rows)) <= MaxFiles)'
    BY <1>0 DEF Listed
  <1> QED BY <1>4, <1>5, <1>6, <1>7, <1>8 DEF InventorySound

LEMMA ReadEndsKeeps ==
  ASSUME InventorySound, ReadEnds
  PROVE  InventorySound'
  <1>0. /\ InventoryTyped /\ inventory \in InventoryRecord /\ reading \in ReadingRecord /\ reading.pc = "publish" /\ Top \in Nat
        /\ ReadingFits(reading) /\ Sees(reading) /\ WalkedBy(reading)
    BY ReadingNow, TopIs DEF InventorySound, InventoryTyped, ReadEnds
  <1>1. PICK rows : rows = [m \in Messages |-> IF m \in NewestOf(reading.rows) THEN reading.rows[m] ELSE 0]
    OBVIOUS
  <1>2. PICK complete \in BOOLEAN : complete = (/\ inventory.cold \/ inventory.complete
                                                /\ Cardinality(reading.added) <= MaxFiles /\ rows = reading.rows)
    OBVIOUS
  <1>3. PICK auditDue \in BOOLEAN : auditDue = (inventory.auditDue /\ ~(inventory.cold \/ reading.swept))
    OBVIOUS
  <1>4. PICK stale \in BOOLEAN : stale = (inventory.stale /\ ~(inventory.cold \/ reading.swept))
    OBVIOUS
  <1>5. PICK after \in 0 .. Newest : after = AuditCursor(reading)
    BY <1>0, NewestIs DEF AuditCursor, ReadingRecord
  <1>6. /\ inventory' = [rows |-> rows, complete |-> complete, auditAfter |-> after, dirty |-> reading.gen, cold |-> FALSE,
                         high |-> reading.high, pollDue |-> FALSE, auditDue |-> auditDue, stale |-> stale]
        /\ dirtyMark' = ForgetVerified /\ reading' = NoReading
        /\ UNCHANGED <<remote, revision, change, announced, changes>>
    BY <1>1, <1>2, <1>3, <1>4, <1>5 DEF ReadEnds
  <1>7. /\ rows \in [Messages -> 0 .. 2] /\ \A m \in Messages : rows[m] # 0 => rows[m] = reading.rows[m]
    BY <1>0, <1>1 DEF ReadingRecord
  <1>8. /\ inventory' \in InventoryRecord /\ inventory'.rows = rows /\ inventory'.complete = complete
        /\ inventory'.dirty = reading.gen /\ inventory'.cold = FALSE /\ inventory'.high = reading.high
    BY <1>0, <1>6, <1>7 DEF InventoryRecord, ReadingRecord
  <1>9. Messages' = Messages
    BY DEF Messages
  <1>10. /\ dirtyMark' \in [generation : Nat, ids : SUBSET Messages] /\ dirtyMark'.generation = dirtyMark.generation
         /\ reading.gen # dirtyMark.generation => dirtyMark'.ids = dirtyMark.ids
    BY <1>0, <1>6 DEF ForgetVerified, InventoryTyped
  <1>11. \A m \in Messages : Behind(rows, m) => Behind(reading.rows, m)
    BY <1>7 DEF Behind
  <1>12. reading.gen = dirtyMark.generation => \A m \in Messages : ~Behind(rows, m)
    BY <1>0, <1>11 DEF Sees
  <1>13. \A m \in Messages : Behind(rows, m) => m \in dirtyMark'.ids
    BY <1>0, <1>10, <1>11, <1>12 DEF ReadingFits
  <1>14. Cardinality(Listed(rows)) <= MaxFiles
    <2>1. Listed(rows) \subseteq NewestOf(reading.rows) /\ NewestOf(reading.rows) \in SUBSET Messages
      BY <1>1 DEF Listed, NewestOf
    <2>2. Cardinality(Listed(rows)) <= Cardinality(NewestOf(reading.rows)) /\ Cardinality(NewestOf(reading.rows)) \in Nat
          /\ Cardinality(Listed(rows)) \in Nat
      <3>1. IsFiniteSet(NewestOf(reading.rows)) /\ Listed(rows) \in SUBSET Messages
        BY <2>1, MessagesFinite
      <3>2. Cardinality(Listed(rows)) <= Cardinality(NewestOf(reading.rows))
        BY <2>1, <3>1, FS_Subset
      <3> QED BY <2>1, <3>1, <3>2, MessagesFinite
    <2>3. Cardinality(NewestOf(reading.rows)) <= MaxFiles
      BY <1>0, NewestBounded DEF ReadingRecord
    <2>4. \A i, j \in Nat : i <= j /\ j <= MaxFiles => i <= MaxFiles
      BY NewestIs
    <2> QED BY <2>2, <2>3, <2>4
  <1>15. AnnouncedSeen'
    <2> SUFFICES ASSUME reading.gen = dirtyMark.generation, NEW m \in Messages
                 PROVE  /\ rows[m] # 0 => rows[m] >= announced[m]
                        /\ announced[m] = 1 => m <= reading.high
      BY <1>6, <1>8, <1>9, <1>10 DEF AnnouncedSeen, IsDirty
    <2>1. announced[m] \in Nat /\ rows[m] \in Nat
      BY <1>0, <1>7 DEF InventoryTyped
    <2>2. rows[m] # 0 => rows[m] >= announced[m]
      BY <1>12, <2>1 DEF Behind
    <2>3. announced[m] = 1 => m <= reading.high
      BY <1>0 DEF Sees
    <2> QED BY <2>2, <2>3
  <1>16. NoFileMissed'
    <2> SUFFICES ASSUME complete = TRUE, NEW m \in 1 .. reading.high, File(remote[m]) PROVE rows[m] # 0
      BY <1>6, <1>8 DEF NoFileMissed, File
    <2>1. inventory.cold \/ inventory.complete
      BY <1>2
    <2>2. Cardinality(reading.added) <= MaxFiles /\ rows = reading.rows
      BY <1>2
    <2>3. inventory.cold = TRUE \/ inventory.complete = TRUE
      BY <1>0, <2>1 DEF InventoryRecord
    <2>4. m \in Messages /\ m <= reading.high
      BY <1>0, NewestIs DEF Messages, ReadingRecord
    <2> QED BY <1>0, <2>2, <2>3, <2>4 DEF WalkedBy
  <1>17. inventory'.dirty <= dirtyMark.generation /\ inventory'.high <= Top
    BY <1>0, <1>8 DEF ReadingFits
  <1>18. inventory'.cold # TRUE
    BY <1>8
  <1> QED BY <1>6, <1>8, <1>10, <1>13, <1>14, <1>15, <1>16, <1>17, <1>18, InventoryReplaced

LEMMA ColdIs ==
  /\ Cold \in InventoryRecord /\ Cold.rows = Absent /\ Cold.high = 0 /\ Cold.dirty = 0 /\ Cold.cold = TRUE
  /\ Listed(Absent) = {} /\ Cardinality(Listed(Absent)) <= MaxFiles /\ Absent \in [Messages -> 0 .. 2]
  /\ \A m \in Messages : Absent[m] = 0
  <1>1. Absent \in [Messages -> 0 .. 2] /\ Listed(Absent) = {} /\ \A m \in Messages : Absent[m] = 0
    BY DEF Absent, Listed
  <1>2. Cold \in InventoryRecord /\ Cold.rows = Absent /\ Cold.high = 0 /\ Cold.dirty = 0 /\ Cold.cold = TRUE
    BY <1>1, NewestIs DEF Cold, InventoryRecord
  <1> QED BY <1>1, <1>2, FS_EmptySet, NewestIs

LEMMA EvictKeeps ==
  ASSUME InventorySound, Evict
  PROVE  InventorySound'
  <1>0. InventoryTyped /\ Top \in Nat
    BY TopIs DEF InventorySound
  <1>1. /\ reading' = NoReading /\ inventory' = Cold
        /\ UNCHANGED <<remote, revision, dirtyMark, change, announced, changes>>
    BY DEF Evict, NewEntry
  <1>2. AnnouncedSeen' /\ NoFileMissed'
    BY <1>1, ColdIs DEF AnnouncedSeen, NoFileMissed
  <1>3. \A m \in Messages : ~Behind(inventory'.rows, m)
    BY <1>1, ColdIs DEF Behind
  <1>4. inventory'.dirty <= dirtyMark.generation /\ inventory'.high <= Top
    BY <1>0, <1>1, ColdIs DEF InventoryTyped
  <1> QED BY <1>0, <1>1, <1>2, <1>3, <1>4, ColdIs, InventoryReplaced DEF InventoryTyped

LEMMA InventoryStep == InventorySound /\ [InventoryNext]_inventoryVars => InventorySound'
  <1> SUFFICES ASSUME InventorySound, [InventoryNext]_inventoryVars PROVE InventorySound'
    OBVIOUS
  <1>1. CASE UNCHANGED inventoryVars
    <2>1. UNCHANGED <<remote, revision, dirtyMark, inventory, reading, change, announced, changes>>
      BY <1>1 DEF inventoryVars
    <2> QED BY <2>1, FlagsKeep DEF InventorySound, InventoryTyped
  <1>2. ASSUME NEW v \in {1, 3}, OtherDeviceSends(v) PROVE InventorySound'
    <2>1. 1 \in Messages
      BY NewestIs DEF Messages
    <2> QED BY <1>2, <2>1, OthersKeep
  <1>3. ASSUME NEW m \in Messages, DeletedElsewhere(m) \/ VerifyChanged(m) \/ \E v \in 1 .. 3 : Mutate(m, v)
        PROVE  InventorySound'
    <2>1. CASE DeletedElsewhere(m)
      BY <2>1, OthersKeep
    <2>2. CASE VerifyChanged(m)
      BY <2>2, VerifyKeeps
    <2>3. ASSUME NEW v \in 1 .. 3, Mutate(m, v) PROVE InventorySound'
      BY <2>3, MutateKeeps
    <2> QED BY <1>3, <2>1, <2>2, <2>3
  <1>4. CASE ChangedRevision \/ Apply
    BY <1>4, RevisionKeeps
  <1>5. CASE ChangedDirty \/ Invalidate
    BY <1>5, MarkedKeeps
  <1>6. ASSUME NEW b \in BOOLEAN, ReadBegins(b) PROVE InventorySound'
    BY <1>6, ReadBeginsKeeps
  <1>7. CASE HistoryMessage
    BY <1>7, HistoryMessageKeeps
  <1>8. CASE HistoryEnds \/ AuditRefused \/ SaveCursor
    BY <1>8, GoesOnKeeps
  <1>9. CASE AuditBatch
    BY <1>9, AuditKeeps
  <1>10. CASE ReadEnds
    BY <1>10, ReadEndsKeeps
  <1>11. CASE ReadConflicts \/ ReadFails
    BY <1>11, DroppedKeeps
  <1>12. CASE PollDue \/ AuditDue
    BY <1>12, TimeKeeps
  <1>13. CASE Evict
    BY <1>13, EvictKeeps
  <1> QED BY <1>1, <1>2, <1>3, <1>4, <1>5, <1>6, <1>7, <1>8, <1>9, <1>10, <1>11, <1>12, <1>13 DEF InventoryNext

LEMMA InventoryStarts == InventoryInit => InventorySound
  <1> SUFFICES ASSUME InventoryInit PROVE InventorySound
    OBVIOUS
  <1>1. /\ remote \in [Messages -> {0, 1}] /\ revision = 0 /\ dirtyMark = [generation |-> 0, ids |-> {}]
        /\ inventory = Cold /\ reading = NoReading /\ change = NoChange /\ announced = Absent /\ changes = 0
    BY DEF InventoryInit, NewEntry
  <1>2. /\ NoReading \in ReadingRecord /\ NoReading.pc = "none" /\ NoReading.gen = 0 /\ NoReading.high = 0
        /\ NoReading.rows = Absent
    BY NewestIs DEF NoReading, ReadingRecord, Absent
  <1>3. NoChange \in ChangeRecord /\ NoChange.pc = "none"
    BY NewestIs DEF NoChange, ChangeRecord, ChangeStages
  <1>4. /\ dirtyMark \in [generation : Nat, ids : SUBSET Messages] /\ dirtyMark.generation = 0
        /\ announced \in [Messages -> 0 .. 3] /\ remote \in [Messages -> 0 .. 3] /\ \A m \in Messages : announced[m] = 0
    <2>1. announced \in [Messages -> 0 .. 3] /\ \A m \in Messages : announced[m] = 0
      BY <1>1, ColdIs
    <2> QED BY <1>1, <2>1
  <1>5. InventoryTyped
    BY <1>1, <1>2, <1>3, <1>4, ColdIs, NewestIs DEF InventoryTyped
  <1>6. ChangesCounted /\ ChangeMade
    BY <1>1, <1>3, <1>4 DEF ChangesCounted, ChangeMade
  <1>7. AnnouncedMade
    BY <1>4, <1>5 DEF AnnouncedMade, InventoryTyped
  <1>8. Drawn /\ BehindMarked /\ ColdEmpty
    BY <1>1, <1>2, <1>4, ColdIs DEF Drawn, BehindMarked, Behind, ColdEmpty
  <1>9. HighSent
    BY <1>1, <1>2, ColdIs, TopIs DEF HighSent
  <1>10. ReadingSees /\ Walked
    BY <1>1, <1>2 DEF ReadingSees, Walked
  <1>11. AnnouncedSeen /\ NoFileMissed
    BY <1>1, ColdIs DEF AnnouncedSeen, NoFileMissed
  <1>12. Cardinality(Listed(inventory.rows)) <= MaxFiles
    BY <1>1, ColdIs
  <1> QED BY <1>5, <1>6, <1>7, <1>8, <1>9, <1>10, <1>11, <1>12, SentAtStart DEF InventorySound

(***************************************************************************)
(* A published listing shows every announced change and passes no file     *)
(* over, for any number of messages and changes and any limit on the files *)
(* (file_inventory.rs, Inventory::read and changed).                       *)
(***************************************************************************)
THEOREM InventoryInvariant == InventorySpec => []InventoryInv
  <1>1. InventorySpec => []InventorySound
    BY InventoryStarts, InventoryStep, PTL DEF InventorySpec
  <1>2. InventorySound => InventoryInv
    <2> SUFFICES ASSUME InventorySound PROVE InventoryInv
      OBVIOUS
    <2>1. InventoryTyped /\ ChangesCounted
      BY DEF InventorySound
    <2>2. revision <= 3 * MaxChanges /\ dirtyMark.generation <= MaxChanges
      BY <2>1, NewestIs DEF InventoryTyped, ChangesCounted
    <2>3. InventoryTypeOK
      BY <2>1, <2>2 DEF InventorySound, InventoryTyped, InventoryRecord, InventoryTypeOK
    <2> QED BY <2>3 DEF InventorySound, InventoryInv
  <1> QED BY <1>1, <1>2, PTL
=============================================================================
