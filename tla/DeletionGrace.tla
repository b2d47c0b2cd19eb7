--------------------------- MODULE DeletionGrace ---------------------------
(***************************************************************************)
(* The deletion grace period of one file (workspace/cleanup.rs).  A        *)
(* removal is scheduled with a fingerprint of the message, may be restored *)
(* until it is processed, and is processed in several durable steps around *)
(* one irreversible RPC.  The lock OPERATIONS serialises the three         *)
(* commands; the process may end and the account may change at any step,   *)
(* the RPC may fail after it took effect, and other devices edit or delete *)
(* the message.                                                            *)
(***************************************************************************)
EXTENDS Naturals

CONSTANT MaxVersion  \* bound: edits of the message by other devices

ASSUME VersionAssumption == MaxVersion \in Nat \ {0}

VARIABLES
  posted,   \* version of the message at Telegram, 0 when it is gone
  removal,  \* the durable record: status, fingerprint and whether it is due
  row,      \* the file is in workspace_files
  command,  \* the command that holds OPERATIONS, and what it read
  killed    \* history: this program deleted the message

graceVars == <<posted, removal, row, command, killed>>

RemovalStatuses == {"absent", "pending", "deleting", "failed", "restored", "deleted"}
MessageVersions == 0..MaxVersion
Removals == [status : RemovalStatuses, print : MessageVersions, due : BOOLEAN]
Stages == {"idle", "schedule", "fetched", "claimed", "called", "finish"}
Commands == [at : Stages, seen : MessageVersions]
Idle == [at |-> "idle", seen |-> 0]

GraceInit ==
  /\ posted = 1 /\ removal = [status |-> "absent", print |-> 0, due |-> FALSE]
  /\ row = TRUE /\ command = Idle /\ killed = FALSE

\* ---- cmd_cleanup_schedule
ScheduleReads ==
  /\ command.at = "idle" /\ row /\ posted # 0
  /\ command' = [at |-> "schedule", seen |-> posted]
  /\ UNCHANGED <<posted, removal, row, killed>>

\* A removal that is under way is left as it is.
ScheduleWrites ==
  /\ command.at = "schedule" /\ command' = Idle
  /\ removal' = IF removal.status \in {"pending", "deleting"} THEN removal
                ELSE [status |-> "pending", print |-> command.seen, due |-> FALSE]
  /\ UNCHANGED <<posted, row, killed>>

\* ---- cmd_cleanup_restore
MayRestore == removal.status \in {"pending", "failed"}

RestoreRemoval ==
  /\ command.at = "idle" /\ MayRestore
  /\ removal' = [removal EXCEPT !.status = "restored"]
  /\ UNCHANGED <<posted, row, command, killed>>

\* ---- cmd_cleanup_process and process_one
IsDue == removal.status \in {"pending", "deleting"} /\ removal.due

\* message: what the server shows now.
FetchMessage ==
  /\ command.at = "idle" /\ IsDue
  /\ command' = [at |-> "fetched", seen |-> posted]
  /\ UNCHANGED <<posted, removal, row, killed>>

FileChanged ==
  /\ command.at = "fetched" /\ command.seen # 0 /\ command.seen # removal.print
  /\ removal' = [removal EXCEPT !.status = "failed"] /\ command' = Idle
  /\ UNCHANGED <<posted, row, killed>>

\* The slip of recording the intent only once the server answered.
DeleteUnclaimed ==
  /\ command.at = "fetched" /\ command.seen # 0 /\ command.seen = removal.print
  /\ command' = [command EXCEPT !.at = "claimed"]
  /\ UNCHANGED <<posted, removal, row, killed>>

ClaimDelete ==
  /\ command.at = "fetched" /\ command.seen # 0 /\ command.seen = removal.print
  /\ removal' = [removal EXCEPT !.status = "deleting"] /\ command' = [command EXCEPT !.at = "claimed"]
  /\ UNCHANGED <<posted, row, killed>>

\* delete_messages takes effect; its answer may still be lost.
DeleteCall ==
  /\ command.at = "claimed" /\ command' = [command EXCEPT !.at = "called"]
  /\ posted' = 0 /\ killed' = (killed \/ posted # 0)
  /\ UNCHANGED <<removal, row>>

DeleteAnswered ==
  /\ command.at = "called" /\ command' = [command EXCEPT !.at = "finish"]
  /\ UNCHANGED <<posted, removal, row, killed>>

\* An error, with or without effect: the record stays "deleting".
DeleteError ==
  /\ command.at \in {"claimed", "called"} /\ command' = Idle
  /\ UNCHANGED <<posted, removal, row, killed>>

AbsentMessage ==
  /\ command.at = "fetched" /\ command.seen = 0 /\ command' = [command EXCEPT !.at = "finish"]
  /\ UNCHANGED <<posted, removal, row, killed>>

\* One transaction: the final status and the row of the inventory.
FinishDelete ==
  /\ command.at = "finish" /\ command' = Idle
  /\ removal' = [removal EXCEPT !.status = "deleted"] /\ row' = FALSE
  /\ UNCHANGED <<posted, killed>>

\* The account changes or the process ends: the command goes no further.
CommandStops ==
  /\ command.at # "idle" /\ command' = Idle
  /\ UNCHANGED <<posted, removal, row, killed>>

\* ---- the environment
DeadlinePasses ==
  /\ removal.status = "pending" /\ ~removal.due /\ removal' = [removal EXCEPT !.due = TRUE]
  /\ UNCHANGED <<posted, row, command, killed>>

OtherDeviceEdits ==
  /\ posted \in 1..(MaxVersion - 1) /\ posted' = posted + 1
  /\ UNCHANGED <<removal, row, command, killed>>

OtherDeviceDeletes ==
  /\ posted # 0 /\ posted' = 0
  /\ UNCHANGED <<removal, row, command, killed>>

GraceNext ==
  \/ ScheduleReads \/ ScheduleWrites \/ RestoreRemoval
  \/ FetchMessage \/ FileChanged \/ ClaimDelete \/ DeleteCall \/ DeleteAnswered \/ DeleteError
  \/ AbsentMessage \/ FinishDelete \/ CommandStops
  \/ DeadlinePasses \/ OtherDeviceEdits \/ OtherDeviceDeletes

GraceSpec == GraceInit /\ [][GraceNext]_graceVars

GraceTypeOK ==
  /\ posted \in MessageVersions /\ removal \in Removals /\ command \in Commands
  /\ row \in BOOLEAN /\ killed \in BOOLEAN

(* A removal that can still be restored, or was, never lost its file to    *)
(* this program, wherever a command stopped and whatever the RPC answered  *)
(* (may_restore, process_one: the intent is durable before the call).      *)
RestorableIsKept == removal.status \in {"pending", "failed", "restored"} => ~killed

(* The inventory gives up a file only when its message is gone.            *)
DeletedIsGone == (removal.status = "deleted" \/ ~row) => posted = 0

\* What the two rest on: where a command is determines what it knows.
GraceInv ==
  /\ GraceTypeOK /\ RestorableIsKept /\ DeletedIsGone
  /\ killed => posted = 0 /\ removal.status \in {"deleting", "deleted"}
  /\ command.at = "schedule" => ~killed /\ removal.status # "deleted"
  /\ command.at = "fetched" /\ command.seen # 0 => ~killed
  /\ command.at \in {"fetched", "claimed", "called", "finish"} => removal.status \in {"pending", "deleting"}
  /\ command.at = "fetched" /\ command.seen = 0 => posted = 0
  /\ command.at \in {"claimed", "called"} => removal.status = "deleting"
  /\ command.at \in {"called", "finish"} => posted = 0

-----------------------------------------------------------------------------
(***************************************************************************)
(* The grace period as module RemovalPromise states it: a removal that is  *)
(* absent, restored or failed is a file kept, and "deleting" is the point  *)
(* of no return whether or not the call was made.                          *)
(***************************************************************************)
Fate ==
  CASE removal.status = "pending" -> "offered"
    [] removal.status = "deleting" -> "condemned"
    [] removal.status = "deleted" -> "gone"
    [] OTHER -> "kept"

Promise == INSTANCE RemovalPromise WITH fate <- Fate, exists <- posted # 0, destroyed <- killed

(* Every step of schedule, restore and process_one, each crash between     *)
(* their durable writes and each lost answer, is a step of the promise or  *)
(* none at all.                                                            *)
KeepsPromise == Promise!PromiseSpec
=============================================================================
