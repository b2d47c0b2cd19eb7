----------------------------- MODULE FolderScan -----------------------------
(***************************************************************************)
(* Listing a folder (cmd_get_files) into the tables that the folder view   *)
(* and the other views read, while the application deletes, renames, moves *)
(* and opens files.  A scan publishes its files in chunks, each under the  *)
(* shared lock of active_file_loads and each in two transactions, and ends *)
(* under the exclusive lock by dropping the rows it has not seen.  The     *)
(* listing and its ticket come from module FileInventory.  A file's        *)
(* version is 1, 2 after a rename, 0 once it is gone.                      *)
(***************************************************************************)
EXTENDS Naturals, FiniteSets

CONSTANTS Scans,        \* file-load requests of one folder
          Ids,          \* its files
          MaxCommands   \* bound: commands that change the folder

ASSUME MaxCommandsAssumption == MaxCommands \in Nat
ASSUME TagsAssumption == {"none", "activity"} \cap Scans = {}

VARIABLES
  atTelegram,   \* Id -> version in this folder
  target,       \* ids whose copies a move has made in another folder
  account_rev,  \* REVISIONS: the account's counter
  wsRows,       \* workspace_files: Id -> [version, scan], version 0 is no row
  invRows,      \* file_inventory, likewise
  activeLoad,   \* active_file_loads: the current request or "none"
  load,         \* Scan -> what cmd_get_files has
  scanCommand,      \* the command under way
  commands,     \* commands begun
  dropped       \* ids whose deletion was applied to workspace_files

scanVars == <<atTelegram, target, account_rev, wsRows, invRows, activeLoad, load, scanCommand, commands, dropped>>
tables == <<wsRows, invRows>>
folderVars == <<atTelegram, target, account_rev, scanCommand, commands, dropped>>

NoFileRow == [version |-> 0, scan |-> "none"]
NoLoad == [pc |-> "idle", ticket |-> 0, listing |-> [i \in Ids |-> 0], left |-> {}, chunk |-> {}, whole |-> TRUE]
NoCommand == [pc |-> "none", kind |-> "none", ids |-> {}]
RowIds(rows) == {i \in Ids : rows[i].version # 0}

ScanInit ==
  /\ atTelegram = [i \in Ids |-> 1] /\ target = {} /\ account_rev = 0
  /\ wsRows = [i \in Ids |-> NoFileRow] /\ invRows = [i \in Ids |-> NoFileRow]
  /\ activeLoad = "none" /\ load = [s \in Scans |-> NoLoad]
  /\ scanCommand = NoCommand /\ commands = 0 /\ dropped = {}

\* The RwLock of active_file_loads: chunks hold it shared, the end of a scan
\* exclusively, each across its transactions.
ReadLockFree == \A s \in Scans : load[s].pc # "prune2"
WriteLockFree == ReadLockFree /\ \A s \in Scans : load[s].pc # "chunk2"

Current(s) == activeLoad = s
LoadTicketHolds(s) == load[s].ticket = account_rev

\* Every way out retires this request and no other.
Leave(s, pc) ==
  /\ load' = [load EXCEPT ![s] = [NoLoad EXCEPT !.pc = pc]]
  /\ activeLoad' = IF Current(s) THEN "none" ELSE activeLoad

Register(s) ==
  /\ load[s].pc = "idle" /\ WriteLockFree
  /\ activeLoad' = s
  /\ load' = [load EXCEPT ![s].pc = "begin"]
  /\ UNCHANGED <<folderVars, tables>>

\* messages_refresh: the revision first, the messages later.  A listing that
\* was cut off at MAX_FILES is not whole.
BeginListing(s) ==
  /\ load[s].pc = "begin"
  /\ load' = [load EXCEPT ![s].pc = "list", ![s].ticket = account_rev]
  /\ UNCHANGED <<folderVars, activeLoad, tables>>

ReadListing(s) ==
  /\ load[s].pc = "list"
  /\ \E whole \in BOOLEAN :
       load' = [load EXCEPT ![s].pc = "scan", ![s].listing = atTelegram, ![s].whole = whole,
                            ![s].left = {i \in Ids : atTelegram[i] # 0}]
  /\ UNCHANGED <<folderVars, activeLoad, tables>>

\* The request was replaced by a newer one: it stops without a result.
Superseded(s) ==
  /\ load[s].pc \in {"scan", "chunk"} /\ ReadLockFree /\ ~Current(s)
  /\ Leave(s, "done")
  /\ UNCHANGED <<folderVars, tables>>

\* InventoryMetadataReader has read the files of a chunk.
CollectChunk(s) ==
  /\ load[s].pc = "scan" /\ load[s].left # {}
  /\ \E c \in SUBSET load[s].left \ {{}} :
       load' = [load EXCEPT ![s].pc = "chunk", ![s].chunk = c]
  /\ UNCHANGED <<folderVars, activeLoad, tables>>

UpsertedFile(rows, s) ==
  [i \in Ids |-> IF i \in load[s].chunk THEN [version |-> load[s].listing[i], scan |-> s] ELSE rows[i]]

\* Persisting without the comparison of the ticket.
MayPersistAlways(s) == TRUE
\* Publication::persist: nothing changed in the account since the listing.
MayPersist(s) == LoadTicketHolds(s)

\* record_chunk, then upsert_inventory_chunk.
RecordChunk(s) ==
  /\ load[s].pc = "chunk" /\ ReadLockFree /\ Current(s) /\ MayPersist(s)
  /\ wsRows' = UpsertedFile(wsRows, s)
  /\ load' = [load EXCEPT ![s].pc = "chunk2"]
  /\ UNCHANGED <<folderVars, activeLoad, invRows>>

UpsertInventoryChunk(s) ==
  /\ load[s].pc = "chunk2" /\ MayPersist(s)
  /\ invRows' = UpsertedFile(invRows, s)
  /\ load' = [load EXCEPT ![s].pc = "scan", ![s].left = @ \ load[s].chunk, ![s].chunk = {}]
  /\ UNCHANGED <<folderVars, activeLoad, wsRows>>

\* A scan ends for whatever request is the current one.
CompletesAny(s) == load[s].whole
\* request_is_current && scan_complete.
Completes(s) == Current(s) /\ load[s].whole

Pruned(rows, s) == [i \in Ids |-> IF rows[i].scan = s THEN rows[i] ELSE NoFileRow]

\* complete_inventory_scan, under the exclusive lock until complete_scan.
CompleteInventoryScan(s) ==
  /\ load[s].pc = "scan" /\ load[s].left = {} /\ WriteLockFree
  /\ Completes(s) /\ MayPersist(s)
  /\ invRows' = Pruned(invRows, s)
  /\ load' = [load EXCEPT ![s].pc = "prune2"]
  /\ UNCHANGED <<folderVars, activeLoad, wsRows>>

CompleteScan(s) ==
  /\ load[s].pc = "prune2" /\ MayPersist(s)
  /\ wsRows' = Pruned(wsRows, s)
  /\ Leave(s, "done")
  /\ UNCHANGED <<folderVars, invRows>>

\* FolderLoadResult::incomplete.
EndIncomplete(s) ==
  /\ load[s].pc = "scan" /\ load[s].left = {} /\ WriteLockFree /\ ~Completes(s)
  /\ Leave(s, "done")
  /\ UNCHANGED <<folderVars, tables>>

\* INVENTORY_CHANGED, a refusal of Telegram or of a database.
ScanFails(s) ==
  /\ load[s].pc \notin {"idle", "done"}
  /\ load[s].pc \in {"chunk2", "prune2"} \/ WriteLockFree
  /\ Leave(s, "done")
  /\ UNCHANGED <<folderVars, tables>>

(***************************************************************************)
(* Commands that change the folder.                                        *)
(***************************************************************************)
ScanCommanded(kind, ids) ==
  /\ scanCommand = NoCommand /\ commands < MaxCommands /\ commands' = commands + 1
  /\ scanCommand' = [pc |-> "changed", kind |-> kind, ids |-> ids]

DeleteFile(i) ==
  /\ atTelegram[i] # 0 /\ ScanCommanded("delete", {i})
  /\ atTelegram' = [atTelegram EXCEPT ![i] = 0]
  /\ UNCHANGED <<target, account_rev, activeLoad, load, tables, dropped>>

RenameFile(i) ==
  /\ atTelegram[i] # 0 /\ ScanCommanded("rename", {i})
  /\ atTelegram' = [atTelegram EXCEPT ![i] = 2]
  /\ UNCHANGED <<target, account_rev, activeLoad, load, tables, dropped>>

\* cmd_move_files: Telegram forwards all, some or none of the files ...
ForwardFiles(ids) ==
  /\ scanCommand = NoCommand /\ commands < MaxCommands /\ commands' = commands + 1
  /\ ids # {} /\ \A i \in ids : atTelegram[i] # 0
  /\ \E copied \in SUBSET ids : target' = target \cup copied
  /\ scanCommand' = [pc |-> "verify", kind |-> "move", ids |-> ids]
  /\ UNCHANGED <<atTelegram, account_rev, activeLoad, load, tables, dropped>>

\* verify_forwarded_messages: one copy for each original.
ForwardVerified(ids) == ids \subseteq target

\* ... and only then the originals are deleted; else they are kept.
DeleteOriginals ==
  /\ scanCommand.pc = "verify"
  /\ IF ForwardVerified(scanCommand.ids)
     THEN /\ atTelegram' = [i \in Ids |-> IF i \in scanCommand.ids THEN 0 ELSE atTelegram[i]]
          /\ scanCommand' = [scanCommand EXCEPT !.pc = "changed"]
     ELSE scanCommand' = NoCommand /\ UNCHANGED atTelegram
  /\ UNCHANGED <<target, account_rev, activeLoad, load, tables, commands, dropped>>

\* The account ended, or the deletion was refused: "originals were kept".
KeepOriginals ==
  /\ scanCommand.pc = "verify" /\ scanCommand' = NoCommand
  /\ UNCHANGED <<atTelegram, target, account_rev, activeLoad, load, tables, commands, dropped>>

\* remote_changes::record: changed() for the folder ...
RecordChanged ==
  /\ scanCommand.pc = "changed"
  /\ account_rev' = account_rev + 1
  /\ scanCommand' = [scanCommand EXCEPT !.pc = "apply"]
  /\ UNCHANGED <<atTelegram, target, activeLoad, load, tables, commands, dropped>>

\* ... then apply_current on workspace_files, between two steps of the revision.
ApplyChange ==
  /\ scanCommand.pc = "apply"
  /\ account_rev' = account_rev + 2
  /\ wsRows' = [i \in Ids |->
                  IF i \notin scanCommand.ids \/ wsRows[i] = NoFileRow THEN wsRows[i]
                  ELSE IF scanCommand.kind = "rename" THEN [wsRows[i] EXCEPT !.version = 2] ELSE NoFileRow]
  /\ dropped' = IF scanCommand.kind = "rename" THEN dropped ELSE dropped \cup scanCommand.ids
  /\ scanCommand' = NoCommand
  /\ UNCHANGED <<atTelegram, target, activeLoad, load, invRows, commands>>

\* The cache could not be updated: a warning in the log.
ApplyFails ==
  /\ scanCommand.pc = "apply" /\ scanCommand' = NoCommand
  /\ account_rev' \in {account_rev, account_rev + 2}
  /\ UNCHANGED <<atTelegram, target, activeLoad, load, tables, commands, dropped>>

OtherDeviceRemoves(i) ==
  /\ atTelegram[i] # 0 /\ commands < MaxCommands /\ commands' = commands + 1
  /\ atTelegram' = [atTelegram EXCEPT ![i] = 0]
  /\ UNCHANGED <<target, account_rev, activeLoad, load, scanCommand, tables, dropped>>

\* change_activity: a file that is opened or marked is remembered, with the
\* metadata the view has; the row of a scan keeps its tag.
RememberLocalFile(i) ==
  /\ commands < MaxCommands /\ commands' = commands + 1
  /\ \E v \in {1, 2} :
       wsRows' = [wsRows EXCEPT ![i] = [version |-> v, scan |-> IF @ = NoFileRow THEN "activity" ELSE @.scan]]
  /\ dropped' = dropped \ {i}
  /\ UNCHANGED <<atTelegram, target, account_rev, activeLoad, load, scanCommand, invRows>>

ScanStep(s) ==
  \/ Register(s) \/ BeginListing(s) \/ ReadListing(s) \/ Superseded(s) \/ CollectChunk(s)
  \/ RecordChunk(s) \/ UpsertInventoryChunk(s) \/ CompleteInventoryScan(s) \/ CompleteScan(s)
  \/ EndIncomplete(s) \/ ScanFails(s)

ScanNext ==
  \/ \E s \in Scans : ScanStep(s)
  \/ \E i \in Ids : DeleteFile(i) \/ RenameFile(i) \/ OtherDeviceRemoves(i) \/ RememberLocalFile(i)
  \/ \E ids \in SUBSET Ids : ForwardFiles(ids)
  \/ DeleteOriginals \/ KeepOriginals \/ RecordChanged \/ ApplyChange \/ ApplyFails

ScanSpec == ScanInit /\ [][ScanNext]_scanVars

-----------------------------------------------------------------------------
\* Steps of the revision that the command under way still has to make.
Owed == CASE scanCommand.pc \in {"verify", "changed"} -> 3 [] scanCommand.pc = "apply" -> 2 [] OTHER -> 0

ScanTypeOK ==
  /\ atTelegram \in [Ids -> 0 .. 2] /\ target \subseteq Ids /\ dropped \subseteq Ids
  /\ commands \in 0 .. MaxCommands /\ account_rev \in Nat /\ account_rev + Owed <= 3 * commands
  /\ activeLoad \in Scans \cup {"none"}
  /\ {wsRows, invRows} \subseteq [Ids -> [version : 0 .. 2, scan : Scans \cup {"none", "activity"}]]
  /\ scanCommand \in [pc : {"none", "verify", "changed", "apply"}, kind : {"none", "delete", "rename", "move"},
                      ids : SUBSET Ids]
  /\ load \in [Scans -> [pc : {"idle", "begin", "list", "scan", "chunk", "chunk2", "prune2", "done"},
                         ticket : 0 .. account_rev, listing : [Ids -> 0 .. 2], left : SUBSET Ids,
                         chunk : SUBSET Ids, whole : BOOLEAN]]

(***************************************************************************)
(* A scan that completes leaves exactly its listing: no file of it was     *)
(* pruned by, or re-tagged for, another request of the same folder, and    *)
(* nothing else survives (finalize_folder_scan under the write lock).      *)
(***************************************************************************)
CompleteIsListing ==
  [][\A s \in Scans :
       CompleteScan(s) =>
         LET listed == {i \in Ids : load[s].listing[i] # 0} IN
         /\ RowIds(wsRows') = listed
         /\ \A i \in Ids : invRows[i].version = load[s].listing[i]]_scanVars

(***************************************************************************)
(* No scan brings back a file the application deleted or moved away: once  *)
(* the deletion was applied to workspace_files, a scan that listed the     *)
(* folder before it can no longer publish the row (RevisionTicket).        *)
(***************************************************************************)
DeletedStaysGone == \A i \in dropped : wsRows[i] = NoFileRow

\* A row without a version has no tag.
RowsSound == \A i \in Ids : \A rows \in {wsRows, invRows} : rows[i].version = 0 <=> rows[i].scan = "none"

\* Files that a deletion or a move has taken are gone at Telegram, and a listing
\* whose ticket still holds was read after every deletion that was applied.
DeletionsKnown ==
  /\ \A i \in dropped : atTelegram[i] = 0
  /\ scanCommand.pc \in {"changed", "apply"} /\ scanCommand.kind # "rename" =>
       \A i \in scanCommand.ids : atTelegram[i] = 0
  /\ \A s \in Scans : load[s].pc \in {"scan", "chunk", "chunk2", "prune2"} /\ LoadTicketHolds(s) =>
       \A i \in dropped : load[s].listing[i] = 0

\* The lock of a scan between two transactions keeps its request the current one.
LocksHeld ==
  /\ \A s \in Scans : load[s].pc \in {"chunk2", "prune2"} => Current(s)
  /\ \A s \in Scans : load[s].left \cup load[s].chunk \subseteq {i \in Ids : load[s].listing[i] # 0}
  /\ \A s \in Scans : load[s].chunk \subseteq IF load[s].pc \in {"chunk", "chunk2"} THEN load[s].left ELSE {}
  /\ \A s \in Scans : load[s].pc = "prune2" => load[s].left = {}
  /\ \A s \in Scans : load[s].pc \in {"idle", "begin", "list"} =>
       \A i \in Ids : wsRows[i].scan # s /\ invRows[i].scan # s

\* While its request is the current one and its ticket holds, a scan has tagged
\* exactly the files it has published, in each of the two tables.
Published(s, rows, left) ==
  \A i \in Ids : rows[i].scan = s <=> load[s].listing[i] # 0 /\ i \notin left

TagsKept ==
  \A s \in Scans : load[s].pc \in {"scan", "chunk", "chunk2", "prune2"} /\ Current(s) /\ LoadTicketHolds(s) =>
    /\ Published(s, wsRows, IF load[s].pc = "chunk2" THEN load[s].left \ load[s].chunk ELSE load[s].left)
    /\ Published(s, invRows, load[s].left)
    /\ \A i \in Ids : invRows[i].scan = s => invRows[i].version = load[s].listing[i]
    /\ load[s].pc = "prune2" => \A i \in Ids : invRows[i].scan \in {s, "none"}

(* What scans and commands leave in the tables.                            *)
ScanInv ==
  /\ ScanTypeOK /\ DeletedStaysGone
  /\ RowsSound /\ DeletionsKnown /\ LocksHeld /\ TagsKept
=============================================================================
