--------------------------- MODULE FileInventory ---------------------------
(***************************************************************************)
(* The inventory of one folder in file_inventory.rs.  A read walks the     *)
(* history above the high-water id, verifies the messages this application *)
(* changed and, in the background, audits a few known ones.  Each of these *)
(* is an await: the application and other devices change the folder        *)
(* meanwhile.  A message's version only grows: 0 is not sent yet, 1 and 2  *)
(* are a file before and after a rename, 3 is deleted or no file at all.   *)
(***************************************************************************)
EXTENDS Naturals, FiniteSets

CONSTANTS Newest,       \* messages are 1 .. Newest, sent in this order
          MaxFiles,     \* MAX_FILES
          MaxChanges    \* bound: changes by this application

ASSUME InventoryAssumption == {Newest, MaxFiles} \subseteq Nat \ {0} /\ MaxChanges \in Nat

VARIABLES
  remote,       \* message -> version, at Telegram
  revision,     \* REVISIONS: the account's counter
  dirtyMark,    \* DIRTY: generation and the ids to verify
  inventory,    \* the Inventory of the entry
  reading,      \* the job that reads, or none
  change,       \* the command that changes the folder, or none
  announced,    \* message -> version that changed() was called for
  changes       \* changes begun so far

inventoryVars == <<remote, revision, dirtyMark, inventory, reading, change, announced, changes>>

Messages == 1 .. Newest
File(v) == v \in {1, 2}
Absent == [m \in Messages |-> 0]
Listed(rows) == {m \in Messages : rows[m] # 0}
Top == Cardinality({m \in Messages : remote[m] # 0})

\* Inventory::new.
Cold == [rows |-> Absent, complete |-> TRUE, auditAfter |-> 0, dirty |-> 0, cold |-> TRUE, high |-> 0,
         pollDue |-> TRUE, auditDue |-> FALSE, stale |-> FALSE]
\* InventoryCache::entry: a folder asked for the first time, or again after its
\* entry was dropped, starts anew.
NewEntry == Cold
NoReading == [pc |-> "none", background |-> FALSE, rev |-> 0, gen |-> 0, ids |-> {}, at |-> 0, high |-> 0,
          rows |-> Absent, added |-> {}, auditAfter |-> 0, swept |-> FALSE]
NoChange == [pc |-> "none", message |-> 0, version |-> 0]

InventoryInit ==
  /\ remote \in [Messages -> {0, 1}] /\ \A m \in Messages : m > 1 /\ remote[m] = 1 => remote[m - 1] = 1
  /\ revision = 0 /\ dirtyMark = [generation |-> 0, ids |-> {}]
  /\ inventory = NewEntry /\ reading = NoReading /\ change = NoChange
  /\ announced = Absent /\ changes = 0

(***************************************************************************)
(* Changes of the folder.                                                  *)
(***************************************************************************)
\* A message is sent, by any device, with a file or without one.
OtherDeviceSends(v) ==
  /\ Top < Newest /\ v \in {1, 3}
  /\ remote' = [remote EXCEPT ![Top + 1] = v]
  /\ UNCHANGED <<revision, dirtyMark, inventory, reading, change, announced, changes>>

DeletedElsewhere(m) ==
  /\ File(remote[m]) /\ remote' = [remote EXCEPT ![m] = 3]
  /\ UNCHANGED <<revision, dirtyMark, inventory, reading, change, announced, changes>>

\* A command of this application, verified by Telegram: an upload (1), a
\* rename (2) or a deletion (3), also half of a move.
Mutate(m, v) ==
  /\ change = NoChange /\ changes < MaxChanges
  /\ \/ v = 1 /\ m = Top + 1
     \/ v \in {2, 3} /\ File(remote[m]) /\ v > remote[m]
  /\ remote' = [remote EXCEPT ![m] = v]
  /\ change' = [pc |-> "revision", message |-> m, version |-> v]
  /\ changes' = changes + 1
  /\ UNCHANGED <<revision, dirtyMark, inventory, reading, announced>>

\* changed: first the revision, then the folder's mark.
ChangedRevision ==
  /\ change.pc = "revision"
  /\ revision' = revision + 1
  /\ change' = [change EXCEPT !.pc = "dirty"]
  /\ UNCHANGED <<remote, dirtyMark, inventory, reading, announced, changes>>

ChangedDirty ==
  /\ change.pc = "dirty"
  /\ dirtyMark' = [generation |-> dirtyMark.generation + 1,
                   ids |-> dirtyMark.ids \cup (IF change.version = 1 THEN {} ELSE {change.message})]
  /\ announced' = [announced EXCEPT ![change.message] = change.version]
  /\ change' = IF change.version = 1 THEN NoChange ELSE [change EXCEPT !.pc = "apply"]
  /\ UNCHANGED <<remote, revision, inventory, reading, changes>>

\* remote_changes::apply under mutate: the revision moves before and after.
Apply ==
  /\ change.pc = "apply"
  /\ revision' = revision + 2 /\ change' = NoChange
  /\ UNCHANGED <<remote, dirtyMark, inventory, reading, announced, changes>>

\* invalidate: every folder's generation moves, no id is named.
Invalidate ==
  /\ change = NoChange /\ changes < MaxChanges /\ changes' = changes + 1
  /\ revision' = revision + 1
  /\ dirtyMark' = [dirtyMark EXCEPT !.generation = @ + 1]
  /\ UNCHANGED <<remote, inventory, reading, change, announced>>

(***************************************************************************)
(* Inventory::read, as a job that consumers share or of the background.    *)
(***************************************************************************)
IsDirty == inventory.dirty # dirtyMark.generation
\* The background's read is a forced poll; a consumer's is served from memory
\* while nothing is due.
WantsRead(background) == background \/ inventory.cold \/ inventory.pollDue \/ IsDirty

ReadBegins(background) ==
  /\ reading = NoReading /\ WantsRead(background)
  /\ reading' = [NoReading EXCEPT !.pc = "history", !.background = background, !.rev = revision,
                              !.gen = dirtyMark.generation, !.ids = IF IsDirty THEN dirtyMark.ids ELSE {},
                              !.at = Newest, !.high = inventory.high, !.rows = inventory.rows,
                              !.auditAfter = inventory.auditAfter]
  /\ UNCHANGED <<remote, revision, dirtyMark, inventory, change, announced, changes>>

\* One message of the history, from the newest down to the known ones; more
\* than MaxFiles files end the walk.
InHistory == reading.pc = "history" /\ reading.at > inventory.high /\ Cardinality(reading.added) <= MaxFiles

HistoryMessage ==
  /\ InHistory
  /\ LET m == reading.at IN
     reading' = [reading EXCEPT
                   !.at = m - 1,
                   !.high = IF remote[m] # 0 /\ m > @ THEN m ELSE @,
                   !.added = IF File(remote[m]) THEN @ \cup {m} ELSE @,
                   !.rows = IF File(remote[m]) THEN [reading.rows EXCEPT ![m] = remote[m]] ELSE @]
  /\ UNCHANGED <<remote, revision, dirtyMark, inventory, change, announced, changes>>

\* The walk ends where it is, as if the rest could be read later.
HistoryStops == reading.pc = "history"
HistoryDone == reading.pc = "history" /\ ~InHistory

HistoryEnds ==
  /\ HistoryDone
  /\ reading' = [reading EXCEPT !.pc = IF inventory.cold THEN "commit"
                                       ELSE IF reading.ids # {} THEN "verify" ELSE "audit"]
  /\ UNCHANGED <<remote, revision, dirtyMark, inventory, change, announced, changes>>

\* verify: the answer for an id is its file, or nothing.
Verified(rows, m) == [rows EXCEPT ![m] = IF File(remote[m]) THEN remote[m] ELSE 0]

VerifyChanged(m) ==
  /\ reading.pc = "verify" /\ m \in reading.ids
  /\ reading' = [reading EXCEPT !.ids = @ \ {m}, !.rows = Verified(@, m),
                                !.pc = IF reading.ids = {m} THEN "audit" ELSE "verify"]
  /\ UNCHANGED <<remote, revision, dirtyMark, inventory, change, announced, changes>>

\* The next batch after the audit's cursor, in the background and when due;
\* a consumer's read has no quota for it.
ToAudit == {m \in Listed(reading.rows) : m > reading.auditAfter}

AuditBatch ==
  /\ reading.pc = "audit"
  /\ IF reading.background /\ inventory.auditDue
     THEN \/ \E m \in ToAudit :
               /\ \A o \in ToAudit : m <= o
               /\ reading' = [reading EXCEPT !.pc = "commit", !.rows = Verified(@, m), !.auditAfter = m,
                                             !.swept = ToAudit = {m}]
          \/ ToAudit = {} /\ reading' = [reading EXCEPT !.pc = "commit", !.swept = TRUE]
     ELSE reading' = [reading EXCEPT !.pc = "commit"]
  /\ UNCHANGED <<remote, revision, dirtyMark, inventory, change, announced, changes>>

\* AuditBudget::reserve: the folders share the batches of a minute, and this
\* one's turn comes when they are used up; the sweep goes on at a later read.
AuditRefused ==
  /\ reading.pc = "audit" /\ reading.background /\ inventory.auditDue /\ ToAudit # {}
  /\ reading' = [reading EXCEPT !.pc = "commit"]
  /\ UNCHANGED <<remote, revision, dirtyMark, inventory, change, announced, changes>>

\* Nothing changed since the read began: checked before and, under the
\* revision's lock, after the cursor is saved.
Unchanged == revision = reading.rev /\ dirtyMark.generation = reading.gen

SaveCursor ==
  /\ reading.pc = "commit" /\ Unchanged
  /\ reading' = [reading EXCEPT !.pc = "publish"]
  /\ UNCHANGED <<remote, revision, dirtyMark, inventory, change, announced, changes>>

NewestOf(rows) == {m \in Listed(rows) : Cardinality({o \in Listed(rows) : o >= m}) <= MaxFiles}
AuditCursor(job) == IF job.swept THEN 0 ELSE job.auditAfter
\* Only what this read has verified is forgotten.
ForgetVerified == IF dirtyMark.generation = reading.gen THEN [dirtyMark EXCEPT !.ids = {}] ELSE dirtyMark

\* The rows become the inventory's; the entry's stale flag goes with a
\* finished audit.
ReadEnds ==
  /\ reading.pc = "publish" /\ revision = reading.rev
  /\ LET rows == [m \in Messages |-> IF m \in NewestOf(reading.rows) THEN reading.rows[m] ELSE 0]
         audited == inventory.cold \/ reading.swept IN
     inventory' = [rows |-> rows,
                   complete |-> /\ inventory.cold \/ inventory.complete
                                /\ Cardinality(reading.added) <= MaxFiles /\ rows = reading.rows,
                   auditAfter |-> AuditCursor(reading), dirty |-> reading.gen, cold |-> FALSE, high |-> reading.high,
                   pollDue |-> FALSE, auditDue |-> inventory.auditDue /\ ~audited,
                   stale |-> inventory.stale /\ ~audited]
  /\ dirtyMark' = ForgetVerified
  /\ reading' = NoReading
  /\ UNCHANGED <<remote, revision, change, announced, changes>>

\* A read that ends with an error leaves the rows; one of the background marks
\* the entry stale.
ReadDropped ==
  /\ reading' = NoReading
  /\ inventory' = [inventory EXCEPT !.stale = @ \/ reading.background]
  /\ UNCHANGED <<remote, revision, dirtyMark, change, announced, changes>>

\* INVENTORY_CHANGED.
ReadConflicts ==
  /\ \/ reading.pc = "commit" /\ ~Unchanged
     \/ reading.pc = "publish" /\ revision # reading.rev
  /\ ReadDropped

\* A timeout, a refusal of Telegram, or the account's end.
ReadFails == reading # NoReading /\ ReadDropped

\* Time: POLL_INTERVAL, AUDIT_INTERVAL; the entry is dropped when unused.
PollDue ==
  /\ ~inventory.pollDue /\ inventory' = [inventory EXCEPT !.pollDue = TRUE]
  /\ UNCHANGED <<remote, revision, dirtyMark, reading, change, announced, changes>>

\* Only entries that a failed read marked stale are audited.
AuditDueStale ==
  /\ ~inventory.auditDue /\ inventory.stale /\ inventory' = [inventory EXCEPT !.auditDue = TRUE]
  /\ UNCHANGED <<remote, revision, dirtyMark, reading, change, announced, changes>>

AuditDue ==
  /\ ~inventory.auditDue /\ ~inventory.cold /\ inventory' = [inventory EXCEPT !.auditDue = TRUE]
  /\ UNCHANGED <<remote, revision, dirtyMark, reading, change, announced, changes>>

Evict ==
  /\ reading = NoReading /\ ~inventory.cold /\ inventory' = NewEntry
  /\ UNCHANGED <<remote, revision, dirtyMark, reading, change, announced, changes>>

InventoryNext ==
  \/ \E v \in {1, 3} : OtherDeviceSends(v)
  \/ \E m \in Messages : DeletedElsewhere(m) \/ VerifyChanged(m) \/ \E v \in 1 .. 3 : Mutate(m, v)
  \/ ChangedRevision \/ ChangedDirty \/ Apply \/ Invalidate
  \/ \E b \in BOOLEAN : ReadBegins(b)
  \/ HistoryMessage \/ HistoryEnds \/ AuditBatch \/ AuditRefused \/ SaveCursor \/ ReadEnds \/ ReadConflicts \/ ReadFails
  \/ PollDue \/ AuditDue \/ Evict

InventorySpec == InventoryInit /\ [][InventoryNext]_inventoryVars

-----------------------------------------------------------------------------
InventoryTypeOK ==
  /\ remote \in [Messages -> 0 .. 3] /\ inventory.rows \in [Messages -> 0 .. 2]
  /\ Cardinality(Listed(inventory.rows)) <= MaxFiles
  /\ revision <= 3 * MaxChanges /\ dirtyMark.generation <= MaxChanges /\ dirtyMark.ids \subseteq Messages
  /\ inventory.high \in 0 .. Newest /\ inventory.auditAfter \in 0 .. Newest

(***************************************************************************)
(* An inventory that does not count as dirty shows every change this       *)
(* application announced: no renamed file under its old name, no deleted   *)
(* one, no upload above the high-water id, whatever read was under way     *)
(* when changed() was called.                                              *)
(***************************************************************************)
AnnouncedSeen ==
  ~inventory.cold /\ ~IsDirty =>
    \A m \in Messages :
      /\ inventory.rows[m] # 0 => inventory.rows[m] >= announced[m]
      /\ announced[m] = 1 => m <= inventory.high

(***************************************************************************)
(* No file is passed over: a complete listing holds every file of the      *)
(* folder up to its high-water id ("deletion of the newest file never      *)
(* resets the cursor", and an interrupted walk never moves it).            *)
(***************************************************************************)
NoFileMissed ==
  ~inventory.cold /\ inventory.complete =>
    \A m \in 1 .. inventory.high : File(remote[m]) => inventory.rows[m] # 0

(***************************************************************************)
(* A published listing is right about what this application knows: it      *)
(* shows every announced change and passes no file over (Inventory::read). *)
(***************************************************************************)
InventoryInv == InventoryTypeOK /\ AnnouncedSeen /\ NoFileMissed

(***************************************************************************)
(* A file deleted on another device does not stay listed: the audit        *)
(* reaches every known message, however many reads fail on the way.        *)
(***************************************************************************)
DeletionsNoticed ==
  \A m \in Messages : []<>~(remote[m] = 3 /\ inventory.rows[m] # 0)
=============================================================================
