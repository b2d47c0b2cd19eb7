--------------------------- MODULE TransferEngine ---------------------------
(***************************************************************************)
(* The durable transfer queue: TransferEngine and TransferStore of         *)
(* app/src-tauri/src/transfer_engine.rs, with the operation each job runs  *)
(* (upload or download, commands/fs.rs) reduced to what the queue sees.    *)
(*                                                                         *)
(* Three kinds of processes meet here: the scheduler loop, the commands of *)
(* the interface and of Folder Sync (both under mutation_lock, so each is  *)
(* one action), and one spawned task per running job, whose steps take no  *)
(* lock until it reports its result.  Writes to transfers.db may fail, the *)
(* process may crash between any two steps, and the account may change.    *)
(*                                                                         *)
(* A job's request (direction, owner, origin, first status, temporary      *)
(* source) is fixed by its id.  Progress figures, names, paths and error   *)
(* texts are left out; an error is its category.  Time is left out: a      *)
(* cooldown ends when the scheduler says so.                               *)
(***************************************************************************)
EXTENDS Integers, FiniteSets

CONSTANTS
    Jobs,              \* transfer ids
    Owners,            \* Telegram accounts
    NoOwner,           \* a job imported without an owner, or nobody signed in
    NoJob,             \* no record
    Uploads,           \* ids whose direction is Upload; the others download
    Supervised,        \* ids with an origin (Folder Sync waits for them)
    Zipped,            \* ids with a temp_zip_path, the upload's own source
    RequestOwner,      \* id -> owner_id of its request
    InitialStatus,     \* id -> initial_status of its request
    Limits,            \* settings: direction -> largest number of running jobs
    MaxBatch,          \* longest batch of requests
    MaxNetworkRetries, \* length of NETWORK_RETRY_BACKOFF_SECS
    MaxRevision,       \* bound: no new run, progress or command beyond it
    MaxPublications,   \* bound on how often one job may publish
    MaxPosition        \* bound: nothing is queued beyond this position

ASSUME TransferAssumption ==
    /\ Uploads \subseteq Jobs
    /\ Supervised \subseteq Jobs
    /\ Zipped \subseteq Uploads \ Supervised
    /\ NoOwner \notin Owners
    /\ RequestOwner \in [Jobs -> Owners \cup {NoOwner}]
    /\ \A id \in Supervised : RequestOwner[id] \in Owners
    /\ InitialStatus \in [Jobs -> {"Pending", "Paused", "WaitingForNetwork",
                                 "WaitingForUnlock", "Failed", "Active"}]
    /\ \A id \in Supervised : InitialStatus[id] = "Pending"
    /\ MaxBatch \in Nat
    /\ MaxNetworkRetries \in Nat
    /\ MaxRevision \in Nat
    /\ MaxPublications \in Nat
    /\ MaxPosition \in Nat
    /\ Limits \subseteq [{"Upload", "Download"} -> Nat \ {0}]

VARIABLES
    jobs,            \* TransferEngine.jobs: id -> record in memory
    disk,            \* transfer_jobs: id -> row
    tombstones,      \* transfer_tombstones
    active,          \* TransferEngine.active
    pending_commits, \* id -> result still to be saved
    limits,          \* max_uploads and max_downloads
    shutting_down,
    task,            \* id -> state of its spawned execute() task
    cancelled,       \* TelegramState.cancelled_transfers
    account,         \* the signed-in owner
    client,          \* TelegramState.client, or that signing out is under way
    supervisor,      \* id -> state of its run_supervised() call
    zips,            \* temporary sources that exist
    published,       \* history: id -> publications made
    succeeded,       \* history: ids whose operation answered Ok
    wanted           \* history: ids the user cancelled

store == <<jobs, disk, tombstones, pending_commits>>
settings == <<limits, shutting_down>>
world == <<account, client>>
history == <<published, succeeded, wanted>>
vars == <<jobs, disk, tombstones, pending_commits, active, limits,
          shutting_down, task, cancelled, account, client, supervisor, zips,
          published, succeeded, wanted>>

-----------------------------------------------------------------------------
(***************************************************************************)
(* Records.  "Active" stands for the statuses of is_active(): no rule of   *)
(* the queue tells Uploading, Downloading, Encrypting... apart.            *)
(***************************************************************************)
Terminal == {"Completed", "Failed", "Cancelled"}
Status == Terminal \cup {"Pending", "Paused", "WaitingForNetwork", "Cooldown",
                         "Active", "WaitingForUnlock"}
Category == {"None", "Network", "RateLimit", "Unlock", "Account",
             "Interrupted", "Persistence", "Cancelled", "Other"}
Job == [status : Status, owner : Owners \cup {NoOwner}, category : Category,
        persistence : {"Saved", "Pending"}, retries : Nat, position : Nat,
        revision : Nat]

ASSUME NoJobAssumption == NoJob \notin Job

(* What an operation may answer: Ok, or an error text by how it is read. *)
Errors == {"Cancelled", "Account", "Unlock", "FloodWait", "Disconnected",
           "Network", "Other"}
Task == [pc : {"None", "Spawned", "Running", "Acked", "Unacked", "Returned"},
         owner : Owners \cup {NoOwner}, answer : Errors \cup {"None", "Ok"},
         guard : {"Valid", "Stale"}]
NoTask == [pc |-> "None", owner |-> NoOwner, answer |-> "None",
           guard |-> "Stale"]

Direction(id) == IF id \in Uploads THEN "Upload" ELSE "Download"
InMemory == {id \in Jobs : jobs[id] # NoJob}
OnDisk == {id \in Jobs : disk[id] # NoJob}
Unsaved == {id \in Jobs : pending_commits[id] # NoJob}
Bumped(job) == [job EXCEPT !.revision = @ + 1]

(***************************************************************************)
(* The database.  Stored is upsert_on(): a row is replaced unless the      *)
(* write carries an older revision, which is ignored without an error.  A  *)
(* tombstone is an error, and upsert_many() is all or nothing.             *)
(***************************************************************************)
Stored(row, job) ==
    IF row # NoJob /\ job.revision < row.revision THEN row ELSE job

Writable(ids) == ids \cap tombstones = {}
Upserted(rows, f) ==
    [id \in Jobs |-> IF id \in DOMAIN f THEN Stored(rows[id], f[id])
                     ELSE rows[id]]
Inserted(records, f) ==
    [id \in Jobs |-> IF id \in DOMAIN f THEN f[id] ELSE records[id]]
Without(records, ids) ==
    [id \in Jobs |-> IF id \in ids THEN NoJob ELSE records[id]]

(* commit_jobs(): memory follows the transaction.  When the write fails    *)
(* nothing changes, and the caller decides what that means.                *)
CommitJobs(f) ==
    /\ Writable(DOMAIN f)
    /\ disk' = Upserted(disk, f)
    /\ jobs' = Inserted(jobs, f)

(* delete_many(): the tombstones and the rows in one transaction. *)
DeleteMany(ids) ==
    /\ tombstones' = tombstones \cup ids
    /\ disk' = Without(disk, ids)

(* cleanup_temporary_source() of completed jobs; a failure is only logged. *)
CleanUp(ids) == \E deleted \in SUBSET ids : zips' = zips \ deleted

(* account(expected): the guard is granted to the signed-in owner only. *)
SignedInAs(owner) == account # NoOwner /\ account = owner

Init ==
    /\ jobs = [id \in Jobs |-> NoJob]
    /\ disk = [id \in Jobs |-> NoJob]
    /\ tombstones = {}
    /\ active = {}
    /\ pending_commits = [id \in Jobs |-> NoJob]
    /\ limits \in Limits
    /\ shutting_down = FALSE
    /\ task = [id \in Jobs |-> NoTask]
    /\ cancelled = {}
    /\ account \in Owners
    /\ client = "Some"
    /\ supervisor = [id \in Jobs |-> "Idle"]
    /\ zips = Zipped
    /\ published = [id \in Jobs |-> 0]
    /\ succeeded = {}
    /\ wanted = {}

-----------------------------------------------------------------------------
(***************************************************************************)
(* Enqueueing.  A request of another account, an id held by another owner, *)
(* a tombstoned id, a taken destination or a failed write refuses the      *)
(* whole batch.  An id that is already queued is written again as it is.   *)
(***************************************************************************)
FirstStatus(id) ==
    IF RequestOwner[id] = NoOwner /\ InitialStatus[id] \notin Terminal
    THEN "Paused"
    ELSE IF InitialStatus[id] = "Active" THEN "Pending" ELSE InitialStatus[id]

NewJob(id, position) ==
    [status |-> FirstStatus(id), owner |-> RequestOwner[id],
     category |-> "None", persistence |-> "Saved", retries |-> 0,
     position |-> position, revision |-> 1]

(* The largest queue position in memory, 0 when the queue is empty. *)
IsLastPosition(last) ==
    /\ last \in {0} \cup {jobs[id].position : id \in InMemory}
    /\ \A id \in InMemory : jobs[id].position <= last

BatchIds(batch) == {batch[i] : i \in DOMAIN batch}
Accepts(id) ==
    /\ RequestOwner[id] \in {NoOwner, account}
    /\ id \in InMemory => jobs[id].owner = RequestOwner[id]

(* The record of a batch's i-th request; new ones are numbered in order. *)
QueuePosition(batch, last, id) ==
    last + Cardinality({j \in DOMAIN batch :
                           /\ jobs[batch[j]] = NoJob
                           /\ \E i \in DOMAIN batch : batch[i] = id /\ j <= i})
Batched(batch, last) ==
    [id \in BatchIds(batch) |->
        IF id \in InMemory THEN jobs[id]
        ELSE NewJob(id, QueuePosition(batch, last, id))]

Enqueue(batch, last) ==
    /\ account # NoOwner
    /\ \A i, j \in DOMAIN batch : batch[i] = batch[j] => i = j
    /\ \A id \in BatchIds(batch) : Accepts(id)
    /\ IsLastPosition(last)
    /\ last < MaxPosition
    /\ CommitJobs(Batched(batch, last))
    /\ UNCHANGED <<tombstones, pending_commits, active, settings, task,
                   cancelled, world, zips, history>>

(* cmd_transfer_enqueue_many(): requests of the interface.  A new request  *)
(* with a temporary source is made once that source exists.                *)
EnqueueMany(batch, last) ==
    /\ BatchIds(batch) \cap Supervised = {}
    /\ (BatchIds(batch) \cap Zipped) \ InMemory \subseteq zips
    /\ Enqueue(batch, last)
    /\ UNCHANGED supervisor

Batches == UNION {[1..n -> Jobs] : n \in 1..MaxBatch}

-----------------------------------------------------------------------------
(***************************************************************************)
(* schedule_once().  Results that could not be saved are retried first,    *)
(* whoever is signed in; then the free slots of each direction are filled  *)
(* in queue order.  A start is committed before the operation is spawned;  *)
(* when that write fails the jobs are parked in memory.                    *)
(***************************************************************************)
Retried(saved) ==
    [id \in saved |-> Bumped([pending_commits[id] EXCEPT !.persistence = "Saved"])]

Running(direction) == {id \in active : Direction(id) = direction}
(* Seeded fault: running jobs do not count. *)
SlotsIgnoringRunning(direction) == limits[direction]

Slots(direction) == limits[direction] - Cardinality(Running(direction))

Eligible(records, due) ==
    {id \in Jobs \ active :
        /\ records[id] # NoJob
        /\ records[id].owner = account
        /\ records[id].persistence = "Saved"
        /\ \/ records[id].status \in {"Pending", "WaitingForNetwork"}
           \/ records[id].status = "Cooldown" /\ id \in due}

Selected(records, due) ==
    {id \in Eligible(records, due) :
        Cardinality({other \in Eligible(records, due) :
                        /\ Direction(other) = Direction(id)
                        /\ records[other].position < records[id].position})
            < Slots(Direction(id))}

(* Bound: nothing is started once a chosen job is at MaxRevision. *)
Chosen(records, due) ==
    IF /\ account # NoOwner /\ client = "Some"
       /\ \A id \in Selected(records, due) : records[id].revision < MaxRevision
    THEN Selected(records, due) ELSE {}

Started(records, ids) ==
    [id \in ids |-> Bumped([records[id] EXCEPT !.status = "Active",
                                               !.category = "None"])]

(* Seeded fault: parking a job does not count as a change of it. *)
ParkedUnnumbered(records, ids) ==
    [id \in ids |-> [records[id] EXCEPT !.status = "Paused",
                                        !.category = "Persistence"]]

Parked(records, ids) ==
    [id \in ids |-> Bumped([records[id] EXCEPT !.status = "Paused",
                                               !.category = "Persistence"])]

Spawned(records, ids) ==
    [id \in Jobs |-> IF id \in ids
                     THEN [NoTask EXCEPT !.pc = "Spawned",
                                         !.owner = records[id].owner]
                     ELSE task[id]]

StartChosen(records, rows, ids) ==
    /\ Writable(ids)
    /\ disk' = Upserted(rows, Started(records, ids))
    /\ jobs' = Inserted(records, Started(records, ids))
    /\ active' = active \cup ids
    /\ task' = Spawned(records, ids)

StartFails(records, rows, ids) ==
    /\ disk' = rows
    /\ jobs' = Inserted(records, Parked(records, ids))
    /\ UNCHANGED <<active, task>>

(* due: the cooldowns whose retry_at has passed. *)
Cooling == {id \in InMemory : jobs[id].status = "Cooldown"}

(* Seeded fault: nothing is retried while nobody is connected. *)
ScheduleOnceConnected(saved, due) ==
    /\ ~shutting_down
    /\ account # NoOwner /\ client = "Some"
    /\ saved \subseteq Unsaved
    /\ Writable(saved)
    /\ LET records == Inserted(jobs, Retried(saved))
           rows == Upserted(disk, Retried(saved))
       IN \/ StartChosen(records, rows, Chosen(records, due))
          \/ StartFails(records, rows, Chosen(records, due))
    /\ pending_commits' = Without(pending_commits, saved)
    /\ CleanUp({id \in saved : pending_commits[id].status = "Completed"})
    /\ UNCHANGED <<tombstones, settings, cancelled, world, supervisor, history>>

ScheduleOnce(saved, due) ==
    /\ ~shutting_down
    /\ saved \subseteq Unsaved
    /\ Writable(saved)
    /\ LET records == Inserted(jobs, Retried(saved))
           rows == Upserted(disk, Retried(saved))
       IN \/ StartChosen(records, rows, Chosen(records, due))
          \/ StartFails(records, rows, Chosen(records, due))
    /\ pending_commits' = Without(pending_commits, saved)
    /\ CleanUp({id \in saved : pending_commits[id].status = "Completed"})
    /\ UNCHANGED <<tombstones, settings, cancelled, world, supervisor, history>>

-----------------------------------------------------------------------------
(***************************************************************************)
(* The operation of a running job, from execute() to its answer.  It holds *)
(* no lock of the queue.  It looks at its account guard before it          *)
(* publishes and at the cancellation flag only at some points, so both may *)
(* change under it.                                                        *)
(***************************************************************************)
Operation(id, to) ==
    /\ task' = [task EXCEPT ![id] = to]
    /\ UNCHANGED <<store, active, settings, world, supervisor, zips, wanted>>

ExecuteStart(id) ==
    /\ task[id].pc = "Spawned"
    /\ Operation(id,
           IF SignedInAs(task[id].owner)
           THEN [task[id] EXCEPT !.pc = "Running", !.guard = "Valid"]
           ELSE [task[id] EXCEPT !.pc = "Returned", !.answer = "Account"])
    /\ UNCHANGED <<cancelled, published, succeeded>>

(* Most places that see the flag take it; some only read it. *)
ObserveCancel(id) ==
    /\ task[id].pc = "Running"
    /\ id \in cancelled
    /\ Operation(id, [task[id] EXCEPT !.pc = "Returned",
                                      !.answer = "Cancelled"])
    /\ cancelled' \in {cancelled, cancelled \ {id}}
    /\ UNCHANGED <<published, succeeded>>

(* The message is sent, or the downloaded file moved to its place.  The    *)
(* answer of the server may be lost.                                       *)
Publish(id, outcome) ==
    /\ task[id].pc = "Running"
    /\ task[id].guard = "Valid"
    /\ outcome = "Unacked" => id \in Uploads
    /\ published[id] < MaxPublications
    /\ Operation(id, [task[id] EXCEPT !.pc = outcome])
    /\ published' = [published EXCEPT ![id] = @ + 1]
    /\ UNCHANGED <<cancelled, succeeded>>

(* A lost answer is tried again within the operation, up to its attempts. *)
SendAgain(id) ==
    /\ task[id].pc = "Unacked"
    /\ Operation(id, [task[id] EXCEPT !.pc = "Running"])
    /\ UNCHANGED <<cancelled, published, succeeded>>

(* After the publication the account is validated once more. *)
ReportPublished(id) ==
    /\ task[id].pc = "Acked"
    /\ Operation(id, [task[id] EXCEPT !.pc = "Returned",
                          !.answer = IF task[id].guard = "Valid" THEN "Ok"
                                     ELSE "Account"])
    /\ succeeded' = IF task[id].guard = "Valid" THEN succeeded \cup {id}
                    ELSE succeeded
    /\ UNCHANGED <<cancelled, published>>

OperationFails(id, error) ==
    /\ task[id].pc \in {"Running", "Unacked"}
    /\ task[id].pc = "Unacked" => error = "Network"
    /\ error = "Account" => task[id].guard = "Stale"
    /\ error = "Disconnected" => client # "Some"
    /\ error # "Cancelled"
    /\ Operation(id, [task[id] EXCEPT !.pc = "Returned", !.answer = error])
    /\ UNCHANGED <<cancelled, published, succeeded>>

(* record_progress(): always in memory, on disk when a checkpoint is due   *)
(* and its write succeeds.  Bounded by MaxRevision.                        *)
RecordProgress(id) ==
    /\ id \in active
    /\ id \in InMemory
    /\ jobs[id].status = "Active"
    /\ jobs[id].revision < MaxRevision
    /\ jobs' = [jobs EXCEPT ![id] = Bumped(@)]
    /\ \/ UNCHANGED disk
       \/ /\ id \notin tombstones
          /\ disk' = [disk EXCEPT ![id] = Stored(@, Bumped(jobs[id]))]
    /\ UNCHANGED <<tombstones, pending_commits, active, settings, task,
                   cancelled, world, supervisor, zips, history>>

-----------------------------------------------------------------------------
(***************************************************************************)
(* The result of an operation.  apply_failure() reads the error in this    *)
(* order: locked vault, flood wait, account, no client, cancelled, network *)
(* while retries are left, anything else.                                  *)
(***************************************************************************)
FailureStatus(job, error) ==
    CASE error = "Unlock" -> "WaitingForUnlock"
      [] error = "FloodWait" -> "Cooldown"
      [] error = "Account" -> "Paused"
      [] error = "Disconnected" -> "WaitingForNetwork"
      [] error = "Cancelled" -> "Cancelled"
      [] error = "Network" -> IF job.retries < MaxNetworkRetries
                              THEN "Cooldown" ELSE "Failed"
      [] error = "Other" -> "Failed"

(* classify_failure() *)
FailureCategory(error) ==
    CASE error = "FloodWait" -> "RateLimit"
      [] error = "Disconnected" -> "Network"
      [] OTHER -> error

ApplyFailure(job, error) ==
    [job EXCEPT !.status = FailureStatus(job, error),
                !.category = FailureCategory(error),
                !.retries = IF error = "Network" /\ @ < MaxNetworkRetries
                            THEN @ + 1 ELSE @]

(* Seeded fault: a pause or cancel wins over a late publication. *)
SettledPauseWins(job, answer) ==
    IF job.status \in {"Pending", "Paused", "Cancelled"} THEN job
    ELSE IF answer = "Ok"
    THEN [job EXCEPT !.status = "Completed", !.category = "None",
                     !.retries = 0]
    ELSE ApplyFailure(job, answer)

(* A publication wins over a pause or a cancel; a failure does not. *)
Settled(job, answer) ==
    IF answer = "Ok"
    THEN [job EXCEPT !.status = "Completed", !.category = "None",
                     !.retries = 0]
    ELSE IF job.status \in {"Pending", "Paused", "Cancelled"} THEN job
    ELSE ApplyFailure(job, answer)

Result(id) ==
    Bumped([Settled(jobs[id], task[id].answer) EXCEPT !.persistence = "Saved"])

Finish(id) ==
    /\ task[id].pc = "Returned"
    /\ active' = active \ {id}
    /\ task' = [task EXCEPT ![id] = NoTask]
    /\ UNCHANGED <<tombstones, settings, cancelled, world, supervisor, history>>

(* The record was removed while the operation ran. *)
FinishRemoved(id) ==
    /\ Finish(id)
    /\ id \notin InMemory
    /\ UNCHANGED <<jobs, disk, pending_commits, zips>>

FinishSaved(id) ==
    /\ Finish(id)
    /\ id \in InMemory
    /\ CommitJobs([i \in {id} |-> Result(id)])
    /\ pending_commits' = [pending_commits EXCEPT ![id] = NoJob]
    /\ CleanUp(IF Result(id).status = "Completed" THEN {id} ELSE {})

(* commit_result() failing: the result waits, and the record says so. *)
FinishUnsaved(id) ==
    /\ Finish(id)
    /\ id \in InMemory
    /\ pending_commits' = [pending_commits EXCEPT ![id] = Result(id)]
    /\ jobs' = [jobs EXCEPT ![id] = [Result(id) EXCEPT
                                        !.persistence = "Pending",
                                        !.category = "Persistence"]]
    /\ UNCHANGED <<disk, zips>>

-----------------------------------------------------------------------------
(***************************************************************************)
(* Commands of the user on one record.  The *_all commands are one such    *)
(* transition per record, each under its own lock.  A command that does    *)
(* not apply, and one whose write fails, changes nothing.                  *)
(***************************************************************************)
Applies(command, status) ==
    CASE command = "Pause" -> status \notin Terminal
      [] command = "Cancel" -> status \notin Terminal
      [] command = "Resume" -> status = "Paused"
      [] command = "Retry" ->
            status \in {"Failed", "Cancelled", "WaitingForUnlock",
                        "WaitingForNetwork", "Cooldown"}

Commanded(job, command) ==
    Bumped([job EXCEPT
        !.status = CASE command = "Pause" -> "Paused"
                     [] command = "Cancel" -> "Cancelled"
                     [] command \in {"Resume", "Retry"} -> "Pending",
        !.category = "None",
        !.retries = IF command \in {"Resume", "Retry"} THEN 0 ELSE @])

Transition(id, command) ==
    /\ id \in InMemory
    /\ SignedInAs(jobs[id].owner)
    /\ id \notin Unsaved
    /\ Applies(command, jobs[id].status)
    /\ jobs[id].revision < MaxRevision
    /\ CommitJobs([i \in {id} |-> Commanded(jobs[id], command)])
    /\ cancelled' = IF command \in {"Pause", "Cancel"} /\ id \in active
                    THEN cancelled \cup {id} ELSE cancelled
    /\ IF command \in {"Resume", "Retry"}
       THEN /\ wanted' = wanted \ {id}
            /\ succeeded' = succeeded \ {id}
       ELSE /\ wanted' = IF command = "Cancel" THEN wanted \cup {id}
                         ELSE wanted
            /\ UNCHANGED succeeded
    /\ UNCHANGED <<tombstones, pending_commits, active, settings, task, world,
                   supervisor, zips, published>>

(* Any command on a record whose result is unsaved saves that instead. *)
TransitionSavesResult(id) ==
    /\ id \in InMemory \cap Unsaved
    /\ SignedInAs(jobs[id].owner)
    /\ CommitJobs([i \in {id} |->
           [pending_commits[id] EXCEPT !.revision = jobs[id].revision + 1,
                                       !.persistence = "Saved"]])
    /\ pending_commits' = [pending_commits EXCEPT ![id] = NoJob]
    /\ UNCHANGED <<tombstones, active, settings, task, cancelled, world,
                   supervisor, zips, history>>

(* clear_terminal() looks at the records only, not at what still runs. *)
Clearable(direction, statuses) ==
    {id \in InMemory : /\ jobs[id].owner = account
                       /\ jobs[id].persistence = "Saved"
                       /\ Direction(id) = direction
                       /\ jobs[id].status \in statuses}

ClearTerminal(direction, statuses) ==
    /\ account # NoOwner
    /\ Clearable(direction, statuses) # {}
    /\ DeleteMany(Clearable(direction, statuses))
    /\ jobs' = Without(jobs, Clearable(direction, statuses))
    /\ UNCHANGED <<pending_commits, active, settings, task, cancelled, world,
                   supervisor, zips, history>>

(* cmd_transfer_adopt_legacy() and cmd_transfer_discard_legacy() *)
Adopted(job) ==
    Bumped([job EXCEPT !.owner = account, !.category = "None",
                       !.status = IF @ = "Completed" THEN @ ELSE "Paused"])
AdoptLegacy(ids) ==
    /\ account # NoOwner
    /\ ids # {}
    /\ \A id \in ids : /\ jobs[id].owner = NoOwner
                       /\ id \in Uploads \/ jobs[id].status = "Completed"
    /\ CommitJobs([id \in ids |-> Adopted(jobs[id])])
    /\ UNCHANGED <<tombstones, pending_commits, active, settings, task,
                   cancelled, world, supervisor, zips, history>>

DiscardLegacy(ids) ==
    /\ account # NoOwner
    /\ ids # {}
    /\ \A id \in ids : jobs[id].owner = NoOwner
    /\ DeleteMany(ids)
    /\ jobs' = Without(jobs, ids)
    /\ UNCHANGED <<pending_commits, active, settings, task, cancelled, world,
                   supervisor, zips, history>>

(* cmd_transfer_set_limits() *)
SetLimits(to) ==
    /\ limits' = to
    /\ UNCHANGED <<store, active, shutting_down, task, cancelled, world,
                   supervisor, zips, history>>

-----------------------------------------------------------------------------
(***************************************************************************)
(* run_supervised(): Folder Sync queues one transfer under a fresh id,     *)
(* waits, and withdraws it whatever happened.                              *)
(***************************************************************************)
Supervising == {"Waiting", "Ok", "Err"}

RunSupervised(id, last) ==
    /\ id \in Supervised
    /\ supervisor[id] = "Idle"
    /\ Enqueue([i \in {1} |-> id], last)
    /\ supervisor' = [supervisor EXCEPT ![id] = "Waiting"]

(* Seeded fault: any end of the transfer is a success. *)
DecideAnyEnd(id, verdict) ==
    /\ supervisor[id] = "Waiting"
    /\ verdict = "Ok" => id \in InMemory /\ jobs[id].status \in Terminal
    /\ supervisor' = [supervisor EXCEPT ![id] = verdict]
    /\ UNCHANGED <<store, active, settings, task, cancelled, world, zips,
                   history>>

(* wait_settled(): the transfer completed, or the supervisor gives up: it  *)
(* failed, was paused by the queue, was removed, cannot start offline, or  *)
(* the sync engine stops (which needs no other cause) or drops the call.   *)
Decide(id, verdict) ==
    /\ supervisor[id] = "Waiting"
    /\ verdict = "Ok" => id \in InMemory /\ jobs[id].status = "Completed"
    /\ supervisor' = [supervisor EXCEPT ![id] = verdict]
    /\ UNCHANGED <<store, active, settings, task, cancelled, world, zips,
                   history>>

(* withdraw(): forget the record and ask a running operation to stop.  A   *)
(* failed delete leaves the row; it is dropped at the next start.          *)
Withdraw(id) ==
    /\ supervisor[id] \in {"Ok", "Err"}
    /\ jobs' = Without(jobs, {id})
    /\ \/ id \in InMemory /\ DeleteMany({id})
       \/ UNCHANGED <<tombstones, disk>>
    /\ pending_commits' = [pending_commits EXCEPT ![id] = NoJob]
    /\ cancelled' = IF id \in active THEN cancelled \cup {id} ELSE cancelled
    /\ supervisor' = [supervisor EXCEPT ![id] =
                          IF id \in active THEN "Settling" ELSE "Done"]
    /\ UNCHANGED <<active, settings, task, world, zips, history>>

(* The operation has stopped, or WITHDRAW_SETTLE_TIMEOUT has passed. *)
WithdrawReturns(id) ==
    /\ supervisor[id] = "Settling"
    /\ supervisor' = [supervisor EXCEPT ![id] = "Done"]
    /\ cancelled' = cancelled \ {id}
    /\ UNCHANGED <<store, active, settings, task, world, zips, history>>

-----------------------------------------------------------------------------
(***************************************************************************)
(* The account and the connection.  Signing out first ends every guard     *)
(* (account::suspend), and only later drops the client and the flags.      *)
(***************************************************************************)
Suspend ==
    /\ account # NoOwner
    /\ account' = NoOwner
    /\ client' = "SigningOut"
    /\ task' = [id \in Jobs |-> [task[id] EXCEPT !.guard = "Stale"]]
    /\ UNCHANGED <<store, active, settings, cancelled, supervisor, zips,
                   history>>

Logout ==
    /\ client = "SigningOut"
    /\ client' = "None"
    /\ cancelled' = {}
    /\ UNCHANGED <<store, active, settings, task, account, supervisor, zips,
                   history>>

SignIn(owner) ==
    /\ account = NoOwner
    /\ client = "None"
    /\ account' = owner
    /\ client' = "Some"
    /\ UNCHANGED <<store, active, settings, task, cancelled, supervisor, zips,
                   history>>

(* The connection of the signed-in account is lost, or comes back. *)
Reconnect ==
    /\ account # NoOwner
    /\ client' = IF client = "Some" THEN "None" ELSE "Some"
    /\ UNCHANGED <<store, active, settings, task, cancelled, account,
                   supervisor, zips, history>>

-----------------------------------------------------------------------------
(***************************************************************************)
(* The process ends, by a crash at any point or after begin_shutdown(),    *)
(* and TransferStore::open() recovers the rows at the next start: expired  *)
(* tombstones and supervised rows are dropped, interrupted and ownerless   *)
(* work is paused.  A recovered row is written before the queue is used.   *)
(***************************************************************************)
BeginShutdown ==
    /\ ~shutting_down
    /\ shutting_down' = TRUE
    /\ UNCHANGED <<store, active, limits, task, cancelled, world, supervisor,
                   zips, history>>

NeedsRecovery(row) ==
    \/ row.status = "Active"
    \/ row.owner = NoOwner /\ row.status \notin Terminal \cup {"Paused"}

RecoverAfterRestart(row) ==
    IF NeedsRecovery(row)
    THEN Bumped([row EXCEPT !.status = "Paused",
                            !.category = IF row.owner = NoOwner
                                         THEN "Account" ELSE "Interrupted",
                            !.persistence = "Saved"])
    ELSE row

(* Seeded fault: supervised rows are loaded like any other. *)
RecoveredAll(id) ==
    IF disk[id] = NoJob THEN NoJob ELSE RecoverAfterRestart(disk[id])

Recovered(id) ==
    IF disk[id] = NoJob \/ id \in Supervised THEN NoJob
    ELSE RecoverAfterRestart(disk[id])

Restart(left) ==
    /\ left \in SUBSET tombstones
    /\ tombstones' = left
    /\ disk' = [id \in Jobs |-> Recovered(id)]
    /\ jobs' = [id \in Jobs |-> Recovered(id)]
    /\ pending_commits' = [id \in Jobs |-> NoJob]
    /\ active' = {}
    /\ task' = [id \in Jobs |-> NoTask]
    /\ cancelled' = {}
    /\ shutting_down' = FALSE
    /\ client' = "None"
    /\ supervisor' = [id \in Jobs |-> IF supervisor[id] = "Idle" THEN "Idle"
                                      ELSE "Done"]
    /\ succeeded' = {}
    /\ UNCHANGED <<limits, account, zips, published, wanted>>

-----------------------------------------------------------------------------
Next ==
    \/ \E batch \in Batches : \E last \in {0} \cup {jobs[id].position : id \in InMemory} :
          EnqueueMany(batch, last)
    \/ \E saved \in SUBSET Unsaved, due \in SUBSET Cooling : ScheduleOnce(saved, due)
    \/ \E id \in Jobs :
          \/ ExecuteStart(id)
          \/ ObserveCancel(id)
          \/ \E outcome \in {"Acked", "Unacked"} : Publish(id, outcome)
          \/ SendAgain(id)
          \/ ReportPublished(id)
          \/ \E error \in Errors : OperationFails(id, error)
          \/ RecordProgress(id)
          \/ FinishRemoved(id)
          \/ FinishSaved(id)
          \/ FinishUnsaved(id)
          \/ \E command \in {"Pause", "Cancel", "Resume", "Retry"} :
                Transition(id, command)
          \/ TransitionSavesResult(id)
          \/ \E last \in {0} \cup {jobs[other].position : other \in InMemory} :
                RunSupervised(id, last)
          \/ \E verdict \in {"Ok", "Err"} : Decide(id, verdict)
          \/ Withdraw(id)
          \/ WithdrawReturns(id)
    \/ \E direction \in {"Upload", "Download"},
          statuses \in {{"Completed"}, Terminal} :
          ClearTerminal(direction, statuses)
    \/ \E ids \in SUBSET InMemory : AdoptLegacy(ids) \/ DiscardLegacy(ids)
    \/ \E to \in Limits : SetLimits(to)
    \/ Suspend
    \/ Logout
    \/ \E owner \in Owners : SignIn(owner)
    \/ Reconnect
    \/ BeginShutdown
    \/ \E left \in SUBSET tombstones : Restart(left)

Spec == Init /\ [][Next]_vars

(***************************************************************************)
(* The scheduler loop wakes at least every second, and a write that can be *)
(* tried again and again is assumed to succeed in the end.                 *)
(***************************************************************************)
SavesResult(id) ==
    \E saved \in SUBSET Unsaved, due \in SUBSET Cooling :
        id \in saved /\ ScheduleOnce(saved, due)
LoopFairness == \A id \in Jobs : SF_vars(SavesResult(id))
-----------------------------------------------------------------------------
(* Every variable has its type, and what runs is exactly what is active:   *)
(* one task for each id of the active map.                                 *)
TypeOK ==
    /\ jobs \in [Jobs -> Job \cup {NoJob}]
    /\ disk \in [Jobs -> Job \cup {NoJob}]
    /\ tombstones \in SUBSET Jobs
    /\ active \in SUBSET Jobs
    /\ pending_commits \in [Jobs -> Job \cup {NoJob}]
    /\ limits \in Limits
    /\ shutting_down \in BOOLEAN
    /\ task \in [Jobs -> Task]
    /\ \A id \in Jobs : id \in active <=> task[id].pc # "None"
    /\ cancelled \in SUBSET Jobs
    /\ account \in Owners \cup {NoOwner}
    /\ client \in {"Some", "None", "SigningOut"}
    /\ supervisor \in [Jobs -> Supervising \cup {"Idle", "Settling", "Done"}]
    /\ zips \in SUBSET Zipped
    /\ published \in [Jobs -> Nat]
    /\ succeeded \in SUBSET Jobs
    /\ wanted \in SUBSET Jobs

(* The database never holds a later revision than memory, so upsert_on()   *)
(* never silently drops a write; and a row of the same revision is the     *)
(* same record.                                                            *)
DiskNotAhead ==
    \A id \in InMemory \cap OnDisk :
        /\ disk[id].revision <= jobs[id].revision
        /\ disk[id].revision = jobs[id].revision => disk[id] = jobs[id]

(* The queue and the database hold the same user transfers; a supervised   *)
(* row may outlive its record, when its removal failed.                    *)
SameTransfers ==
    /\ InMemory \subseteq OnDisk
    /\ OnDisk \ InMemory \subseteq Supervised

(* A removed transfer stays removed: no late progress, result or retried   *)
(* result brings a tombstoned id back.                                     *)
NoResurrection == tombstones \cap (InMemory \cup OnDisk \cup Unsaved) = {}

(* No work starts without its durable intent: while memory says a job is   *)
(* active its row does too, so a restart finds it interrupted.             *)
DurableIntent ==
    \A id \in InMemory :
        jobs[id].status = "Active" =>
            id \in active /\ disk[id].status = "Active"

(* A result waiting for the disk holds its record back: not running, never *)
(* cleared, and at the revision the retry will overwrite.                  *)
UnsavedIsHeld ==
    \A id \in Unsaved :
        /\ id \in InMemory \ active
        /\ jobs[id].persistence = "Pending"
        /\ jobs[id].revision = pending_commits[id].revision
        /\ jobs[id].status = pending_commits[id].status

(* The temporary source of an upload is deleted only once nothing on disk  *)
(* or in memory could still ask for it.                                    *)
SourceKept ==
    \A id \in Zipped \ zips :
        /\ id \in InMemory => jobs[id].status = "Completed"
        /\ id \in OnDisk => disk[id].status = "Completed"

(* Queue positions tell any two queued records apart, so first in, first   *)
(* out is well defined.                                                    *)
PositionsDistinct ==
    \A i, j \in InMemory : jobs[i].position = jobs[j].position => i = j

(* An operation that may still publish belongs to the signed-in account. *)
OwnAccountOnly ==
    \A id \in Jobs : task[id].guard = "Valid" => SignedInAs(task[id].owner)

(* A transfer imported without an owner never runs before it is adopted. *)
LegacyWaits ==
    \A id \in InMemory :
        jobs[id].owner = NoOwner => /\ id \notin active
                                    /\ jobs[id].status \in Terminal \cup {"Paused"}

(* A withdrawn supervised transfer leaves no record in memory behind. *)
WithdrawnIsForgotten ==
    \A id \in Supervised :
        supervisor[id] \notin Supervising => id \notin InMemory \cup Unsaved

(* A supervisor is told of success only for content that was published. *)
SuccessIsPublished ==
    \A id \in Supervised : supervisor[id] = "Ok" => published[id] > 0

(* What the queue keeps in every state, of memory, of the database and     *)
(* between the two.                                                        *)
QueueInv ==
    /\ TypeOK /\ DiskNotAhead /\ SameTransfers /\ NoResurrection
    /\ DurableIntent /\ UnsavedIsHeld /\ SourceKept /\ LegacyWaits
    /\ WithdrawnIsForgotten

(* The same for a queue of several transfers, one of them supervised, with *)
(* the order of the queue and what a supervisor is told.                   *)
SupervisedInv == QueueInv /\ OwnAccountOnly /\ PositionsDistinct /\ SuccessIsPublished

(* A job that starts has its own slot under the limits now in force. *)
SlotsRespected ==
    [][\A id \in active' \ active :
          Cardinality({other \in active' : Direction(other) = Direction(id)})
              <= limits[Direction(id)]]_vars

(* A transfer whose operation reported success is not run again in this    *)
(* process unless the user resumes or retries it.                          *)
NoRepeat == [][\A id \in active' \ active : id \notin succeeded]_vars

(* A row that says Completed is never anything else again. *)
CompletedIsFinal ==
    [][\A id \in OnDisk : disk[id].status = "Completed" =>
          disk'[id] = NoJob \/ disk'[id].status = "Completed"]_vars

(* Once withdrawn, or after the process that supervised it, a supervised   *)
(* transfer never starts.                                                  *)
WithdrawnNeverStarts ==
    [][\A id \in Supervised :
          supervisor[id] \notin Supervising => id \notin active' \ active]_vars

(* A result that could not be saved is saved in the end, or its transfer   *)
(* withdrawn, unless the application is closing.                           *)
ResultEventuallySaved ==
    \A id \in Jobs : []<>(id \notin Unsaved \/ shutting_down)

-----------------------------------------------------------------------------
(* What comments of the repository say, and the code does not keep.        *)

(* "The cancellation request is single-use; do not leave it behind": a     *)
(* queued transfer ends as Cancelled only if the user cancelled it.        *)
CancelledIsWanted ==
    \A id \in InMemory \ Supervised :
        jobs[id].status = "Cancelled" => id \in wanted
=============================================================================
