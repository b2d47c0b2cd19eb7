------------------------ MODULE TransferEngineProofs ------------------------
(***************************************************************************)
(* Proofs about TransferEngine, for any transfers, accounts, limits and    *)
(* bounds.  The invariant is stated for one id at a time: Sound relates    *)
(* its record m, its row d, its unsaved result p, its task t and its       *)
(* supervisor s, and no action ties two ids together.                      *)
(***************************************************************************)
EXTENDS TransferEngine, FiniteSetTheorems, TLAPS

(* The record and the row: the same transfer, the row never ahead. *)
Agree(id, m, d) ==
    /\ m # NoJob => d # NoJob
    /\ m = NoJob /\ d # NoJob => id \in Supervised
    /\ m # NoJob => d.revision <= m.revision
    /\ m # NoJob /\ d.revision = m.revision => d = m
    /\ m # NoJob /\ d.status = "Completed" => m.status = "Completed"

(* What runs: durably started, owned, and not done. *)
Runs(id, m, d, act) ==
    /\ m # NoJob /\ m.status = "Active" => act /\ d.status = "Active"
    /\ m # NoJob /\ m.owner = NoOwner =>
          ~act /\ m.status \in Terminal \cup {"Paused"}
    /\ m # NoJob /\ act => m.status # "Completed"

(* An unsaved result and the record that waits for it. *)
Waits(m, p, act) ==
    p # NoJob =>
        /\ m # NoJob
        /\ ~act
        /\ m.persistence = "Pending"
        /\ m.revision = p.revision
        /\ m.status = p.status
        /\ m.owner = p.owner
        /\ m.owner # NoOwner

(* A removed id is gone everywhere, and what runs without a record was     *)
(* removed.                                                                *)
Gone(id, m, d, p, act, tomb) ==
    /\ tomb => m = NoJob /\ d = NoJob /\ p = NoJob
    /\ m = NoJob /\ act /\ id \notin Supervised => tomb

(* A deleted source belongs to a completed transfer. *)
Source(m, d, deleted) ==
    deleted => /\ m # NoJob => m.status = "Completed"
               /\ d # NoJob => d.status = "Completed"

(* A supervised id is used by one call. *)
Call(id, m, d, s) ==
    /\ s # "Idle" => id \in Supervised
    /\ id \in Supervised /\ s \notin Supervising => m = NoJob
    /\ id \in Supervised /\ s = "Idle" => d = NoJob

Answered(t) == t.pc = "Returned" => t.answer \in Errors \cup {"Ok"}

Sound(id) ==
    /\ Agree(id, jobs[id], disk[id])
    /\ Runs(id, jobs[id], disk[id], id \in active)
    /\ Waits(jobs[id], pending_commits[id], id \in active)
    /\ Gone(id, jobs[id], disk[id], pending_commits[id], id \in active,
            id \in tombstones)
    /\ Source(jobs[id], disk[id], id \in Zipped \ zips)
    /\ Call(id, jobs[id], disk[id], supervisor[id])
    /\ Answered(task[id])

IInv == TypeOK /\ \A id \in Jobs : Sound(id)

-----------------------------------------------------------------------------
(* Records. *)

(* Bumped changes the revision only. *)
LEMMA BumpedOK ==
    ASSUME NEW job \in Job
    PROVE  /\ Bumped(job) \in Job
           /\ Bumped(job).revision = job.revision + 1
           /\ Bumped(job).status = job.status
           /\ Bumped(job).owner = job.owner
           /\ Bumped(job).persistence = job.persistence
           /\ Bumped(job).category = job.category
           /\ job.revision \in Nat
  BY DEF Bumped, Job

(* A write that is not older than the row replaces it. *)
LEMMA StoredOK ==
    ASSUME NEW row, NEW job, row # NoJob => ~(job.revision < row.revision)
    PROVE  Stored(row, job) = job
  BY DEF Stored

(* Whatever row and record are stored, a record is. *)
LEMMA StoredType ==
    ASSUME NEW row \in Job \cup {NoJob}, NEW job \in Job
    PROVE  Stored(row, job) \in Job
  BY DEF Stored

(* A failed operation leaves its record stopped. *)
LEMMA ApplyFailureOK ==
    ASSUME NEW job \in Job, NEW error \in Errors
    PROVE  /\ ApplyFailure(job, error) \in Job
           /\ ApplyFailure(job, error).revision = job.revision
           /\ ApplyFailure(job, error).owner = job.owner
           /\ ApplyFailure(job, error).status \notin {"Active", "Completed"}
  <1>1. FailureStatus(job, error) \in Status \ {"Active", "Completed"}
    BY DEF FailureStatus, Errors, Status, Terminal
  <1>2. FailureCategory(error) \in Category
    BY DEF FailureCategory, Errors, Category
  <1>3. job.retries \in Nat /\ MaxNetworkRetries \in Nat
    BY TransferAssumption DEF TransferAssumption, Job
  <1> DEFINE r == IF error = "Network" /\ job.retries < MaxNetworkRetries
                  THEN job.retries + 1 ELSE job.retries
             st == FailureStatus(job, error)
             ca == FailureCategory(error)
  <1>4. r \in Nat
    BY <1>3
  <1>5. ApplyFailure(job, error) =
            [job EXCEPT !.status = st, !.category = ca, !.retries = r]
    BY DEF ApplyFailure
  <1> HIDE DEF r, st, ca
  <1>6. st \in Status \ {"Active", "Completed"} /\ ca \in Category
    BY <1>1, <1>2 DEF st, ca
  <1> QED BY <1>4, <1>5, <1>6 DEF Job

(* The result of an operation is a stopped record of the same transfer. *)
LEMMA SettledOK ==
    ASSUME NEW job \in Job, NEW answer \in Errors \cup {"Ok"}
    PROVE  /\ Settled(job, answer) \in Job
           /\ Settled(job, answer).revision = job.revision
           /\ Settled(job, answer).owner = job.owner
           /\ Settled(job, answer).status # "Active"
  <1>1. CASE answer = "Ok"
    BY <1>1 DEF Settled, Job, Status, Terminal, Category
  <1>2. CASE answer # "Ok" /\ job.status \in {"Pending", "Paused", "Cancelled"}
    BY <1>2 DEF Settled
  <1>3. CASE answer \in Errors /\ answer # "Ok"
             /\ job.status \notin {"Pending", "Paused", "Cancelled"}
    BY <1>3, ApplyFailureOK DEF Settled
  <1> QED BY <1>1, <1>2, <1>3

(* A command stops or requeues a record. *)
LEMMA CommandedOK ==
    ASSUME NEW job \in Job,
           NEW command \in {"Pause", "Cancel", "Resume", "Retry"}
    PROVE  /\ Commanded(job, command) \in Job
           /\ Commanded(job, command).revision = job.revision + 1
           /\ Commanded(job, command).owner = job.owner
           /\ Commanded(job, command).status \in {"Paused", "Cancelled", "Pending"}
  <1> DEFINE st == CASE command = "Pause" -> "Paused"
                     [] command = "Cancel" -> "Cancelled"
                     [] command \in {"Resume", "Retry"} -> "Pending"
             r == IF command \in {"Resume", "Retry"} THEN 0 ELSE job.retries
             next == [job EXCEPT !.status = st, !.category = "None",
                                 !.retries = r]
  <1>1. st \in {"Paused", "Cancelled", "Pending"}
    OBVIOUS
  <1>2. r \in Nat
    BY DEF Job
  <1>3. Commanded(job, command) = Bumped(next)
    BY DEF Commanded
  <1> HIDE DEF st, r
  <1>4. /\ next \in Job
        /\ next.revision = job.revision
        /\ next.owner = job.owner
        /\ next.status = st
    BY <1>1, <1>2 DEF Job, Status, Terminal, Category
  <1> QED BY <1>1, <1>3, <1>4, BumpedOK

(* An adopted record is owned, and completed only if it was. *)
LEMMA AdoptedOK ==
    ASSUME NEW job \in Job, account \in Owners
    PROVE  /\ Adopted(job) \in Job
           /\ Adopted(job).revision = job.revision + 1
           /\ Adopted(job).owner = account
           /\ Adopted(job).status = IF job.status = "Completed"
                                    THEN "Completed" ELSE "Paused"
  <1> DEFINE st == IF job.status = "Completed" THEN "Completed" ELSE "Paused"
             next == [job EXCEPT !.owner = account, !.category = "None",
                                 !.status = st]
  <1>1. Adopted(job) = Bumped(next)
    BY DEF Adopted
  <1>2. st \in Status
    BY DEF Status, Terminal
  <1> HIDE DEF st
  <1>3. /\ next \in Job
        /\ next.revision = job.revision
        /\ next.owner = account
        /\ next.status = st
    BY <1>2 DEF Job, Category
  <1> HIDE DEF next
  <1>4. /\ Bumped(next) \in Job
        /\ Bumped(next).revision = job.revision + 1
        /\ Bumped(next).owner = account
        /\ Bumped(next).status = st
    BY <1>3, BumpedOK
  <1> QED BY <1>1, <1>4 DEF st

(* A new record is neither active nor completed; without an owner it is    *)
(* stopped.                                                                *)
LEMMA NewJobOK ==
    ASSUME NEW id \in Jobs, NEW position \in Nat
    PROVE  /\ NewJob(id, position) \in Job
           /\ NewJob(id, position).revision = 1
           /\ NewJob(id, position).owner = RequestOwner[id]
           /\ NewJob(id, position).status \notin {"Active", "Completed"}
           /\ RequestOwner[id] = NoOwner =>
                 NewJob(id, position).status \in Terminal \cup {"Paused"}
  <1>1. /\ RequestOwner[id] \in Owners \cup {NoOwner}
        /\ InitialStatus[id] \in {"Pending", "Paused", "WaitingForNetwork",
                                  "WaitingForUnlock", "Failed", "Active"}
    BY TransferAssumption DEF TransferAssumption
  <1>2. /\ FirstStatus(id) \in Status \ {"Active", "Completed"}
        /\ RequestOwner[id] = NoOwner =>
              FirstStatus(id) \in Terminal \cup {"Paused"}
    BY <1>1 DEF FirstStatus, Status, Terminal
  <1> QED BY <1>1, <1>2 DEF NewJob, Job, Category

(* A recovered row is stopped if it was active, and completed only if it   *)
(* was.                                                                    *)
LEMMA RecoveredOK ==
    ASSUME NEW row \in Job
    PROVE  /\ RecoverAfterRestart(row) \in Job
           /\ RecoverAfterRestart(row).owner = row.owner
           /\ RecoverAfterRestart(row).status # "Active"
           /\ row.status = "Completed" =>
                 RecoverAfterRestart(row).status = "Completed"
           /\ row.owner = NoOwner =>
                 RecoverAfterRestart(row).status \in Terminal \cup {"Paused"}
  <1>1. CASE NeedsRecovery(row)
    <2> DEFINE ca == IF row.owner = NoOwner THEN "Account" ELSE "Interrupted"
               next == [row EXCEPT !.status = "Paused", !.category = ca,
                                   !.persistence = "Saved"]
    <2>1. RecoverAfterRestart(row) = Bumped(next)
      BY <1>1 DEF RecoverAfterRestart
    <2>2. ca \in Category
      BY DEF Category
    <2> HIDE DEF ca
    <2>3. next \in Job /\ next.owner = row.owner /\ next.status = "Paused"
      BY <2>2 DEF Job, Status, Terminal
    <2>4. row.status # "Completed"
      BY <1>1 DEF NeedsRecovery, Terminal
    <2> QED BY <2>1, <2>3, <2>4, BumpedOK
  <1>2. CASE ~NeedsRecovery(row)
    BY <1>2 DEF RecoverAfterRestart, NeedsRecovery
  <1> QED BY <1>1, <1>2

(* A started and a parked record. *)
LEMMA StartedOK ==
    ASSUME NEW records, NEW ids, NEW id \in ids, records[id] \in Job
    PROVE  /\ Started(records, ids)[id] \in Job
           /\ Started(records, ids)[id].revision = records[id].revision + 1
           /\ Started(records, ids)[id].owner = records[id].owner
           /\ Started(records, ids)[id].status = "Active"
           /\ Parked(records, ids)[id] \in Job
           /\ Parked(records, ids)[id].revision = records[id].revision + 1
           /\ Parked(records, ids)[id].owner = records[id].owner
           /\ Parked(records, ids)[id].status = "Paused"
  <1> DEFINE started == [records[id] EXCEPT !.status = "Active",
                                            !.category = "None"]
             parked == [records[id] EXCEPT !.status = "Paused",
                                           !.category = "Persistence"]
  <1>1. Started(records, ids)[id] = Bumped(started)
    BY DEF Started
  <1>2. Parked(records, ids)[id] = Bumped(parked)
    BY DEF Parked
  <1>3. /\ started \in Job
        /\ started.revision = records[id].revision
        /\ started.owner = records[id].owner
        /\ started.status = "Active"
    BY DEF Job, Status, Category, Terminal
  <1>4. /\ parked \in Job
        /\ parked.revision = records[id].revision
        /\ parked.owner = records[id].owner
        /\ parked.status = "Paused"
    BY DEF Job, Status, Category, Terminal
  <1> HIDE DEF started, parked
  <1>5. /\ Bumped(started) \in Job
        /\ Bumped(started).revision = records[id].revision + 1
        /\ Bumped(started).owner = records[id].owner
        /\ Bumped(started).status = "Active"
    BY <1>3, BumpedOK
  <1>6. /\ Bumped(parked) \in Job
        /\ Bumped(parked).revision = records[id].revision + 1
        /\ Bumped(parked).owner = records[id].owner
        /\ Bumped(parked).status = "Paused"
    BY <1>4, BumpedOK
  <1> QED BY <1>1, <1>2, <1>5, <1>6

(* A saved record: the flag is all that changes. *)
LEMMA SavedOK ==
    ASSUME NEW job \in Job
    PROVE  /\ [job EXCEPT !.persistence = "Saved"] \in Job
           /\ [job EXCEPT !.persistence = "Saved"].revision = job.revision
           /\ [job EXCEPT !.persistence = "Saved"].owner = job.owner
           /\ [job EXCEPT !.persistence = "Saved"].status = job.status
           /\ [job EXCEPT !.persistence = "Saved"].persistence = "Saved"
  BY DEF Job

(* The result of the operation of a record in memory. *)
LEMMA ResultOK ==
    ASSUME IInv, NEW id \in Jobs, jobs[id] # NoJob, task[id].pc = "Returned"
    PROVE  /\ Result(id) \in Job
           /\ Result(id).revision = jobs[id].revision + 1
           /\ Result(id).owner = jobs[id].owner
           /\ Result(id).status # "Active"
  <1>1. jobs[id] \in Job /\ task[id].answer \in Errors \cup {"Ok"}
    BY DEF IInv, TypeOK, Sound, Answered
  <1> DEFINE settled == Settled(jobs[id], task[id].answer)
             saved == [settled EXCEPT !.persistence = "Saved"]
  <1>2. /\ settled \in Job
        /\ settled.revision = jobs[id].revision
        /\ settled.owner = jobs[id].owner
        /\ settled.status # "Active"
    BY <1>1, SettledOK
  <1>3. Result(id) = Bumped(saved)
    BY DEF Result
  <1> HIDE DEF settled
  <1>4. /\ saved \in Job
        /\ saved.revision = jobs[id].revision
        /\ saved.owner = jobs[id].owner
        /\ saved.status # "Active"
    BY <1>2, SavedOK
  <1> QED BY <1>3, <1>4, BumpedOK

-----------------------------------------------------------------------------
(* The database. *)

(* A commit of records no older than their rows reaches both copies. *)
LEMMA CommitOK ==
    ASSUME TypeOK, NEW f, DOMAIN f \subseteq Jobs, CommitJobs(f),
           \A id \in DOMAIN f :
              /\ f[id] \in Job
              /\ disk[id] # NoJob => disk[id].revision <= f[id].revision
    PROVE  /\ jobs' \in [Jobs -> Job \cup {NoJob}]
           /\ disk' \in [Jobs -> Job \cup {NoJob}]
           /\ \A id \in Jobs :
                 /\ id \in DOMAIN f => jobs'[id] = f[id] /\ disk'[id] = f[id]
                 /\ id \notin DOMAIN f =>
                       jobs'[id] = jobs[id] /\ disk'[id] = disk[id]
                 /\ id \in DOMAIN f => id \notin tombstones
  <1>1. /\ jobs' = Inserted(jobs, f)
        /\ disk' = Upserted(disk, f)
        /\ DOMAIN f \cap tombstones = {}
    BY DEF CommitJobs, Writable
  <1>2. \A id \in DOMAIN f : Stored(disk[id], f[id]) = f[id]
    <2> SUFFICES ASSUME NEW id \in DOMAIN f
                 PROVE  Stored(disk[id], f[id]) = f[id]
      OBVIOUS
    <2>1. disk[id] # NoJob => ~(f[id].revision < disk[id].revision)
      BY DEF TypeOK, Job
    <2> QED BY <2>1, StoredOK
  <1>3. jobs \in [Jobs -> Job \cup {NoJob}] /\ disk \in [Jobs -> Job \cup {NoJob}]
    BY DEF TypeOK
  <1> QED BY <1>1, <1>2, <1>3 DEF Inserted, Upserted

-----------------------------------------------------------------------------
(* Actions.  An id whose parts are left alone stays sound. *)
LEMMA SoundFrame ==
    ASSUME NEW id \in Jobs, Sound(id),
           jobs'[id] = jobs[id], disk'[id] = disk[id],
           pending_commits'[id] = pending_commits[id], task'[id] = task[id],
           supervisor'[id] = supervisor[id],
           id \in active' <=> id \in active,
           id \in tombstones' <=> id \in tombstones,
           id \in zips' <=> id \in zips
    PROVE  Sound(id)'
  BY DEF Sound, Agree, Runs, Waits, Gone, Source, Call, Answered

(* A record that is on disk as it is in memory. *)
LEMMA CommittedOK ==
    ASSUME NEW id \in Jobs, NEW job \in Job,
           jobs'[id] = job, disk'[id] = job,
           job.status = "Active" => id \in active',
           job.owner = NoOwner =>
              id \notin active' /\ job.status \in Terminal \cup {"Paused"},
           id \in active' => job.status # "Completed",
           Waits(job, pending_commits'[id], id \in active'),
           id \notin tombstones',
           id \in Zipped \ zips' => job.status = "Completed",
           supervisor'[id] # "Idle" => id \in Supervised,
           id \in Supervised => supervisor'[id] \in Supervising,
           Answered(task'[id])
    PROVE  Sound(id)'
  <1>1. job # NoJob /\ job.revision \in Nat
    BY NoJobAssumption DEF Job
  <1>2. "Idle" \notin Supervising
    BY DEF Supervising
  <1>3. Agree(id, jobs[id], disk[id])' /\ Runs(id, jobs[id], disk[id], id \in active)'
    BY <1>1 DEF Agree, Runs
  <1>4. Call(id, jobs[id], disk[id], supervisor[id])'
    BY <1>1, <1>2 DEF Call
  <1> QED BY <1>1, <1>3, <1>4 DEF Sound, Gone, Source

(* An id that is gone from memory and disk. *)
LEMMA RemovedOK ==
    ASSUME NEW id \in Jobs, jobs'[id] = NoJob, disk'[id] = NoJob,
           pending_commits'[id] = NoJob,
           id \in active' => id \in tombstones' \cup Supervised,
           supervisor'[id] # "Idle" => id \in Supervised,
           Answered(task'[id])
    PROVE  Sound(id)'
  BY DEF Sound, Agree, Runs, Waits, Gone, Source, Call

(* Steps of the environment and settings touch no transfer. *)
LEMMA OutsideOK ==
    ASSUME IInv,
           \/ \E to \in Limits : SetLimits(to)
           \/ Logout
           \/ \E owner \in Owners : SignIn(owner)
           \/ Reconnect
           \/ BeginShutdown
    PROVE  IInv'
  <1>1. /\ UNCHANGED <<store, active, task, supervisor, zips, history>>
        /\ limits' \in Limits
        /\ shutting_down' \in BOOLEAN
        /\ cancelled' \in SUBSET Jobs
        /\ account' \in Owners \cup {NoOwner}
        /\ client' \in {"Some", "None", "SigningOut"}
    <2>1. CASE \E to \in Limits : SetLimits(to)
      BY <2>1 DEF SetLimits, IInv, TypeOK, world
    <2>2. CASE Logout
      BY <2>2 DEF Logout, IInv, TypeOK, settings
    <2>3. CASE \E owner \in Owners : SignIn(owner)
      BY <2>3 DEF SignIn, IInv, TypeOK, settings
    <2>4. CASE Reconnect
      BY <2>4 DEF Reconnect, IInv, TypeOK, settings
    <2>5. CASE BeginShutdown
      BY <2>5 DEF BeginShutdown, IInv, TypeOK, world
    <2> QED BY <2>1, <2>2, <2>3, <2>4, <2>5
  <1>2. TypeOK'
    BY <1>1 DEF IInv, TypeOK, store, history
  <1>3. \A id \in Jobs : Sound(id)'
    BY <1>1, SoundFrame DEF IInv, store
  <1> QED BY <1>2, <1>3 DEF IInv

(* The updates of a task. *)
LEMMA TaskStale ==
    ASSUME NEW t \in Task, NEW to, to = [t EXCEPT !.guard = "Stale"]
    PROVE  to \in Task /\ to.pc = t.pc /\ to.answer = t.answer
  BY DEF Task

(* A task that moves on is still a task that has not answered. *)
LEMMA TaskMoves ==
    ASSUME NEW t \in Task, NEW pc \in {"Running", "Acked", "Unacked"}, NEW to,
           \/ to = [t EXCEPT !.pc = pc]
           \/ to = [t EXCEPT !.pc = pc, !.guard = "Valid"]
    PROVE  to \in Task /\ to.pc # "None" /\ Answered(to)
  <1>1. CASE to = [t EXCEPT !.pc = pc]
    BY <1>1 DEF Task, Answered
  <1>2. CASE to = [t EXCEPT !.pc = pc, !.guard = "Valid"]
    BY <1>2 DEF Task, Answered
  <1> QED BY <1>1, <1>2

(* A task that returns has an answer. *)
LEMMA TaskAnswers ==
    ASSUME NEW t \in Task, NEW answer \in Errors \cup {"Ok"}, NEW to,
           to = [t EXCEPT !.pc = "Returned", !.answer = answer]
    PROVE  to \in Task /\ to.pc # "None" /\ Answered(to)
  BY DEF Task, Answered

(* Signing out ends the guards only. *)
LEMMA SuspendOK ==
    ASSUME IInv, Suspend
    PROVE  IInv'
  <1>1. ASSUME NEW id \in Jobs
        PROVE  /\ task'[id] \in Task
               /\ task'[id].pc = task[id].pc
               /\ task'[id].answer = task[id].answer
    <2>1. task[id] \in Task
      BY DEF IInv, TypeOK
    <2>2. task'[id] = [task[id] EXCEPT !.guard = "Stale"]
      BY DEF Suspend
    <2> DEFINE t == task[id]
               to == task'[id]
    <2>3. t \in Task /\ to = [t EXCEPT !.guard = "Stale"]
      BY <2>1, <2>2
    <2> HIDE DEF t, to
    <2>4. to \in Task /\ to.pc = t.pc /\ to.answer = t.answer
      BY <2>3, TaskStale
    <2> QED BY <2>4 DEF t, to
  <1>2. task' \in [Jobs -> Task]
    BY <1>1 DEF Suspend
  <1>3. TypeOK'
    BY <1>1, <1>2 DEF IInv, TypeOK, Suspend, store, settings, history
  <1>4. ASSUME NEW id \in Jobs PROVE Sound(id)'
    <2>1. Sound(id) /\ UNCHANGED <<store, active, supervisor, zips>>
      BY DEF IInv, Suspend
    <2> QED BY <1>1, <2>1
        DEF Sound, Agree, Runs, Waits, Gone, Source, Call, Answered, store
  <1> QED BY <1>3, <1>4 DEF IInv

(* A step of an operation moves its task and leaves the queue alone. *)
LEMMA OperationOK ==
    ASSUME IInv, NEW id \in Jobs, NEW to \in Task, Operation(id, to),
           task[id].pc # "None", to.pc # "None", Answered(to),
           cancelled' \in SUBSET Jobs, published' \in [Jobs -> Nat],
           succeeded' \in SUBSET Jobs
    PROVE  IInv'
  <1>1. /\ task' \in [Jobs -> Task]
        /\ task'[id] = to
        /\ \A k \in Jobs : k # id => task'[k] = task[k]
    BY DEF IInv, TypeOK, Operation
  <1>2. \A k \in Jobs : k \in active' <=> task'[k].pc # "None"
    BY <1>1 DEF IInv, TypeOK, Operation
  <1>3. TypeOK'
    BY <1>1, <1>2 DEF IInv, TypeOK, Operation, store, settings, world
  <1>4. ASSUME NEW k \in Jobs PROVE Sound(k)'
    <2>1. Sound(k) /\ UNCHANGED <<store, active, supervisor, zips>>
      BY DEF IInv, Operation
    <2>2. Answered(task'[k])
      BY <1>1, <2>1 DEF Sound
    <2> QED BY <2>1, <2>2
        DEF Sound, Agree, Runs, Waits, Gone, Source, Call, Answered, store
  <1> QED BY <1>3, <1>4 DEF IInv

(* Every step of an operation. *)
LEMMA OperationsOK ==
    ASSUME IInv, NEW id \in Jobs,
           \/ ExecuteStart(id)
           \/ ObserveCancel(id)
           \/ \E outcome \in {"Acked", "Unacked"} : Publish(id, outcome)
           \/ SendAgain(id)
           \/ ReportPublished(id)
           \/ \E error \in Errors : OperationFails(id, error)
    PROVE  IInv'
  <1> DEFINE t == task[id]
  <1>t. /\ t \in Task /\ cancelled \in SUBSET Jobs
        /\ published \in [Jobs -> Nat]
        /\ succeeded \in SUBSET Jobs
    BY DEF IInv, TypeOK
  <1>e. "Cancelled" \in Errors /\ "Account" \in Errors
    BY DEF Errors
  <1>s. SUFFICES \E to \in Task : /\ Operation(id, to) /\ t.pc # "None"
                                 /\ to.pc # "None" /\ Answered(to)
                                 /\ cancelled' \in SUBSET Jobs
                                 /\ published' \in [Jobs -> Nat]
                                 /\ succeeded' \in SUBSET Jobs
    BY <1>s, OperationOK
  <1>1. CASE ExecuteStart(id)
    <2> DEFINE to == IF SignedInAs(t.owner)
                     THEN [t EXCEPT !.pc = "Running", !.guard = "Valid"]
                     ELSE [t EXCEPT !.pc = "Returned", !.answer = "Account"]
    <2>1. Operation(id, to) /\ t.pc # "None"
      BY <1>1 DEF ExecuteStart
    <2>2. UNCHANGED <<cancelled, published, succeeded>>
      BY <1>1 DEF ExecuteStart
    <2> HIDE DEF t
    <2>3. to \in Task /\ to.pc # "None" /\ Answered(to)
      BY <1>t, <1>e, TaskMoves, TaskAnswers
    <2> HIDE DEF to
    <2> QED BY <1>t, <2>1, <2>2, <2>3
  <1>2. CASE ObserveCancel(id)
    <2> DEFINE to == [t EXCEPT !.pc = "Returned", !.answer = "Cancelled"]
    <2>1. Operation(id, to) /\ t.pc # "None"
      BY <1>2 DEF ObserveCancel
    <2>2. cancelled' \in SUBSET Jobs /\ UNCHANGED <<published, succeeded>>
      BY <1>2, <1>t DEF ObserveCancel
    <2> HIDE DEF t
    <2>3. to \in Task /\ to.pc # "None" /\ Answered(to)
      BY <1>t, <1>e, TaskAnswers
    <2> HIDE DEF to
    <2> QED BY <1>t, <2>1, <2>2, <2>3
  <1>3. CASE \E outcome \in {"Acked", "Unacked"} : Publish(id, outcome)
    <2>0. PICK outcome \in {"Acked", "Unacked"} : Publish(id, outcome)
      BY <1>3
    <2> DEFINE to == [t EXCEPT !.pc = outcome]
    <2>1. Operation(id, to) /\ t.pc # "None"
      BY <2>0 DEF Publish
    <2>2. /\ published' \in [Jobs -> Nat]
          /\ UNCHANGED <<cancelled, succeeded>>
      BY <2>0, <1>t DEF Publish
    <2> HIDE DEF t
    <2>3. to \in Task /\ to.pc # "None" /\ Answered(to)
      BY <1>t, TaskMoves
    <2> HIDE DEF to
    <2> QED BY <1>t, <2>1, <2>2, <2>3
  <1>4. CASE SendAgain(id)
    <2> DEFINE to == [t EXCEPT !.pc = "Running"]
    <2>1. Operation(id, to) /\ t.pc # "None"
      BY <1>4 DEF SendAgain
    <2>2. UNCHANGED <<cancelled, published, succeeded>>
      BY <1>4 DEF SendAgain
    <2> HIDE DEF t
    <2>3. to \in Task /\ to.pc # "None" /\ Answered(to)
      BY <1>t, TaskMoves
    <2> HIDE DEF to
    <2> QED BY <1>t, <2>1, <2>2, <2>3
  <1>5. CASE ReportPublished(id)
    <2> DEFINE answer == IF t.guard = "Valid" THEN "Ok" ELSE "Account"
               to == [t EXCEPT !.pc = "Returned", !.answer = answer]
    <2>1. Operation(id, to) /\ t.pc # "None"
      BY <1>5 DEF ReportPublished
    <2>2. succeeded' \in SUBSET Jobs /\ UNCHANGED <<cancelled, published>>
      BY <1>5, <1>t DEF ReportPublished
    <2> HIDE DEF t
    <2>4. answer \in Errors \cup {"Ok"}
      BY <1>e
    <2> HIDE DEF answer
    <2>3. to \in Task /\ to.pc # "None" /\ Answered(to)
      BY <1>t, <2>4, TaskAnswers
    <2> HIDE DEF to
    <2> QED BY <1>t, <2>1, <2>2, <2>3
  <1>6. CASE \E error \in Errors : OperationFails(id, error)
    <2>0. PICK error \in Errors : OperationFails(id, error)
      BY <1>6
    <2> DEFINE to == [t EXCEPT !.pc = "Returned", !.answer = error]
    <2>1. Operation(id, to) /\ t.pc # "None"
      BY <2>0 DEF OperationFails
    <2>2. UNCHANGED <<cancelled, published, succeeded>>
      BY <2>0 DEF OperationFails
    <2> HIDE DEF t
    <2>3. to \in Task /\ to.pc # "None" /\ Answered(to)
      BY <1>t, TaskAnswers
    <2> HIDE DEF to
    <2> QED BY <1>t, <2>1, <2>2, <2>3
  <1> QED BY <1>1, <1>2, <1>3, <1>4, <1>5, <1>6

(* A step that leaves the parts of the other ids alone. *)
LEMMA OneId ==
    ASSUME IInv, TypeOK', NEW id \in Jobs, Sound(id)',
           \A k \in Jobs : k # id =>
              /\ jobs'[k] = jobs[k] /\ disk'[k] = disk[k]
              /\ pending_commits'[k] = pending_commits[k]
              /\ task'[k] = task[k] /\ supervisor'[k] = supervisor[k]
              /\ k \in active' <=> k \in active
              /\ k \in tombstones' <=> k \in tombstones
              /\ k \in zips' <=> k \in zips
    PROVE  IInv'
  <1>1. ASSUME NEW k \in Jobs PROVE Sound(k)'
    <2>1. CASE k = id
      BY <2>1
    <2>2. CASE k # id
      BY <2>2, SoundFrame DEF IInv
    <2> QED BY <2>1, <2>2
  <1> QED BY <1>1 DEF IInv

(* What the type invariant and Sound say of one id. *)
LEMMA FactsOK ==
    ASSUME IInv, NEW id \in Jobs
    PROVE  /\ jobs[id] \in Job \cup {NoJob}
           /\ disk[id] \in Job \cup {NoJob}
           /\ pending_commits[id] \in Job \cup {NoJob}
           /\ jobs[id] # NoJob => jobs[id] \in Job
           /\ disk[id] # NoJob => disk[id] \in Job
           /\ pending_commits[id] # NoJob => pending_commits[id] \in Job
           /\ Sound(id)
  BY DEF IInv, TypeOK

(* record_progress() *)
LEMMA RecordProgressOK ==
    ASSUME IInv, NEW id \in Jobs, RecordProgress(id)
    PROVE  IInv'
  <1> DEFINE m == jobs[id]
             d == disk[id]
             new == Bumped(m)
  <1>1. /\ m \in Job /\ m # NoJob /\ m.status = "Active" /\ id \in active
        /\ jobs' = [jobs EXCEPT ![id] = new]
        /\ \/ disk' = disk
           \/ disk' = [disk EXCEPT ![id] = Stored(d, new)]
        /\ UNCHANGED <<tombstones, pending_commits, active, settings, task,
                       cancelled, world, supervisor, zips, history>>
    BY FactsOK DEF RecordProgress, InMemory
  <1>2. Sound(id) /\ d \in Job /\ d.revision <= m.revision
    BY <1>1, FactsOK DEF Sound, Agree
  <1>3. /\ new \in Job /\ new.revision = m.revision + 1
        /\ new.status = m.status /\ new.owner = m.owner /\ m.revision \in Nat
    BY <1>1, BumpedOK
  <1>4. Stored(d, new) = new
    BY <1>2, <1>3, StoredOK DEF Job
  <1> HIDE DEF m, d, new
  <1>5. /\ jobs' \in [Jobs -> Job \cup {NoJob}]
        /\ disk' \in [Jobs -> Job \cup {NoJob}]
        /\ jobs'[id] = new /\ disk'[id] \in {d, new}
        /\ \A k \in Jobs : k # id => jobs'[k] = jobs[k] /\ disk'[k] = disk[k]
    BY <1>1, <1>3, <1>4 DEF IInv, TypeOK, d
  <1>6. TypeOK'
    BY <1>1, <1>5 DEF IInv, TypeOK, settings, world, history
  <1>7. pending_commits[id] = NoJob /\ id \notin tombstones
    BY <1>1, <1>2 DEF Sound, Waits, Gone, m
  <1>8. Sound(id)'
    <2>1. new # NoJob /\ d # NoJob /\ d.revision \in Nat
      BY <1>2, <1>3, NoJobAssumption DEF Job
    <2>2. Agree(id, new, disk'[id]) /\ Runs(id, new, disk'[id], id \in active)
      BY <1>1, <1>2, <1>3, <1>5, <2>1 DEF Sound, Agree, Runs, m, d
    <2>3. Source(new, disk'[id], id \in Zipped \ zips)
      BY <1>1, <1>2, <1>3, <1>5 DEF Sound, Source, m, d
    <2>4. Call(id, new, disk'[id], supervisor[id])
      BY <1>1, <1>2, <1>3, <1>5, <2>1 DEF Sound, Call, m, d, Supervising
    <2> QED BY <1>1, <1>2, <1>5, <1>7, <2>1, <2>2, <2>3, <2>4
        DEF Sound, Waits, Gone
  <1> QED BY <1>1, <1>5, <1>6, <1>8, OneId

(* What every end of an operation does. *)
LEMMA FinishOK ==
    ASSUME IInv, NEW id \in Jobs, Finish(id)
    PROVE  /\ id \in active
           /\ active' = active \ {id}
           /\ task' \in [Jobs -> Task]
           /\ task'[id] = NoTask
           /\ \A k \in Jobs : k # id => task'[k] = task[k]
           /\ \A k \in Jobs : k \in active' <=> task'[k].pc # "None"
           /\ Answered(task'[id])
  <1>1. task' = [task EXCEPT ![id] = NoTask] /\ active' = active \ {id}
        /\ task[id].pc = "Returned"
    BY DEF Finish
  <1>2. NoTask \in Task /\ NoTask.pc = "None"
    BY DEF NoTask, Task
  <1> HIDE DEF NoTask
  <1>3. task \in [Jobs -> Task] /\ \A k \in Jobs : k \in active <=> task[k].pc # "None"
    BY DEF IInv, TypeOK
  <1> QED BY <1>1, <1>2, <1>3 DEF Answered

(* finish(), the record gone. *)
LEMMA FinishRemovedOK ==
    ASSUME IInv, NEW id \in Jobs, FinishRemoved(id)
    PROVE  IInv'
  <1>1. /\ Finish(id) /\ jobs[id] = NoJob
        /\ UNCHANGED <<jobs, disk, pending_commits, zips>>
    BY DEF FinishRemoved, InMemory
  <1>2. UNCHANGED <<tombstones, settings, cancelled, world, supervisor, history>>
    BY <1>1 DEF Finish
  <1>3. TypeOK'
    BY <1>1, <1>2, FinishOK DEF IInv, TypeOK, settings, world, history
  <1>4. Sound(id)'
    BY <1>1, <1>2, FinishOK, FactsOK
    DEF Sound, Agree, Runs, Waits, Gone, Source, Call
  <1> QED BY <1>1, <1>2, <1>3, <1>4, FinishOK, OneId

(* finish(), the result saved. *)
LEMMA FinishSavedOK ==
    ASSUME IInv, NEW id \in Jobs, FinishSaved(id)
    PROVE  IInv'
  <1> DEFINE new == Result(id)
             f == [i \in {id} |-> new]
  <1>1. /\ Finish(id) /\ jobs[id] # NoJob /\ CommitJobs(f)
        /\ pending_commits' = [pending_commits EXCEPT ![id] = NoJob]
        /\ CleanUp(IF new.status = "Completed" THEN {id} ELSE {})
    BY DEF FinishSaved, InMemory
  <1>2. UNCHANGED <<tombstones, settings, cancelled, world, supervisor, history>>
        /\ task[id].pc = "Returned"
    BY <1>1 DEF Finish
  <1>3. /\ new \in Job /\ new.revision = jobs[id].revision + 1
        /\ new.owner = jobs[id].owner /\ new.status # "Active"
    BY <1>1, <1>2, ResultOK
  <1> HIDE DEF new
  <1>4. zips' \subseteq zips /\ \A k \in Jobs :
           k \in zips /\ k \notin zips' => k = id /\ new.status = "Completed"
    BY <1>1 DEF CleanUp
  <1>f. Sound(id) /\ id \in active /\ jobs[id] \in Job /\ disk[id] \in Job
    BY <1>1, FactsOK, FinishOK DEF Sound, Agree
  <1>5. disk[id].revision <= new.revision
    BY <1>1, <1>3, <1>f DEF Sound, Agree, Job
  <1>6. /\ DOMAIN f \subseteq Jobs
        /\ \A k \in DOMAIN f : /\ f[k] \in Job
                               /\ disk[k] # NoJob => disk[k].revision <= f[k].revision
        /\ \A k \in Jobs : k \in DOMAIN f <=> k = id
        /\ f[id] = new
    BY <1>3, <1>5
  <1> HIDE DEF f
  <1>7. /\ jobs' \in [Jobs -> Job \cup {NoJob}]
        /\ disk' \in [Jobs -> Job \cup {NoJob}]
        /\ jobs'[id] = new /\ disk'[id] = new /\ id \notin tombstones
        /\ \A k \in Jobs : k # id => jobs'[k] = jobs[k] /\ disk'[k] = disk[k]
    BY <1>1, <1>6, CommitOK DEF IInv
  <1>8. /\ pending_commits' \in [Jobs -> Job \cup {NoJob}]
        /\ pending_commits'[id] = NoJob
        /\ \A k \in Jobs : k # id => pending_commits'[k] = pending_commits[k]
    BY <1>1 DEF IInv, TypeOK
  <1>9. TypeOK'
    BY <1>1, <1>2, <1>4, <1>7, <1>8, FinishOK
    DEF IInv, TypeOK, settings, world, history
  <1>10. Sound(id)'
    <2>1. jobs[id].owner # NoOwner /\ (id \in Zipped => id \in zips)
      BY <1>1, <1>f DEF Sound, Runs, Source
    <2>2. id \notin active'
      BY <1>1, FinishOK
    <2>3. Waits(new, NoJob, id \in active')
      BY DEF Waits
    <2>4. /\ supervisor[id] # "Idle" => id \in Supervised
          /\ id \in Supervised => supervisor[id] \in Supervising
      BY <1>1, <1>f DEF Sound, Call
    <2> QED BY <1>1, <1>2, <1>3, <1>4, <1>7, <1>8, <2>1, <2>2, <2>3, <2>4,
               FinishOK, CommittedOK
  <1> QED BY <1>1, <1>2, <1>4, <1>7, <1>8, <1>9, <1>10, FinishOK, OneId

(* A one-record commit: what CommitOK says of it. *)
LEMMA CommitOneOK ==
    ASSUME TypeOK, NEW id \in Jobs, NEW job \in Job,
           CommitJobs([i \in {id} |-> job]),
           disk[id] # NoJob => disk[id].revision <= job.revision
    PROVE  /\ jobs' \in [Jobs -> Job \cup {NoJob}]
           /\ disk' \in [Jobs -> Job \cup {NoJob}]
           /\ jobs'[id] = job /\ disk'[id] = job /\ id \notin tombstones
           /\ \A k \in Jobs : k # id => jobs'[k] = jobs[k] /\ disk'[k] = disk[k]
  <1> DEFINE f == [i \in {id} |-> job]
  <1>1. /\ DOMAIN f \subseteq Jobs
        /\ \A k \in DOMAIN f : /\ f[k] \in Job
                               /\ disk[k] # NoJob => disk[k].revision <= f[k].revision
        /\ \A k \in Jobs : k \in DOMAIN f <=> k = id
        /\ f[id] = job
        /\ CommitJobs(f)
    OBVIOUS
  <1> HIDE DEF f
  <1> QED BY <1>1, CommitOK

(* finish(), the result not saved. *)
LEMMA FinishUnsavedOK ==
    ASSUME IInv, NEW id \in Jobs, FinishUnsaved(id)
    PROVE  IInv'
  <1> DEFINE res == Result(id)
             new == [res EXCEPT !.persistence = "Pending",
                                !.category = "Persistence"]
  <1>1. /\ Finish(id) /\ jobs[id] # NoJob
        /\ pending_commits' = [pending_commits EXCEPT ![id] = res]
        /\ jobs' = [jobs EXCEPT ![id] = new]
        /\ UNCHANGED <<disk, zips>>
    BY DEF FinishUnsaved, InMemory
  <1>2. UNCHANGED <<tombstones, settings, cancelled, world, supervisor, history>>
        /\ task[id].pc = "Returned"
    BY <1>1 DEF Finish
  <1>3. /\ res \in Job /\ res.revision = jobs[id].revision + 1
        /\ res.owner = jobs[id].owner /\ res.status # "Active"
    BY <1>1, <1>2, ResultOK
  <1> HIDE DEF res
  <1>4. /\ new \in Job /\ new.revision = res.revision /\ new.owner = res.owner
        /\ new.status = res.status /\ new.persistence = "Pending"
    BY <1>3 DEF Job, Category
  <1> HIDE DEF new
  <1>5. /\ Sound(id) /\ id \in active /\ id \notin active'
        /\ jobs[id] \in Job /\ disk[id] \in Job
    BY <1>1, FactsOK, FinishOK DEF Sound, Agree
  <1>6. /\ jobs' \in [Jobs -> Job \cup {NoJob}] /\ jobs'[id] = new
        /\ pending_commits' \in [Jobs -> Job \cup {NoJob}]
        /\ pending_commits'[id] = res
        /\ \A k \in Jobs : k # id => /\ jobs'[k] = jobs[k]
                                     /\ pending_commits'[k] = pending_commits[k]
    BY <1>1, <1>3, <1>4 DEF IInv, TypeOK
  <1>7. TypeOK'
    BY <1>1, <1>2, <1>6, FinishOK DEF IInv, TypeOK, settings, world, history
  <1>8. Sound(id)'
    <2>1. /\ jobs[id].owner # NoOwner /\ id \notin tombstones
          /\ id \in Zipped => id \in zips
      BY <1>1, <1>5 DEF Sound, Runs, Source, Gone
    <2>2. /\ jobs[id].revision \in Nat /\ disk[id].revision \in Nat
          /\ disk[id].revision <= jobs[id].revision
          /\ disk[id].status # "Completed"
      BY <1>1, <1>5 DEF Sound, Agree, Runs, Job
    <2>3. new # NoJob /\ res # NoJob /\ disk[id] # NoJob
      BY <1>3, <1>4, <1>5, NoJobAssumption
    <2>4. Agree(id, jobs[id], disk[id])'
      BY <1>1, <1>3, <1>4, <1>6, <2>2, <2>3 DEF Agree
    <2>5. Runs(id, jobs[id], disk[id], id \in active)'
      BY <1>3, <1>4, <1>5, <1>6, <2>1 DEF Runs
    <2>6. Waits(jobs[id], pending_commits[id], id \in active)'
      BY <1>3, <1>4, <1>5, <1>6, <2>1, <2>3 DEF Waits
    <2>7. Call(id, jobs[id], disk[id], supervisor[id])'
      BY <1>1, <1>2, <1>5, <1>6, <2>3 DEF Sound, Call, Supervising
    <2> QED BY <1>1, <1>2, <2>1, <1>5, <2>4, <2>5, <2>6, <2>7, FinishOK
        DEF Sound, Gone, Source
  <1> QED BY <1>1, <1>2, <1>6, <1>7, <1>8, FinishOK, OneId

(* transition() *)
LEMMA TransitionOK ==
    ASSUME IInv, NEW id \in Jobs,
           NEW command \in {"Pause", "Cancel", "Resume", "Retry"},
           Transition(id, command)
    PROVE  IInv'
  <1> DEFINE new == Commanded(jobs[id], command)
  <1>1. /\ jobs[id] # NoJob /\ pending_commits[id] = NoJob
        /\ jobs[id].owner # NoOwner
        /\ Applies(command, jobs[id].status)
        /\ CommitJobs([i \in {id} |-> new])
        /\ UNCHANGED <<tombstones, pending_commits, active, settings, task,
                       world, supervisor, zips, published>>
    BY DEF Transition, InMemory, Unsaved, SignedInAs
  <1>2. /\ cancelled' \in SUBSET Jobs /\ wanted' \in SUBSET Jobs
        /\ succeeded' \in SUBSET Jobs
    <2>1. cancelled' \in SUBSET Jobs
      BY DEF Transition, IInv, TypeOK
    <2>2. CASE command \in {"Resume", "Retry"}
      BY <2>1, <2>2 DEF Transition, IInv, TypeOK
    <2>3. CASE command \notin {"Resume", "Retry"}
      BY <2>1, <2>3 DEF Transition, IInv, TypeOK
    <2> QED BY <2>2, <2>3
  <1>3. Sound(id) /\ jobs[id] \in Job /\ disk[id] \in Job
    BY <1>1, FactsOK DEF Sound, Agree
  <1>4. jobs[id].status # "Completed"
    BY <1>1 DEF Applies, Terminal
  <1>5. /\ new \in Job /\ new.revision = jobs[id].revision + 1
        /\ new.owner = jobs[id].owner
        /\ new.status \in {"Paused", "Cancelled", "Pending"}
    BY <1>3, CommandedOK
  <1> HIDE DEF new
  <1>6. disk[id].revision <= new.revision
    BY <1>1, <1>3, <1>5 DEF Sound, Agree, Job
  <1>7. /\ jobs' \in [Jobs -> Job \cup {NoJob}]
        /\ disk' \in [Jobs -> Job \cup {NoJob}]
        /\ jobs'[id] = new /\ disk'[id] = new /\ id \notin tombstones
        /\ \A k \in Jobs : k # id => jobs'[k] = jobs[k] /\ disk'[k] = disk[k]
    BY <1>1, <1>5, <1>6, CommitOneOK DEF IInv
  <1>8. TypeOK'
    BY <1>1, <1>2, <1>7 DEF IInv, TypeOK, settings, world
  <1>9. Sound(id)'
    <2>1. id \in Zipped => id \in zips
      BY <1>1, <1>3, <1>4 DEF Sound, Source
    <2>2. /\ supervisor[id] # "Idle" => id \in Supervised
          /\ id \in Supervised => supervisor[id] \in Supervising
          /\ Answered(task[id])
      BY <1>1, <1>3 DEF Sound, Call
    <2>3. Waits(new, pending_commits'[id], id \in active')
      BY <1>1 DEF Waits
    <2> QED BY <1>1, <1>5, <1>7, <2>1, <2>2, <2>3, CommittedOK
  <1> QED BY <1>1, <1>7, <1>8, <1>9, OneId

(* A command on a record whose result is unsaved. *)
LEMMA TransitionSavesResultOK ==
    ASSUME IInv, NEW id \in Jobs, TransitionSavesResult(id)
    PROVE  IInv'
  <1> DEFINE p == pending_commits[id]
             r == jobs[id].revision + 1
             new == [p EXCEPT !.revision = r, !.persistence = "Saved"]
  <1>1. /\ jobs[id] # NoJob /\ p # NoJob
        /\ CommitJobs([i \in {id} |-> new])
        /\ pending_commits' = [pending_commits EXCEPT ![id] = NoJob]
        /\ UNCHANGED <<tombstones, active, settings, task, cancelled, world,
                       supervisor, zips, history>>
    BY DEF TransitionSavesResult, InMemory, Unsaved
  <1>2. Sound(id) /\ jobs[id] \in Job /\ disk[id] \in Job /\ p \in Job
    BY <1>1, FactsOK DEF Sound, Agree
  <1>3. /\ id \notin active /\ jobs[id].status = p.status
        /\ jobs[id].owner = p.owner /\ p.owner # NoOwner
        /\ jobs[id].status # "Active"
    BY <1>1, <1>2 DEF Sound, Waits, Runs
  <1>4. r \in Nat /\ disk[id].revision <= r
    BY <1>1, <1>2 DEF Sound, Agree, Job
  <1> HIDE DEF p, r
  <1>5. /\ new \in Job /\ new.revision = r /\ new.owner = p.owner
        /\ new.status = p.status
    BY <1>2, <1>4 DEF Job
  <1> HIDE DEF new
  <1>7. /\ jobs' \in [Jobs -> Job \cup {NoJob}]
        /\ disk' \in [Jobs -> Job \cup {NoJob}]
        /\ jobs'[id] = new /\ disk'[id] = new /\ id \notin tombstones
        /\ \A k \in Jobs : k # id => jobs'[k] = jobs[k] /\ disk'[k] = disk[k]
    BY <1>1, <1>4, <1>5, CommitOneOK DEF IInv
  <1>6. /\ pending_commits' \in [Jobs -> Job \cup {NoJob}]
        /\ pending_commits'[id] = NoJob
        /\ \A k \in Jobs : k # id => pending_commits'[k] = pending_commits[k]
    BY <1>1 DEF IInv, TypeOK
  <1>8. TypeOK'
    BY <1>1, <1>6, <1>7 DEF IInv, TypeOK, settings, world, history
  <1>9. Sound(id)'
    <2>1. id \in Zipped \ zips => jobs[id].status = "Completed"
      BY <1>1, <1>2 DEF Sound, Source
    <2>2. /\ supervisor[id] # "Idle" => id \in Supervised
          /\ id \in Supervised => supervisor[id] \in Supervising
          /\ Answered(task[id])
      BY <1>1, <1>2 DEF Sound, Call
    <2>3. Waits(new, pending_commits'[id], id \in active')
      BY <1>6 DEF Waits
    <2> QED BY <1>1, <1>3, <1>5, <1>7, <2>1, <2>2, <2>3, CommittedOK
  <1> QED BY <1>1, <1>6, <1>7, <1>8, <1>9, OneId

(* Removing user transfers whose result is saved or that have none. *)
LEMMA DeleteOK ==
    ASSUME IInv, NEW ids \in SUBSET Jobs,
           \A id \in ids : jobs[id] # NoJob /\ pending_commits[id] = NoJob,
           DeleteMany(ids), jobs' = Without(jobs, ids),
           UNCHANGED <<pending_commits, active, settings, task, cancelled,
                       world, supervisor, zips, history>>
    PROVE  IInv'
  <1>1. /\ jobs' \in [Jobs -> Job \cup {NoJob}]
        /\ disk' \in [Jobs -> Job \cup {NoJob}]
        /\ tombstones' = tombstones \cup ids
        /\ \A id \in Jobs :
              /\ id \in ids => jobs'[id] = NoJob /\ disk'[id] = NoJob
              /\ id \notin ids => jobs'[id] = jobs[id] /\ disk'[id] = disk[id]
    BY DEF IInv, TypeOK, DeleteMany, Without
  <1>2. TypeOK'
    BY <1>1 DEF IInv, TypeOK, settings, world, history
  <1>3. ASSUME NEW id \in Jobs PROVE Sound(id)'
    <2>1. CASE id \in ids
      <3>1. Sound(id)
        BY DEF IInv
      <3>2. Answered(task'[id]) /\ (supervisor'[id] # "Idle" => id \in Supervised)
        BY <3>1 DEF Sound, Call
      <3> QED BY <1>1, <2>1, <3>2, RemovedOK
    <2>2. CASE id \notin ids
      BY <1>1, <2>2, SoundFrame DEF IInv
    <2> QED BY <2>1, <2>2
  <1> QED BY <1>2, <1>3 DEF IInv

(* clear_terminal() and cmd_transfer_discard_legacy() *)
LEMMA ClearOK ==
    ASSUME IInv,
           \/ \E direction, statuses : ClearTerminal(direction, statuses)
           \/ \E ids \in SUBSET InMemory : DiscardLegacy(ids)
    PROVE  IInv'
  <1>1. CASE \E direction, statuses : ClearTerminal(direction, statuses)
    <2>1. PICK direction, statuses : ClearTerminal(direction, statuses)
      BY <1>1
    <2> DEFINE ids == Clearable(direction, statuses)
    <2>2. /\ ids \in SUBSET Jobs
          /\ \A id \in ids : jobs[id] # NoJob /\ jobs[id].persistence = "Saved"
      BY DEF Clearable, InMemory
    <2>3. \A id \in ids : jobs[id] # NoJob /\ pending_commits[id] = NoJob
      BY <2>2 DEF IInv, Sound, Waits
    <2>4. /\ DeleteMany(ids) /\ jobs' = Without(jobs, ids)
          /\ UNCHANGED <<pending_commits, active, settings, task, cancelled,
                         world, supervisor, zips, history>>
      BY <2>1 DEF ClearTerminal
    <2> HIDE DEF ids
    <2> QED BY <2>2, <2>3, <2>4, DeleteOK
  <1>2. CASE \E ids \in SUBSET InMemory : DiscardLegacy(ids)
    <2>1. PICK ids \in SUBSET InMemory : DiscardLegacy(ids)
      BY <1>2
    <2>2. ids \in SUBSET Jobs /\ \A id \in ids : jobs[id] # NoJob
      BY DEF InMemory
    <2>3. \A id \in ids : jobs[id].owner = NoOwner
      BY <2>1 DEF DiscardLegacy
    <2>4. \A id \in ids : jobs[id] # NoJob /\ pending_commits[id] = NoJob
      BY <2>2, <2>3 DEF IInv, Sound, Waits
    <2>5. /\ DeleteMany(ids) /\ jobs' = Without(jobs, ids)
          /\ UNCHANGED <<pending_commits, active, settings, task, cancelled,
                         world, supervisor, zips, history>>
      BY <2>1 DEF DiscardLegacy
    <2> QED BY <2>2, <2>4, <2>5, DeleteOK
  <1> QED BY <1>1, <1>2

(* cmd_transfer_adopt_legacy() *)
LEMMA AdoptLegacyOK ==
    ASSUME IInv, NEW ids \in SUBSET InMemory, AdoptLegacy(ids)
    PROVE  IInv'
  <1> DEFINE f == [id \in ids |-> Adopted(jobs[id])]
  <1>1. /\ account \in Owners
        /\ \A id \in ids : jobs[id].owner = NoOwner
        /\ CommitJobs(f)
        /\ UNCHANGED <<tombstones, pending_commits, active, settings, task,
                       cancelled, world, supervisor, zips, history>>
    BY DEF AdoptLegacy, IInv, TypeOK
  <1>2. ASSUME NEW id \in ids
        PROVE  /\ id \in Jobs /\ jobs[id] \in Job /\ jobs[id] # NoJob
               /\ disk[id] \in Job /\ Sound(id)
               /\ f[id] \in Job /\ f[id].owner # NoOwner
               /\ f[id].status = IF jobs[id].status = "Completed"
                                 THEN "Completed" ELSE "Paused"
               /\ disk[id].revision <= f[id].revision
    <2>1. id \in Jobs /\ jobs[id] # NoJob
      BY DEF InMemory
    <2>2. jobs[id] \in Job /\ disk[id] \in Job /\ Sound(id)
      BY <2>1, FactsOK DEF Sound, Agree
    <2>3. f[id] = Adopted(jobs[id])
      OBVIOUS
    <2>4. /\ f[id] \in Job /\ f[id].owner = account
          /\ f[id].revision = jobs[id].revision + 1
          /\ f[id].status = IF jobs[id].status = "Completed"
                            THEN "Completed" ELSE "Paused"
      BY <1>1, <2>2, <2>3, AdoptedOK
    <2> HIDE DEF f
    <2>5. disk[id].revision <= f[id].revision
      BY <2>1, <2>2, <2>4 DEF Sound, Agree, Job
    <2> QED BY <1>1, <2>1, <2>2, <2>4, <2>5, TransferAssumption
        DEF TransferAssumption
  <1>3. DOMAIN f = ids
    OBVIOUS
  <1> HIDE DEF f
  <1>4. /\ jobs' \in [Jobs -> Job \cup {NoJob}]
        /\ disk' \in [Jobs -> Job \cup {NoJob}]
        /\ \A id \in Jobs :
              /\ id \in ids => jobs'[id] = f[id] /\ disk'[id] = f[id]
              /\ id \notin ids => jobs'[id] = jobs[id] /\ disk'[id] = disk[id]
              /\ id \in ids => id \notin tombstones
    <2>1. /\ DOMAIN f \subseteq Jobs
          /\ \A id \in DOMAIN f :
                /\ f[id] \in Job
                /\ disk[id] # NoJob => disk[id].revision <= f[id].revision
      BY <1>2, <1>3
    <2> QED BY <1>1, <1>3, <2>1, CommitOK DEF IInv
  <1>5. TypeOK'
    BY <1>1, <1>4 DEF IInv, TypeOK, settings, world, history
  <1>6. ASSUME NEW id \in Jobs PROVE Sound(id)'
    <2>1. CASE id \in ids
      <3>1. /\ id \notin active /\ pending_commits[id] = NoJob
            /\ id \in Zipped \ zips => jobs[id].status = "Completed"
        BY <1>1, <1>2, <2>1 DEF Sound, Runs, Waits, Source
      <3>2. /\ supervisor[id] # "Idle" => id \in Supervised
            /\ id \in Supervised => supervisor[id] \in Supervising
            /\ Answered(task[id])
        BY <1>2, <2>1 DEF Sound, Call
      <3>3. Waits(f[id], pending_commits'[id], id \in active')
        BY <1>1, <3>1 DEF Waits
      <3> QED BY <1>1, <1>2, <1>4, <2>1, <3>1, <3>2, <3>3, CommittedOK
    <2>2. CASE id \notin ids
      BY <1>1, <1>4, <2>2, SoundFrame DEF IInv
    <2> QED BY <2>1, <2>2
  <1> QED BY <1>5, <1>6 DEF IInv

(* The end of a supervised call: wait_settled() and withdraw(). *)
LEMMA SupervisorOK ==
    ASSUME IInv, NEW id \in Jobs,
           \/ \E verdict \in {"Ok", "Err"} : Decide(id, verdict)
           \/ Withdraw(id)
           \/ WithdrawReturns(id)
    PROVE  IInv'
  <1> USE DEF Supervising
  <1>0. Sound(id) /\ supervisor \in [Jobs -> Supervising \cup {"Idle", "Settling", "Done"}]
    BY DEF IInv, TypeOK
  <1>1. CASE \E verdict \in {"Ok", "Err"} : Decide(id, verdict)
    <2>1. PICK verdict \in {"Ok", "Err"} : Decide(id, verdict)
      BY <1>1
    <2>2. /\ supervisor[id] = "Waiting"
          /\ supervisor' = [supervisor EXCEPT ![id] = verdict]
          /\ UNCHANGED <<store, active, settings, task, cancelled, world, zips,
                         history>>
      BY <2>1 DEF Decide
    <2>3. TypeOK'
      BY <1>0, <2>2 DEF IInv, TypeOK, store, settings, world, history
    <2>4. Sound(id)'
      BY <1>0, <2>2 DEF Sound, Agree, Runs, Waits, Gone, Source, Call, Answered, store
    <2> QED BY <1>0, <2>2, <2>3, <2>4, OneId DEF store
  <1>2. CASE Withdraw(id)
    <2>1. /\ supervisor[id] \in {"Ok", "Err"}
          /\ jobs' = Without(jobs, {id})
          /\ \/ DeleteMany({id})
             \/ UNCHANGED <<tombstones, disk>>
          /\ pending_commits' = [pending_commits EXCEPT ![id] = NoJob]
          /\ cancelled' \in SUBSET Jobs
          /\ \/ supervisor' = [supervisor EXCEPT ![id] = "Settling"]
             \/ supervisor' = [supervisor EXCEPT ![id] = "Done"]
          /\ UNCHANGED <<active, settings, task, world, zips, history>>
      BY <1>2 DEF Withdraw, IInv, TypeOK
    <2>2. id \in Supervised /\ id \notin Zipped
      BY <1>0, <2>1, TransferAssumption DEF Sound, Call, TransferAssumption
    <2>3. /\ jobs' \in [Jobs -> Job \cup {NoJob}] /\ jobs'[id] = NoJob
          /\ pending_commits' \in [Jobs -> Job \cup {NoJob}]
          /\ pending_commits'[id] = NoJob
          /\ \A k \in Jobs : k # id => /\ jobs'[k] = jobs[k]
                                       /\ pending_commits'[k] = pending_commits[k]
      BY <2>1 DEF IInv, TypeOK, Without
    <2>4. /\ disk' \in [Jobs -> Job \cup {NoJob}]
          /\ tombstones' \in SUBSET Jobs
          /\ \/ disk'[id] = NoJob
             \/ disk'[id] = disk[id] /\ tombstones' = tombstones
          /\ \A k \in Jobs : k # id => /\ disk'[k] = disk[k]
                                       /\ k \in tombstones' <=> k \in tombstones
      BY <2>1 DEF IInv, TypeOK, DeleteMany, Without
    <2>5. /\ supervisor' \in [Jobs -> Supervising \cup {"Idle", "Settling", "Done"}]
          /\ supervisor'[id] \in {"Settling", "Done"}
          /\ \A k \in Jobs : k # id => supervisor'[k] = supervisor[k]
      BY <1>0, <2>1
    <2>6. TypeOK'
      BY <2>1, <2>3, <2>4, <2>5 DEF IInv, TypeOK, settings, world, history
    <2>7. Sound(id)'
      <3>1. id \in tombstones' => disk'[id] = NoJob
        BY <1>0, <2>4 DEF Sound, Gone
      <3> QED BY <1>0, <2>1, <2>2, <2>3, <2>5, <3>1
          DEF Sound, Agree, Runs, Waits, Gone, Source, Call, Answered
    <2> QED BY <2>1, <2>3, <2>4, <2>5, <2>6, <2>7, OneId
  <1>3. CASE WithdrawReturns(id)
    <2>1. /\ supervisor[id] = "Settling"
          /\ supervisor' = [supervisor EXCEPT ![id] = "Done"]
          /\ cancelled' = cancelled \ {id}
          /\ UNCHANGED <<store, active, settings, task, world, zips, history>>
      BY <1>3 DEF WithdrawReturns
    <2>2. TypeOK'
      BY <1>0, <2>1 DEF IInv, TypeOK, store, settings, world, history
    <2>3. Sound(id)'
      BY <1>0, <2>1 DEF Sound, Agree, Runs, Waits, Gone, Source, Call, Answered, store
    <2> QED BY <1>0, <2>1, <2>2, <2>3, OneId DEF store
  <1> QED BY <1>1, <1>2, <1>3

(* TransferStore::open() *)
LEMMA RestartOK ==
    ASSUME IInv, NEW left, Restart(left)
    PROVE  IInv'
  <1>1. ASSUME NEW id \in Jobs
        PROVE  /\ Recovered(id) \in Job \cup {NoJob}
               /\ Recovered(id) # NoJob => disk[id] # NoJob /\ id \notin Supervised
               /\ Recovered(id) # NoJob =>
                     /\ Recovered(id) \in Job
                     /\ Recovered(id).status # "Active"
                     /\ disk[id].status = "Completed" =>
                           Recovered(id).status = "Completed"
                     /\ Recovered(id).owner = NoOwner =>
                           Recovered(id).status \in Terminal \cup {"Paused"}
    <2>1. CASE disk[id] = NoJob \/ id \in Supervised
      BY <2>1 DEF Recovered
    <2>2. CASE disk[id] # NoJob /\ id \notin Supervised
      <3>1. disk[id] \in Job
        BY <2>2, FactsOK
      <3>2. Recovered(id) = RecoverAfterRestart(disk[id])
        BY <2>2 DEF Recovered
      <3> QED BY <2>2, <3>1, <3>2, RecoveredOK
    <2> QED BY <2>1, <2>2
  <1>2. NoTask \in Task /\ NoTask.pc = "None" /\ Answered(NoTask)
    BY DEF NoTask, Task, Answered
  <1> HIDE DEF NoTask
  <1>3. \A id \in Jobs :
           /\ jobs'[id] = Recovered(id) /\ disk'[id] = Recovered(id)
           /\ pending_commits'[id] = NoJob /\ task'[id] = NoTask
           /\ supervisor'[id] = IF supervisor[id] = "Idle" THEN "Idle" ELSE "Done"
           /\ id \notin active'
    BY DEF Restart
  <1>4. /\ jobs' \in [Jobs -> Job \cup {NoJob}]
        /\ disk' \in [Jobs -> Job \cup {NoJob}]
        /\ pending_commits' \in [Jobs -> Job \cup {NoJob}]
        /\ task' \in [Jobs -> Task]
        /\ supervisor' \in [Jobs -> Supervising \cup {"Idle", "Settling", "Done"}]
    <2>1. jobs' \in [Jobs -> Job \cup {NoJob}] /\ disk' \in [Jobs -> Job \cup {NoJob}]
      BY <1>1 DEF Restart
    <2>2. pending_commits' \in [Jobs -> Job \cup {NoJob}] /\ task' \in [Jobs -> Task]
      BY <1>2 DEF Restart
    <2>3. supervisor' \in [Jobs -> Supervising \cup {"Idle", "Settling", "Done"}]
      BY DEF Restart
    <2> QED BY <2>1, <2>2, <2>3
  <1>5. TypeOK'
    BY <1>2, <1>3, <1>4 DEF Restart, IInv, TypeOK
  <1>6. ASSUME NEW id \in Jobs PROVE Sound(id)'
    <2>0. Sound(id) /\ zips' = zips /\ tombstones' \subseteq tombstones
      BY DEF IInv, Restart
    <2>1. CASE Recovered(id) = NoJob
      <3>1. supervisor'[id] # "Idle" => id \in Supervised
        BY <1>3, <2>0 DEF Sound, Call
      <3> QED BY <1>2, <1>3, <2>1, <3>1, RemovedOK
    <2>2. CASE Recovered(id) # NoJob
      <3>1. /\ id \notin Supervised /\ Recovered(id) \in Job
            /\ id \notin tombstones'
            /\ id \in Zipped \ zips' => Recovered(id).status = "Completed"
        BY <1>1, <2>0, <2>2 DEF Sound, Gone, Source
      <3>2. supervisor'[id] = "Idle"
        BY <1>3, <2>0, <3>1 DEF Sound, Call
      <3>3. Waits(Recovered(id), pending_commits'[id], id \in active')
        BY <1>3 DEF Waits
      <3> QED BY <1>1, <1>2, <1>3, <2>2, <3>1, <3>2, <3>3, CommittedOK
    <2> QED BY <2>1, <2>2
  <1> QED BY <1>5, <1>6 DEF IInv

(* enqueue_many(), for the callers that keep the supervisors in step. *)
LEMMA EnqueueOK ==
    ASSUME IInv, NEW batch, NEW last, Enqueue(batch, last),
           IsFiniteSet(DOMAIN batch), BatchIds(batch) \subseteq Jobs,
           (BatchIds(batch) \cap Zipped) \ InMemory \subseteq zips,
           supervisor' \in [Jobs -> Supervising \cup {"Idle", "Settling", "Done"}],
           \A id \in Jobs \ BatchIds(batch) : supervisor'[id] = supervisor[id],
           \A id \in BatchIds(batch) :
              /\ supervisor'[id] # "Idle" => id \in Supervised
              /\ id \in Supervised => supervisor'[id] \in Supervising
              /\ id \in Supervised => supervisor[id] = "Idle"
    PROVE  IInv'
  <1> DEFINE ids == BatchIds(batch)
             f == Batched(batch, last)
  <1>1. /\ CommitJobs(f) /\ last \in {0} \cup {jobs[id].position : id \in InMemory}
        /\ UNCHANGED <<tombstones, pending_commits, active, settings, task,
                       cancelled, world, zips, history>>
    BY DEF Enqueue, IsLastPosition
  <1>2. last \in Nat
    <2>1. CASE last = 0
      BY <2>1
    <2>2. CASE \E id \in InMemory : last = jobs[id].position
      BY <2>2 DEF IInv, TypeOK, InMemory, Job
    <2> QED BY <1>1, <2>1, <2>2
  <1>3. ASSUME NEW id \in ids
        PROVE  QueuePosition(batch, last, id) \in Nat
    <2> DEFINE before == {j \in DOMAIN batch :
                             /\ jobs[batch[j]] = NoJob
                             /\ \E i \in DOMAIN batch : batch[i] = id /\ j <= i}
    <2>1. before \subseteq DOMAIN batch
      OBVIOUS
    <2>2. QueuePosition(batch, last, id) = last + Cardinality(before)
      BY DEF QueuePosition
    <2> HIDE DEF before
    <2>3. Cardinality(before) \in Nat
      BY <2>1, FS_Subset, FS_CardinalityType
    <2> QED BY <1>2, <2>2, <2>3
  <1>4. DOMAIN f = ids
    BY DEF Batched
  <1>5. ASSUME NEW id \in ids, jobs[id] # NoJob
        PROVE  /\ f[id] = jobs[id] /\ f[id] \in Job /\ disk[id] \in Job
               /\ disk[id].revision <= f[id].revision
    <2>1. f[id] = jobs[id]
      BY <1>5 DEF Batched, InMemory
    <2> HIDE DEF f
    <2> QED BY <1>5, <2>1, FactsOK DEF Sound, Agree
  <1>6. ASSUME NEW id \in ids, jobs[id] = NoJob
        PROVE  /\ f[id] \in Job
               /\ f[id].status \notin {"Active", "Completed"}
               /\ f[id].owner = NoOwner => RequestOwner[id] = NoOwner
               /\ f[id].owner = NoOwner =>
                     f[id].status \in Terminal \cup {"Paused"}
               /\ disk[id] = NoJob
    <2>1. f[id] = NewJob(id, QueuePosition(batch, last, id))
      BY <1>6 DEF Batched, InMemory
    <2> HIDE DEF f
    <2>2. disk[id] = NoJob
      BY <1>6, FactsOK DEF Sound, Agree, Call
    <2> QED BY <1>3, <2>1, <2>2, NewJobOK
  <1>7. \A id \in DOMAIN f :
           /\ f[id] \in Job
           /\ disk[id] # NoJob => disk[id].revision <= f[id].revision
    BY <1>4, <1>5, <1>6
  <1> HIDE DEF f
  <1>8. /\ jobs' \in [Jobs -> Job \cup {NoJob}]
        /\ disk' \in [Jobs -> Job \cup {NoJob}]
        /\ \A id \in Jobs :
              /\ id \in ids => jobs'[id] = f[id] /\ disk'[id] = f[id]
              /\ id \notin ids => jobs'[id] = jobs[id] /\ disk'[id] = disk[id]
              /\ id \in ids => id \notin tombstones
    BY <1>1, <1>4, <1>7, CommitOK DEF IInv
  <1>9. TypeOK'
    BY <1>1, <1>8 DEF IInv, TypeOK, settings, world, history
  <1>10. ASSUME NEW id \in Jobs PROVE Sound(id)'
    <2>0. Sound(id)
      BY DEF IInv
    <2>1. CASE id \in ids /\ jobs[id] # NoJob
      <3>1. /\ Waits(f[id], pending_commits'[id], id \in active')
            /\ f[id].status = "Active" => id \in active'
            /\ f[id].owner = NoOwner => id \notin active'
                  /\ f[id].status \in Terminal \cup {"Paused"}
            /\ id \in active' => f[id].status # "Completed"
            /\ id \in Zipped \ zips' => f[id].status = "Completed"
            /\ Answered(task'[id])
        BY <1>1, <1>5, <2>0, <2>1 DEF Sound, Waits, Runs, Source
      <3> QED BY <1>1, <1>5, <1>8, <2>1, <3>1, CommittedOK
    <2>2. CASE id \in ids /\ jobs[id] = NoJob
      <3>1. pending_commits'[id] = NoJob /\ Answered(task'[id])
        BY <1>1, <2>0, <2>2 DEF Sound, Waits
      <3>2. Waits(f[id], pending_commits'[id], id \in active')
        BY <3>1 DEF Waits
      <3>3. f[id].owner = NoOwner => id \notin active'
        BY <1>1, <1>6, <1>8, <2>0, <2>2, TransferAssumption
        DEF Sound, Gone, TransferAssumption
      <3>4. id \in Zipped => id \in zips'
        BY <1>1, <2>2 DEF InMemory
      <3> QED BY <1>1, <1>6, <1>8, <2>2, <3>1, <3>2, <3>3, <3>4, CommittedOK
    <2>3. CASE id \notin ids
      BY <1>1, <1>8, <2>0, <2>3, SoundFrame
    <2> QED BY <2>1, <2>2, <2>3
  <1> QED BY <1>9, <1>10 DEF IInv

(* cmd_transfer_enqueue_many() *)
LEMMA EnqueueManyOK ==
    ASSUME IInv, NEW batch \in Batches, NEW last, EnqueueMany(batch, last)
    PROVE  IInv'
  <1>1. PICK n \in 1..MaxBatch : batch \in [1..n -> Jobs]
    BY DEF Batches
  <1>2. n \in Int
    BY <1>1, TransferAssumption DEF TransferAssumption
  <1>3. IsFiniteSet(DOMAIN batch) /\ BatchIds(batch) \subseteq Jobs
    BY <1>1, <1>2, FS_Interval DEF BatchIds
  <1>4. /\ BatchIds(batch) \cap Supervised = {}
        /\ (BatchIds(batch) \cap Zipped) \ InMemory \subseteq zips
        /\ Enqueue(batch, last) /\ supervisor' = supervisor
    BY DEF EnqueueMany
  <1>5. /\ supervisor \in [Jobs -> Supervising \cup {"Idle", "Settling", "Done"}]
        /\ \A id \in Jobs : supervisor[id] # "Idle" => id \in Supervised
    BY DEF IInv, TypeOK, Sound, Call
  <1> QED BY <1>3, <1>4, <1>5, EnqueueOK

(* run_supervised() *)
LEMMA RunSupervisedOK ==
    ASSUME IInv, NEW id \in Jobs, NEW last, RunSupervised(id, last)
    PROVE  IInv'
  <1> DEFINE batch == [i \in {1} |-> id]
  <1>1. /\ id \in Supervised /\ supervisor[id] = "Idle"
        /\ Enqueue(batch, last)
        /\ supervisor' = [supervisor EXCEPT ![id] = "Waiting"]
    BY DEF RunSupervised
  <1>2. /\ DOMAIN batch = {1} /\ BatchIds(batch) = {id}
    BY DEF BatchIds
  <1> HIDE DEF batch
  <1>3. IsFiniteSet(DOMAIN batch)
    BY <1>2, FS_Singleton
  <1>4. id \notin Zipped
    BY <1>1, TransferAssumption DEF TransferAssumption
  <1>5. /\ supervisor' \in [Jobs -> Supervising \cup {"Idle", "Settling", "Done"}]
        /\ supervisor'[id] = "Waiting"
        /\ \A k \in Jobs : k # id => supervisor'[k] = supervisor[k]
    BY <1>1 DEF IInv, TypeOK, Supervising
  <1> QED BY <1>1, <1>2, <1>3, <1>4, <1>5, EnqueueOK DEF Supervising

(* The first half of schedule_once(): an unsaved result that is now saved. *)
LEMMA RetriedOK ==
    ASSUME IInv, NEW saved \in SUBSET Unsaved, NEW id \in saved
    PROVE  /\ id \in Jobs /\ Sound(id)
           /\ jobs[id] # NoJob /\ jobs[id] \in Job /\ disk[id] \in Job
           /\ id \notin active /\ id \notin tombstones
           /\ Retried(saved)[id] \in Job
           /\ disk[id].revision < Retried(saved)[id].revision
           /\ Retried(saved)[id].owner = jobs[id].owner
           /\ jobs[id].owner # NoOwner
           /\ Retried(saved)[id].status = jobs[id].status
           /\ jobs[id].status = pending_commits[id].status
           /\ jobs[id].status # "Active"
  <1> DEFINE p == pending_commits[id]
             q == [p EXCEPT !.persistence = "Saved"]
  <1>1. id \in Jobs /\ p # NoJob /\ Retried(saved)[id] = Bumped(q)
    BY DEF Unsaved, Retried
  <1>2. /\ p \in Job /\ Sound(id) /\ jobs[id] # NoJob /\ jobs[id] \in Job
        /\ disk[id] \in Job
    BY <1>1, FactsOK DEF Sound, Waits, Agree
  <1>3. /\ p.revision = jobs[id].revision /\ p.owner = jobs[id].owner
        /\ jobs[id].owner # NoOwner /\ p.status = jobs[id].status
        /\ id \notin active /\ id \notin tombstones
        /\ jobs[id].status # "Active"
    BY <1>1, <1>2 DEF Sound, Waits, Gone, Runs
  <1> HIDE DEF p
  <1>4. /\ q \in Job /\ q.revision = p.revision /\ q.owner = p.owner
        /\ q.status = p.status
    BY <1>2, SavedOK
  <1> HIDE DEF q
  <1>5. /\ Bumped(q) \in Job /\ Bumped(q).revision = p.revision + 1
        /\ Bumped(q).owner = p.owner /\ Bumped(q).status = p.status
    BY <1>4, BumpedOK
  <1>6. /\ disk[id].revision <= p.revision
        /\ disk[id].revision \in Nat /\ p.revision \in Nat
    BY <1>1, <1>2, <1>3 DEF Sound, Agree, Job
  <1>7. disk[id].revision < Bumped(q).revision
    BY <1>5, <1>6
  <1> QED BY <1>1, <1>2, <1>3, <1>5, <1>7 DEF p

(* The records and rows between the two halves of schedule_once(). *)
LEMMA HalfwayOK ==
    ASSUME IInv, NEW saved \in SUBSET Unsaved, NEW records, NEW rows,
           records = Inserted(jobs, Retried(saved)),
           rows = Upserted(disk, Retried(saved)),
           pending_commits' = Without(pending_commits, saved),
           CleanUp({id \in saved : pending_commits[id].status = "Completed"}),
           NEW id \in Jobs
    PROVE  /\ records[id] \in Job \cup {NoJob}
           /\ rows[id] \in Job \cup {NoJob}
           /\ records[id] # NoJob => rows[id] # NoJob
           /\ Agree(id, records[id], rows[id])
           /\ Runs(id, records[id], rows[id], id \in active)
           /\ Waits(records[id], pending_commits'[id], id \in active)
           /\ Gone(id, records[id], rows[id], pending_commits'[id],
                   id \in active, id \in tombstones)
           /\ Source(records[id], rows[id], id \in Zipped \ zips')
           /\ Call(id, records[id], rows[id], supervisor[id])
  <1>1. DOMAIN Retried(saved) = saved
    BY DEF Retried
  <1>2. CASE id \in saved
    <2> DEFINE new == Retried(saved)[id]
    <2>1. /\ Sound(id) /\ jobs[id] # NoJob /\ disk[id] \in Job
          /\ id \notin active /\ id \notin tombstones
          /\ new \in Job /\ disk[id].revision < new.revision
          /\ new.owner = jobs[id].owner /\ jobs[id].owner # NoOwner
          /\ new.status = jobs[id].status /\ jobs[id].status # "Active"
      BY <1>2, RetriedOK
    <2> HIDE DEF new
    <2>2. ~(new.revision < disk[id].revision)
      BY <2>1 DEF Job
    <2>3. Stored(disk[id], new) = new
      BY <2>2, StoredOK
    <2>4. records[id] = new /\ rows[id] = new
      BY <1>1, <1>2, <2>3 DEF Inserted, Upserted, new
    <2>5. pending_commits'[id] = NoJob
      BY <1>2 DEF Without
    <2>6. id \in Zipped \ zips' => new.status = "Completed"
      <3>1. CASE id \in zips
        BY <3>1, <2>1, <1>2, RetriedOK DEF CleanUp
      <3>2. CASE id \notin zips
        BY <3>2, <2>1 DEF Sound, Source
      <3> QED BY <3>1, <3>2
    <2>7. new # NoJob /\ new.revision \in Nat
      BY <2>1, NoJobAssumption DEF Job
    <2>8. Call(id, new, new, supervisor[id])
      BY <2>1, <2>7 DEF Sound, Call, Supervising
    <2> QED BY <2>1, <2>4, <2>5, <2>6, <2>7, <2>8
        DEF Agree, Runs, Waits, Gone, Source
  <1>3. CASE id \notin saved
    <2>1. /\ records[id] = jobs[id] /\ rows[id] = disk[id]
          /\ pending_commits'[id] = pending_commits[id]
      BY <1>1, <1>3 DEF Inserted, Upserted, Without
    <2>2. id \in Zipped \ zips' => id \in Zipped \ zips
      BY <1>3 DEF CleanUp
    <2>3. Source(records[id], rows[id], id \in Zipped \ zips')
      BY <2>1, <2>2, FactsOK DEF Sound, Source
    <2> QED BY <2>1, <2>3, FactsOK DEF Sound, Agree
  <1> QED BY <1>2, <1>3

(* What is chosen is owned by the signed-in account, saved and idle. *)
LEMMA ChosenOK ==
    ASSUME NEW records, NEW due, NEW id \in Chosen(records, due)
    PROVE  /\ id \in Jobs /\ id \notin active
           /\ records[id] # NoJob
           /\ account # NoOwner /\ records[id].owner = account
           /\ records[id].persistence = "Saved"
           /\ records[id].status \notin {"Active", "Completed"}
  <1>1. account # NoOwner /\ id \in Eligible(records, due)
    BY DEF Chosen, Selected
  <1>2. /\ id \in Jobs \ active /\ records[id] # NoJob
        /\ records[id].owner = account /\ records[id].persistence = "Saved"
        /\ records[id].status \in {"Pending", "WaitingForNetwork", "Cooldown"}
    BY <1>1 DEF Eligible
  <1> QED BY <1>1, <1>2

(* schedule_once() *)
LEMMA ScheduleOnceOK ==
    ASSUME IInv, NEW saved \in SUBSET Unsaved, NEW due, ScheduleOnce(saved, due)
    PROVE  IInv'
  <1> DEFINE records == Inserted(jobs, Retried(saved))
             rows == Upserted(disk, Retried(saved))
             ids == Chosen(records, due)
  <1>1. /\ pending_commits' = Without(pending_commits, saved)
        /\ CleanUp({id \in saved : pending_commits[id].status = "Completed"})
        /\ UNCHANGED <<tombstones, settings, cancelled, world, supervisor, history>>
        /\ StartChosen(records, rows, ids) \/ StartFails(records, rows, ids)
    BY DEF ScheduleOnce
  <1>2. ASSUME NEW id \in Jobs
        PROVE  /\ records[id] \in Job \cup {NoJob}
               /\ rows[id] \in Job \cup {NoJob}
               /\ records[id] # NoJob => rows[id] # NoJob
               /\ Agree(id, records[id], rows[id])
               /\ Runs(id, records[id], rows[id], id \in active)
               /\ Waits(records[id], pending_commits'[id], id \in active)
               /\ Gone(id, records[id], rows[id], pending_commits'[id],
                       id \in active, id \in tombstones)
               /\ Source(records[id], rows[id], id \in Zipped \ zips')
               /\ Call(id, records[id], rows[id], supervisor[id])
    BY <1>1, HalfwayOK
  <1>3. \A id \in ids :
           /\ id \in Jobs /\ id \notin active /\ records[id] # NoJob
           /\ account # NoOwner /\ records[id].owner = account
           /\ records[id].persistence = "Saved"
           /\ records[id].status \notin {"Active", "Completed"}
    BY ChosenOK
  <1>4. pending_commits' \in [Jobs -> Job \cup {NoJob}] /\ zips' \in SUBSET Zipped
    BY <1>1 DEF IInv, TypeOK, Without, CleanUp
  <1> HIDE DEF records, rows, ids
  <1>5. ASSUME NEW id \in ids
        PROVE  /\ records[id] \in Job /\ rows[id] \in Job
               /\ rows[id].revision <= records[id].revision
               /\ rows[id].status # "Completed"
               /\ pending_commits'[id] = NoJob
               /\ id \notin tombstones
               /\ id \in Zipped => id \in zips'
               /\ supervisor[id] # "Idle" => id \in Supervised
               /\ id \in Supervised => supervisor[id] \in Supervising
    BY <1>2, <1>3 DEF Agree, Waits, Gone, Source, Call
  <1>6. CASE StartChosen(records, rows, ids)
    <2> DEFINE f == Started(records, ids)
    <2>1. DOMAIN f = ids
      BY DEF Started
    <2>2. ASSUME NEW id \in ids
          PROVE  /\ f[id] \in Job /\ f[id].owner = records[id].owner
                 /\ f[id].revision = records[id].revision + 1
                 /\ f[id].status = "Active"
      BY <1>5, StartedOK
    <2> HIDE DEF f
    <2>3. \A id \in ids : Stored(rows[id], f[id]) = f[id]
      <3> SUFFICES ASSUME NEW id \in ids PROVE Stored(rows[id], f[id]) = f[id]
        OBVIOUS
      <3>1. ~(f[id].revision < rows[id].revision)
        BY <1>5, <2>2 DEF Job
      <3> QED BY <3>1, StoredOK
    <2>4. /\ disk' = Upserted(rows, f) /\ jobs' = Inserted(records, f)
          /\ active' = active \cup ids /\ task' = Spawned(records, ids)
      BY <1>6 DEF StartChosen, f
    <2>5. \A id \in Jobs :
             /\ id \in ids => jobs'[id] = f[id] /\ disk'[id] = f[id]
             /\ id \notin ids => jobs'[id] = records[id] /\ disk'[id] = rows[id]
      BY <2>1, <2>3, <2>4 DEF Inserted, Upserted
    <2>6. /\ jobs' \in [Jobs -> Job \cup {NoJob}]
          /\ disk' \in [Jobs -> Job \cup {NoJob}]
      <3>1. ASSUME NEW id \in Jobs
            PROVE  jobs'[id] \in Job \cup {NoJob} /\ disk'[id] \in Job \cup {NoJob}
        BY <1>2, <2>2, <2>5
      <3>2. jobs' = [id \in Jobs |-> jobs'[id]] /\ disk' = [id \in Jobs |-> disk'[id]]
        BY <2>4 DEF Inserted, Upserted
      <3> QED BY <3>1, <3>2
    <2>7. ASSUME NEW id \in ids
          PROVE  /\ task'[id] \in Task /\ task'[id].pc = "Spawned"
                 /\ Answered(task'[id])
      <3>1. records[id].owner \in Owners \cup {NoOwner} /\ id \in Jobs
        BY <1>3, <1>5 DEF Job
      <3>2. task'[id] = [NoTask EXCEPT !.pc = "Spawned", !.owner = records[id].owner]
        BY <2>4, <3>1 DEF Spawned
      <3> DEFINE o == records[id].owner
                 t == task'[id]
      <3>3. o \in Owners \cup {NoOwner} /\ t = [NoTask EXCEPT !.pc = "Spawned", !.owner = o]
        BY <3>1, <3>2
      <3> HIDE DEF o, t
      <3>4. t \in Task /\ t.pc = "Spawned" /\ Answered(t)
        BY <3>3 DEF NoTask, Task, Answered
      <3> QED BY <3>4 DEF t
    <2>8. \A id \in Jobs : id \notin ids => task'[id] = task[id]
      BY <2>4 DEF Spawned
    <2>9. task' \in [Jobs -> Task]
      <3>1. ASSUME NEW id \in Jobs PROVE task'[id] \in Task
        BY <2>7, <2>8 DEF IInv, TypeOK
      <3>2. task' = [id \in Jobs |-> task'[id]]
        BY <2>4 DEF Spawned
      <3> QED BY <3>1, <3>2
    <2>10. active' \in SUBSET Jobs /\ \A id \in Jobs : id \in active' <=> task'[id].pc # "None"
      BY <1>3, <2>4, <2>7, <2>8 DEF IInv, TypeOK
    <2>11. TypeOK'
      BY <1>1, <1>4, <2>6, <2>9, <2>10 DEF IInv, TypeOK, settings, world, history
    <2>12. ASSUME NEW id \in Jobs PROVE Sound(id)'
      <3>1. CASE id \in ids
        <4>1. Waits(f[id], pending_commits'[id], id \in active')
          BY <1>5, <3>1 DEF Waits
        <4> QED BY <1>1, <1>3, <1>5, <2>2, <2>4, <2>5, <2>7, <3>1, <4>1, CommittedOK
      <3>2. CASE id \notin ids
        <4>1. /\ jobs'[id] = records[id] /\ disk'[id] = rows[id]
              /\ id \in active' <=> id \in active
              /\ task'[id] = task[id] /\ Answered(task[id])
          BY <2>4, <2>5, <2>8, <3>2 DEF IInv, Sound
        <4> QED BY <1>1, <1>2, <4>1
            DEF Sound, Agree, Runs, Waits, Gone, Source, Call
      <3> QED BY <3>1, <3>2
    <2> QED BY <2>11, <2>12 DEF IInv
  <1>7. CASE StartFails(records, rows, ids)
    <2> DEFINE f == Parked(records, ids)
    <2>1. DOMAIN f = ids
      BY DEF Parked
    <2>2. ASSUME NEW id \in ids
          PROVE  /\ f[id] \in Job /\ f[id].owner = records[id].owner
                 /\ f[id].revision = records[id].revision + 1
                 /\ f[id].status = "Paused"
      BY <1>5, StartedOK
    <2> HIDE DEF f
    <2>3. disk' = rows /\ jobs' = Inserted(records, f) /\ UNCHANGED <<active, task>>
      BY <1>7 DEF StartFails, f
    <2>4. \A id \in Jobs :
             /\ id \in ids => jobs'[id] = f[id]
             /\ id \notin ids => jobs'[id] = records[id]
             /\ disk'[id] = rows[id]
      BY <2>1, <2>3 DEF Inserted
    <2>5. /\ jobs' \in [Jobs -> Job \cup {NoJob}]
          /\ disk' \in [Jobs -> Job \cup {NoJob}]
      <3>1. ASSUME NEW id \in Jobs
            PROVE  jobs'[id] \in Job \cup {NoJob} /\ disk'[id] \in Job \cup {NoJob}
        BY <1>2, <2>2, <2>4
      <3>2. jobs' = [id \in Jobs |-> jobs'[id]] /\ disk' = [id \in Jobs |-> disk'[id]]
        BY <2>3 DEF Inserted, Upserted, rows
      <3> QED BY <3>1, <3>2
    <2>6. TypeOK'
      BY <1>1, <1>4, <2>3, <2>5 DEF IInv, TypeOK, settings, world, history
    <2>7. ASSUME NEW id \in Jobs PROVE Sound(id)'
      <3>1. CASE id \in ids
        <4>1. /\ f[id] # NoJob /\ rows[id] # NoJob
              /\ rows[id].revision <= records[id].revision
              /\ f[id].revision = records[id].revision + 1
              /\ rows[id].revision \in Nat /\ records[id].revision \in Nat
          BY <1>5, <2>2, <3>1, NoJobAssumption DEF Job
        <4>2. jobs'[id] = f[id] /\ disk'[id] = rows[id]
          BY <2>4, <3>1
        <4>3. Agree(id, jobs[id], disk[id])'
          BY <1>5, <3>1, <4>1, <4>2 DEF Agree
        <4>4. Runs(id, jobs[id], disk[id], id \in active)'
          BY <1>3, <2>2, <2>3, <3>1, <4>2 DEF Runs
        <4>5. Call(id, jobs[id], disk[id], supervisor[id])'
          BY <1>1, <1>5, <3>1, <4>2 DEF Call, Supervising
        <4>6. Answered(task[id]) /\ task' = task
          BY <2>3 DEF IInv, Sound
        <4> QED BY <1>1, <1>3, <1>5, <2>3, <3>1, <4>3, <4>4, <4>5, <4>6
            DEF Sound, Waits, Gone, Source
      <3>2. CASE id \notin ids
        <4>1. /\ jobs'[id] = records[id] /\ disk'[id] = rows[id]
              /\ active' = active
              /\ task'[id] = task[id] /\ Answered(task[id])
          BY <2>3, <2>4, <3>2 DEF IInv, Sound
        <4> QED BY <1>1, <1>2, <4>1
            DEF Sound, Agree, Runs, Waits, Gone, Source, Call
      <3> QED BY <3>1, <3>2
    <2> QED BY <2>6, <2>7 DEF IInv
  <1> QED BY <1>1, <1>6, <1>7

-----------------------------------------------------------------------------
(* The inductive invariant. *)

(* It holds at the start. *)
LEMMA InitOK == Init => IInv
  <1> SUFFICES ASSUME Init PROVE IInv
    OBVIOUS
  <1>1. NoTask \in Task /\ NoTask.pc = "None" /\ Answered(NoTask)
    BY DEF NoTask, Task, Answered
  <1> HIDE DEF NoTask
  <1>2. TypeOK
    BY <1>1 DEF Init, TypeOK
  <1>3. \A id \in Jobs : Sound(id)
    BY <1>1 DEF Init, Sound, Agree, Runs, Waits, Gone, Source, Call
  <1> QED BY <1>2, <1>3 DEF IInv

(* Every step keeps it. *)
LEMMA StepOK == IInv /\ [Next]_vars => IInv'
  <1> SUFFICES ASSUME IInv, [Next]_vars PROVE IInv'
    OBVIOUS
  <1>1. CASE UNCHANGED vars
    <2>1. TypeOK'
      BY <1>1 DEF IInv, TypeOK, vars
    <2>2. \A id \in Jobs : Sound(id)'
      BY <1>1, SoundFrame DEF IInv, vars
    <2> QED BY <2>1, <2>2 DEF IInv
  <1>2. ASSUME NEW batch \in Batches, NEW last, EnqueueMany(batch, last)
        PROVE  IInv'
    BY <1>2, EnqueueManyOK
  <1>3. ASSUME NEW saved \in SUBSET Unsaved, NEW due, ScheduleOnce(saved, due)
        PROVE  IInv'
    BY <1>3, ScheduleOnceOK
  <1>4. ASSUME NEW id \in Jobs,
               \/ ExecuteStart(id)
               \/ ObserveCancel(id)
               \/ \E outcome \in {"Acked", "Unacked"} : Publish(id, outcome)
               \/ SendAgain(id)
               \/ ReportPublished(id)
               \/ \E error \in Errors : OperationFails(id, error)
        PROVE  IInv'
    BY <1>4, OperationsOK
  <1>5. ASSUME NEW id \in Jobs,
               \/ RecordProgress(id)
               \/ FinishRemoved(id)
               \/ FinishSaved(id)
               \/ FinishUnsaved(id)
               \/ \E command \in {"Pause", "Cancel", "Resume", "Retry"} :
                     Transition(id, command)
               \/ TransitionSavesResult(id)
        PROVE  IInv'
    BY <1>5, RecordProgressOK, FinishRemovedOK, FinishSavedOK, FinishUnsavedOK,
       TransitionOK, TransitionSavesResultOK
  <1>6. ASSUME NEW id \in Jobs,
               \/ \E last : RunSupervised(id, last)
               \/ \E verdict \in {"Ok", "Err"} : Decide(id, verdict)
               \/ Withdraw(id)
               \/ WithdrawReturns(id)
        PROVE  IInv'
    BY <1>6, RunSupervisedOK, SupervisorOK
  <1>7. ASSUME NEW direction, NEW statuses, ClearTerminal(direction, statuses)
        PROVE  IInv'
    BY <1>7, ClearOK
  <1>8. ASSUME NEW ids \in SUBSET InMemory, AdoptLegacy(ids) \/ DiscardLegacy(ids)
        PROVE  IInv'
    BY <1>8, AdoptLegacyOK, ClearOK
  <1>9. ASSUME \/ \E to \in Limits : SetLimits(to)
               \/ Logout
               \/ \E owner \in Owners : SignIn(owner)
               \/ Reconnect
               \/ BeginShutdown
        PROVE  IInv'
    BY <1>9, OutsideOK
  <1>10. CASE Suspend
    BY <1>10, SuspendOK
  <1>11. ASSUME NEW left, Restart(left)
         PROVE  IInv'
    BY <1>11, RestartOK
  <1> QED BY <1>1, <1>2, <1>3, <1>4, <1>5, <1>6, <1>7, <1>8, <1>9, <1>10, <1>11
      DEF Next

(* It holds the properties checked by the runs. *)
LEMMA SafetyOK ==
    ASSUME IInv
    PROVE  /\ TypeOK /\ DiskNotAhead /\ SameTransfers /\ NoResurrection
           /\ DurableIntent /\ UnsavedIsHeld /\ SourceKept /\ LegacyWaits
           /\ WithdrawnIsForgotten
  <1>1. TypeOK
    BY DEF IInv
  <1>2. DiskNotAhead /\ SameTransfers
    BY DEF IInv, Sound, Agree, DiskNotAhead, SameTransfers, InMemory, OnDisk
  <1>3. NoResurrection
    BY DEF IInv, Sound, Gone, NoResurrection, InMemory, OnDisk, Unsaved
  <1>4. DurableIntent /\ LegacyWaits
    BY DEF IInv, Sound, Runs, DurableIntent, LegacyWaits, InMemory
  <1>5. UnsavedIsHeld
    BY DEF IInv, Sound, Waits, UnsavedIsHeld, InMemory, Unsaved
  <1>6. SourceKept
    BY TransferAssumption
    DEF IInv, Sound, Source, SourceKept, InMemory, OnDisk, TransferAssumption
  <1>7. WithdrawnIsForgotten
    BY TransferAssumption
    DEF IInv, Sound, Call, Waits, WithdrawnIsForgotten, InMemory, Unsaved,
        TransferAssumption
  <1> QED BY <1>1, <1>2, <1>3, <1>4, <1>5, <1>6, <1>7

(* Whatever the interleaving of scheduler, commands, operations, failed    *)
(* writes and crashes: memory and database hold the same transfers, the    *)
(* database never a later revision; removed transfers stay removed; what   *)
(* is active is durably so; an unsaved result holds its record back; a     *)
(* source is deleted only under a completed transfer; ownerless transfers  *)
(* wait; withdrawn ones are forgotten.                                     *)
THEOREM TransferInvariant ==
    Spec => []QueueInv
  <1>1. Spec => []IInv
    BY InitOK, StepOK, PTL DEF Spec
  <1>2. IInv => QueueInv
    BY SafetyOK DEF QueueInv
  <1> QED BY <1>1, <1>2, PTL

-----------------------------------------------------------------------------
(* Action properties. *)

(* What a commit may write to one row. *)
LEMMA CommitRow ==
    ASSUME TypeOK, NEW f, CommitJobs(f), NEW id \in Jobs
    PROVE  \/ disk'[id] = disk[id]
           \/ id \in DOMAIN f /\ disk'[id] = f[id]
  BY DEF CommitJobs, Upserted, Stored

(* A step that writes to a completed row removes it or leaves it completed. *)
LEMMA CompletedStep ==
    ASSUME IInv, [Next]_vars, NEW id \in Jobs, disk[id] # NoJob,
           disk[id].status = "Completed"
    PROVE  disk'[id] = NoJob \/ disk'[id].status = "Completed"
  <1>0. /\ TypeOK /\ Sound(id)
        /\ jobs[id] # NoJob => jobs[id].status = "Completed" /\ jobs[id] \in Job
        /\ jobs[id] # NoJob => id \notin active
        /\ jobs[id] = NoJob => id \in Supervised /\ supervisor[id] # "Idle"
    BY FactsOK DEF IInv, Sound, Agree, Runs, Call
  <1> DEFINE Goal == disk'[id] = NoJob \/ disk'[id].status = "Completed"
  <1>1. CASE disk'[id] = disk[id]
    BY <1>1
  <1> SUFFICES ASSUME Next, disk'[id] # disk[id] PROVE Goal
    BY <1>1 DEF vars
  <1>2. ASSUME NEW batch, NEW last, EnqueueMany(batch, last)
        PROVE  Goal
    <2> DEFINE f == Batched(batch, last)
    <2>1. CommitJobs(f) /\ id \in BatchIds(batch) => id \notin Supervised
      BY <1>2 DEF EnqueueMany, Enqueue
    <2>2. DOMAIN f = BatchIds(batch)
      BY DEF Batched
    <2>3. id \in DOMAIN f /\ jobs[id] # NoJob => f[id] = jobs[id]
      BY DEF Batched, InMemory
    <2>4. CommitJobs(f)
      BY <1>2 DEF EnqueueMany, Enqueue
    <2> HIDE DEF f
    <2> QED BY <1>0, <2>1, <2>2, <2>3, <2>4, CommitRow
  <1>3. ASSUME NEW k \in Jobs, NEW last, RunSupervised(k, last)
        PROVE  Goal
    <2> DEFINE batch == [i \in {1} |-> k]
               f == Batched(batch, last)
    <2>1. CommitJobs(f) /\ supervisor[k] = "Idle"
      BY <1>3 DEF RunSupervised, Enqueue
    <2>2. DOMAIN f = {k}
      BY DEF Batched, BatchIds
    <2>3. id \in DOMAIN f /\ jobs[id] # NoJob => f[id] = jobs[id]
      BY DEF Batched, InMemory
    <2> HIDE DEF f
    <2> QED BY <1>0, <2>1, <2>2, <2>3, CommitRow
  <1>4. ASSUME NEW saved \in SUBSET Unsaved, NEW due, ScheduleOnce(saved, due)
        PROVE  Goal
    <2> DEFINE records == Inserted(jobs, Retried(saved))
               rows == Upserted(disk, Retried(saved))
               ids == Chosen(records, due)
    <2>1. StartChosen(records, rows, ids) \/ StartFails(records, rows, ids)
      BY <1>4 DEF ScheduleOnce
    <2>2. id \in saved => /\ jobs[id] # NoJob
                          /\ Retried(saved)[id].status = jobs[id].status
      BY RetriedOK
    <2>3. DOMAIN Retried(saved) = saved
      BY DEF Retried
    <2>4. rows[id] # NoJob => rows[id].status = "Completed"
      BY <1>0, <2>2, <2>3 DEF Upserted, Stored
    <2>5. id \notin ids
      <3>1. records[id] # NoJob => records[id].status = "Completed"
        BY <1>0, <2>2, <2>3 DEF Inserted
      <3> HIDE DEF records
      <3> QED BY <3>1, ChosenOK
    <2> HIDE DEF records, rows, ids
    <2>6. disk'[id] = rows[id]
      <3>1. CASE StartChosen(records, rows, ids)
        BY <3>1, <2>5 DEF StartChosen, Upserted, Started
      <3>2. CASE StartFails(records, rows, ids)
        BY <3>2 DEF StartFails
      <3> QED BY <2>1, <3>1, <3>2
    <2> QED BY <2>4, <2>6
  <1>5. ASSUME NEW k \in Jobs, RecordProgress(k)
        PROVE  Goal
    <2>1. k # id
      BY <1>0, <1>5 DEF RecordProgress, InMemory
    <2> QED BY <1>0, <1>5, <2>1 DEF RecordProgress, TypeOK
  <1>6. ASSUME NEW k \in Jobs, FinishSaved(k)
        PROVE  Goal
    <2>1. CommitJobs([i \in {k} |-> Result(k)]) /\ k \in active /\ jobs[k] # NoJob
      BY <1>6, FinishOK DEF FinishSaved, InMemory
    <2> QED BY <1>0, <2>1, CommitRow
  <1>7. ASSUME NEW k \in Jobs, NEW command \in {"Pause", "Cancel", "Resume", "Retry"},
               Transition(k, command)
        PROVE  Goal
    <2>1. /\ CommitJobs([i \in {k} |-> Commanded(jobs[k], command)])
          /\ jobs[k] # NoJob /\ jobs[k].status # "Completed"
      BY <1>7 DEF Transition, InMemory, Applies, Terminal
    <2> QED BY <1>0, <2>1, CommitRow
  <1>8. ASSUME NEW k \in Jobs, TransitionSavesResult(k)
        PROVE  Goal
    <2> DEFINE p == pending_commits[k]
               r == jobs[k].revision + 1
               new == [p EXCEPT !.revision = r, !.persistence = "Saved"]
    <2>1. CommitJobs([i \in {k} |-> new]) /\ jobs[k] # NoJob /\ p # NoJob
      BY <1>8 DEF TransitionSavesResult, InMemory, Unsaved
    <2>2. p \in Job /\ p.status = jobs[k].status
      BY <2>1, FactsOK DEF Sound, Waits
    <2> HIDE DEF p, r
    <2>3. new.status = p.status
      BY <2>2 DEF Job
    <2> HIDE DEF new
    <2> QED BY <1>0, <2>1, <2>2, <2>3, CommitRow
  <1>9. ASSUME NEW ids \in SUBSET InMemory, AdoptLegacy(ids)
        PROVE  Goal
    <2>1. /\ CommitJobs([k \in ids |-> Adopted(jobs[k])])
          /\ account \in Owners
      BY <1>9 DEF AdoptLegacy, IInv, TypeOK
    <2>2. CASE id \in ids
      <3>1. jobs[id] # NoJob
        BY <2>2 DEF InMemory
      <3>2. Adopted(jobs[id]).status = "Completed"
        BY <1>0, <2>1, <3>1, AdoptedOK
      <3> QED BY <1>0, <2>1, <2>2, <3>2, CommitRow
    <2>3. CASE id \notin ids
      BY <1>0, <2>1, <2>3, CommitRow
    <2> QED BY <2>2, <2>3
  <1>10. ASSUME NEW ids, DeleteMany(ids)
         PROVE  Goal
    BY <1>10 DEF DeleteMany, Without
  <1>11. ASSUME NEW left, Restart(left)
         PROVE  Goal
    <2>1. disk'[id] = Recovered(id) /\ disk[id] \in Job
      BY <1>11, FactsOK DEF Restart
    <2> QED BY <2>1, RecoveredOK DEF Recovered
  <1>12. ASSUME NEW k \in Jobs,
                \/ ExecuteStart(k)
                \/ ObserveCancel(k)
                \/ \E outcome \in {"Acked", "Unacked"} : Publish(k, outcome)
                \/ SendAgain(k)
                \/ ReportPublished(k)
                \/ \E error \in Errors : OperationFails(k, error)
         PROVE  Goal
    BY <1>12 DEF ExecuteStart, ObserveCancel, Publish, SendAgain,
                 ReportPublished, OperationFails, Operation, store
  <1>13. ASSUME NEW k \in Jobs,
                \/ FinishRemoved(k)
                \/ FinishUnsaved(k)
                \/ \E verdict \in {"Ok", "Err"} : Decide(k, verdict)
                \/ WithdrawReturns(k)
         PROVE  Goal
    BY <1>13 DEF FinishRemoved, FinishUnsaved, Decide, WithdrawReturns, store
  <1>14. ASSUME \/ \E to \in Limits : SetLimits(to)
                \/ Suspend
                \/ Logout
                \/ \E owner \in Owners : SignIn(owner)
                \/ Reconnect
                \/ BeginShutdown
         PROVE  Goal
    BY <1>14 DEF SetLimits, Suspend, Logout, SignIn, Reconnect, BeginShutdown,
                 store
  <1>15. ASSUME NEW k \in Jobs, Withdraw(k)
         PROVE  Goal
    BY <1>10, <1>15 DEF Withdraw
  <1>16. ASSUME NEW direction, NEW statuses, ClearTerminal(direction, statuses)
         PROVE  Goal
    BY <1>10, <1>16 DEF ClearTerminal
  <1>17. ASSUME NEW ids \in SUBSET InMemory, DiscardLegacy(ids)
         PROVE  Goal
    BY <1>10, <1>17 DEF DiscardLegacy
  <1> HIDE DEF Goal
  <1> QED BY <1>2, <1>3, <1>4, <1>5, <1>6, <1>7, <1>8, <1>9, <1>11, <1>12,
             <1>13, <1>14, <1>15, <1>16, <1>17 DEF Next

(* A completed row is never anything else again: no late result, retried   *)
(* result, command, adoption or restart reopens a completed transfer.      *)
THEOREM CompletedFinal == Spec => CompletedIsFinal
  <1>1. Spec => []IInv
    BY InitOK, StepOK, PTL DEF Spec
  <1>2. IInv /\ [Next]_vars =>
           [\A id \in OnDisk : disk[id].status = "Completed" =>
               disk'[id] = NoJob \/ disk'[id].status = "Completed"]_vars
    BY CompletedStep DEF OnDisk
  <1> QED BY <1>1, <1>2, PTL DEF Spec, CompletedIsFinal

(* Only the scheduler starts transfers. *)
LEMMA SchedulerStarts ==
    ASSUME [Next]_vars,
           ~\E saved \in SUBSET Unsaved, due \in SUBSET Cooling :
               ScheduleOnce(saved, due)
    PROVE  active' \subseteq active
  <1>1. CASE UNCHANGED vars
    BY <1>1 DEF vars
  <1>2. ASSUME NEW k \in Jobs,
               \/ ExecuteStart(k)
               \/ ObserveCancel(k)
               \/ \E outcome \in {"Acked", "Unacked"} : Publish(k, outcome)
               \/ SendAgain(k)
               \/ ReportPublished(k)
               \/ \E error \in Errors : OperationFails(k, error)
        PROVE  active' \subseteq active
    BY <1>2 DEF ExecuteStart, ObserveCancel, Publish, SendAgain,
                ReportPublished, OperationFails, Operation
  <1>3. ASSUME NEW k \in Jobs,
               \/ RecordProgress(k)
               \/ FinishRemoved(k)
               \/ FinishSaved(k)
               \/ FinishUnsaved(k)
               \/ \E command \in {"Pause", "Cancel", "Resume", "Retry"} :
                     Transition(k, command)
               \/ TransitionSavesResult(k)
        PROVE  active' \subseteq active
    BY <1>3 DEF RecordProgress, FinishRemoved, FinishSaved, FinishUnsaved,
                Finish, Transition, TransitionSavesResult
  <1>4. ASSUME NEW k \in Jobs,
               \/ \E last : RunSupervised(k, last)
               \/ \E verdict \in {"Ok", "Err"} : Decide(k, verdict)
               \/ Withdraw(k)
               \/ WithdrawReturns(k)
        PROVE  active' \subseteq active
    BY <1>4 DEF RunSupervised, Enqueue, Decide, Withdraw, WithdrawReturns
  <1>5. ASSUME \/ \E batch, last : EnqueueMany(batch, last)
               \/ \E direction, statuses : ClearTerminal(direction, statuses)
               \/ \E ids : AdoptLegacy(ids) \/ DiscardLegacy(ids)
               \/ \E to : SetLimits(to)
               \/ Suspend
               \/ Logout
               \/ \E owner : SignIn(owner)
               \/ Reconnect
               \/ BeginShutdown
               \/ \E left : Restart(left)
        PROVE  active' \subseteq active
    BY <1>5 DEF EnqueueMany, Enqueue, ClearTerminal, AdoptLegacy,
                DiscardLegacy, SetLimits, Suspend, Logout, SignIn, Reconnect,
                BeginShutdown, Restart
  <1> QED BY <1>1, <1>2, <1>3, <1>4, <1>5 DEF Next

(* What starts is a record in memory, so its call has not withdrawn it. *)
LEMMA StartsStep ==
    ASSUME IInv, [Next]_vars, NEW id \in Supervised,
           supervisor[id] \notin Supervising
    PROVE  id \notin active' \ active
  <1>0. id \in Jobs
    BY TransferAssumption DEF TransferAssumption
  <1>1. ASSUME NEW saved \in SUBSET Unsaved, NEW due, ScheduleOnce(saved, due)
        PROVE  id \notin active' \ active
    <2> DEFINE records == Inserted(jobs, Retried(saved))
               rows == Upserted(disk, Retried(saved))
               ids == Chosen(records, due)
    <2>1. /\ StartChosen(records, rows, ids) \/ StartFails(records, rows, ids)
          /\ pending_commits' = Without(pending_commits, saved)
          /\ CleanUp({k \in saved : pending_commits[k].status = "Completed"})
      BY <1>1 DEF ScheduleOnce
    <2>2. Call(id, records[id], rows[id], supervisor[id])
      BY <1>0, <2>1, HalfwayOK
    <2> HIDE DEF records, rows
    <2>3. id \notin ids
      BY <2>2, ChosenOK DEF Call
    <2> HIDE DEF ids
    <2> QED BY <2>1, <2>3 DEF StartChosen, StartFails
  <1> QED BY <1>1, SchedulerStarts

(* Once its call has withdrawn it, or the process that supervised it has   *)
(* ended, a supervised transfer never starts, also when its removal from   *)
(* the database failed.                                                    *)
THEOREM WithdrawnNotStarted == Spec => WithdrawnNeverStarts
  <1>1. Spec => []IInv
    BY InitOK, StepOK, PTL DEF Spec
  <1>2. IInv /\ [Next]_vars =>
           [\A id \in Supervised : supervisor[id] \notin Supervising =>
               id \notin active' \ active]_vars
    BY StartsStep
  <1> QED BY <1>1, <1>2, PTL DEF Spec, WithdrawnNeverStarts

-----------------------------------------------------------------------------
(* Account guards. *)

(* Every step keeps the guards of the signed-in account. *)
LEMMA GuardStep ==
    ASSUME IInv, OwnAccountOnly, [Next]_vars
    PROVE  OwnAccountOnly'
  <1> USE DEF OwnAccountOnly, SignedInAs
  <1>n. NoTask.guard = "Stale"
    BY DEF NoTask
  <1>t. task \in [Jobs -> Task]
    BY DEF IInv, TypeOK
  <1>1. ASSUME UNCHANGED <<task, account>> PROVE OwnAccountOnly'
    BY <1>1
  <1>2. ASSUME NEW k \in Jobs,
               \/ ExecuteStart(k)
               \/ ObserveCancel(k)
               \/ \E outcome \in {"Acked", "Unacked"} : Publish(k, outcome)
               \/ SendAgain(k)
               \/ ReportPublished(k)
               \/ \E error \in Errors : OperationFails(k, error)
        PROVE  OwnAccountOnly'
    <2> DEFINE t == task[k]
               Kept(to) == /\ to.guard = "Valid" => SignedInAs(to.owner)
    <2>1. t \in Task /\ Kept(t)
      BY <1>t
    <2>2. \A to : Operation(k, to) /\ Kept(to) => OwnAccountOnly'
      BY <1>t DEF Operation, world
    <2> HIDE DEF t
    <2>3. /\ Kept([t EXCEPT !.pc = "Running"])
          /\ \A pc : Kept([t EXCEPT !.pc = pc])
          /\ \A answer : Kept([t EXCEPT !.pc = "Returned", !.answer = answer])
          /\ SignedInAs(t.owner) => Kept([t EXCEPT !.pc = "Running", !.guard = "Valid"])
      BY <2>1 DEF Task
    <2> HIDE DEF Kept
    <2>4. CASE ExecuteStart(k)
      <3>1. CASE SignedInAs(t.owner)
        BY <2>2, <2>3, <2>4, <3>1 DEF ExecuteStart, t
      <3>2. CASE ~SignedInAs(t.owner)
        BY <2>2, <2>3, <2>4, <3>2 DEF ExecuteStart, t
      <3> QED BY <3>1, <3>2
    <2>5. CASE ObserveCancel(k)
      BY <2>2, <2>3, <2>5 DEF ObserveCancel, t
    <2>6. CASE \E outcome \in {"Acked", "Unacked"} : Publish(k, outcome)
      BY <2>2, <2>3, <2>6 DEF Publish, t
    <2>7. CASE SendAgain(k)
      BY <2>2, <2>3, <2>7 DEF SendAgain, t
    <2>8. CASE ReportPublished(k)
      BY <2>2, <2>3, <2>8 DEF ReportPublished, t
    <2>9. CASE \E error \in Errors : OperationFails(k, error)
      BY <2>2, <2>3, <2>9 DEF OperationFails, t
    <2> QED BY <1>2, <2>4, <2>5, <2>6, <2>7, <2>8, <2>9
  <1>3. ASSUME NEW k \in Jobs, FinishRemoved(k) \/ FinishSaved(k) \/ FinishUnsaved(k)
        PROVE  OwnAccountOnly'
    <2>1. Finish(k) /\ account' = account
      BY <1>3 DEF FinishRemoved, FinishSaved, FinishUnsaved, Finish, world
    <2> QED BY <1>n, <2>1, FinishOK
  <1>4. ASSUME NEW saved, NEW due, ScheduleOnce(saved, due)
        PROVE  OwnAccountOnly'
    <2>1. PICK records, rows, ids : StartChosen(records, rows, ids)
                                    \/ StartFails(records, rows, ids)
      BY <1>4 DEF ScheduleOnce
    <2>2. account' = account
      BY <1>4 DEF ScheduleOnce, world
    <2>3. CASE StartFails(records, rows, ids)
      BY <1>1, <2>2, <2>3 DEF StartFails
    <2>4. CASE StartChosen(records, rows, ids)
      <3>1. ASSUME NEW id \in Jobs
            PROVE  task'[id].guard = "Valid" => task'[id] = task[id]
        <4> DEFINE o == records[id].owner
        <4>1. [NoTask EXCEPT !.pc = "Spawned", !.owner = o].guard = "Stale"
          BY DEF NoTask
        <4> QED BY <2>4, <4>1 DEF StartChosen, Spawned
      <3> QED BY <2>2, <3>1
    <2> QED BY <2>1, <2>3, <2>4
  <1>5. CASE Suspend
    <2>1. ASSUME NEW id \in Jobs PROVE task'[id].guard = "Stale"
      <3>1. task[id] \in Task /\ task'[id] = [task[id] EXCEPT !.guard = "Stale"]
        BY <1>5, <1>t DEF Suspend
      <3> DEFINE t == task[id]
                 to == task'[id]
      <3>2. t \in Task /\ to = [t EXCEPT !.guard = "Stale"]
        BY <3>1
      <3> HIDE DEF t, to
      <3>3. to.guard = "Stale"
        BY <3>2 DEF Task
      <3> QED BY <3>3 DEF to
    <2> QED BY <2>1
  <1>6. ASSUME NEW owner, SignIn(owner)
        PROVE  OwnAccountOnly'
    BY <1>6 DEF SignIn
  <1>7. ASSUME NEW left, Restart(left)
        PROVE  OwnAccountOnly'
    BY <1>7, <1>n DEF Restart
  <1>8. ASSUME NEW k \in Jobs,
               \/ RecordProgress(k)
               \/ \E command \in {"Pause", "Cancel", "Resume", "Retry"} :
                     Transition(k, command)
               \/ TransitionSavesResult(k)
               \/ \E last : RunSupervised(k, last)
               \/ \E verdict \in {"Ok", "Err"} : Decide(k, verdict)
               \/ Withdraw(k)
               \/ WithdrawReturns(k)
        PROVE  UNCHANGED <<task, account>>
    BY <1>8 DEF RecordProgress, Transition, TransitionSavesResult,
                RunSupervised, Enqueue, Decide, Withdraw, WithdrawReturns, world
  <1>9. ASSUME \/ UNCHANGED vars
               \/ \E batch, last : EnqueueMany(batch, last)
               \/ \E direction, statuses : ClearTerminal(direction, statuses)
               \/ \E ids : AdoptLegacy(ids) \/ DiscardLegacy(ids)
               \/ \E to : SetLimits(to)
               \/ Logout
               \/ Reconnect
               \/ BeginShutdown
        PROVE  UNCHANGED <<task, account>>
    BY <1>9 DEF EnqueueMany, Enqueue, ClearTerminal, AdoptLegacy, DiscardLegacy,
                SetLimits, Logout, Reconnect, BeginShutdown, world, vars
  <1> HIDE DEF OwnAccountOnly, SignedInAs
  <1> QED BY <1>1, <1>2, <1>3, <1>4, <1>5, <1>6, <1>7, <1>8, <1>9 DEF Next

(* An operation that may still publish belongs to the signed-in account,   *)
(* through sign-outs, account changes and restarts.                        *)
THEOREM OwnAccount == Spec => []OwnAccountOnly
  <1>1. Spec => []IInv
    BY InitOK, StepOK, PTL DEF Spec
  <1>2. Init => OwnAccountOnly
    BY DEF Init, OwnAccountOnly, NoTask
  <1>3. IInv /\ OwnAccountOnly /\ [Next]_vars => OwnAccountOnly'
    BY GuardStep
  <1> QED BY <1>1, <1>2, <1>3, PTL DEF Spec

-----------------------------------------------------------------------------
(***************************************************************************)
(* Positions and publications.  What is held of an id, in memory, in the   *)
(* database or as an unsaved result, has one position; what is completed   *)
(* was published.                                                          *)
(***************************************************************************)
Placed(id) ==
    jobs[id] # NoJob =>
        /\ disk[id].position = jobs[id].position
        /\ pending_commits[id] # NoJob =>
              pending_commits[id].position = jobs[id].position

Earned(id) ==
    \A row \in {jobs[id], disk[id]} :
        row # NoJob /\ row.status = "Completed" => published[id] > 0

Claimed(id) ==
    /\ task[id].pc = "Acked" => published[id] > 0
    /\ task[id].pc = "Returned" /\ task[id].answer = "Ok" => published[id] > 0
    /\ supervisor[id] = "Ok" => published[id] > 0

PlacedInv ==
    /\ IInv /\ PositionsDistinct
    /\ \A id \in Jobs : Placed(id) /\ Earned(id) /\ Claimed(id)

(* A step that queues nothing leaves an id at its position. *)
KeepsPlace(id) ==
    /\ jobs'[id] # NoJob =>
          /\ jobs[id] # NoJob
          /\ jobs'[id].position = jobs[id].position
          /\ disk'[id].position = jobs[id].position
    /\ pending_commits'[id] # NoJob =>
          pending_commits'[id].position = jobs[id].position

(* When every id keeps its position, positions stay distinct. *)
LEMMA KeptPlaces ==
    ASSUME PlacedInv, \A id \in Jobs : KeepsPlace(id)
    PROVE  PositionsDistinct' /\ \A id \in Jobs : Placed(id)'
  BY DEF PlacedInv, KeepsPlace, Placed, PositionsDistinct, InMemory

(* What the operators on records do to the position, and which of them     *)
(* complete a record.                                                      *)
LEMMA BumpedPlace ==
    ASSUME NEW job \in Job
    PROVE  Bumped(job).position = job.position
  BY DEF Bumped, Job

(* A settled record keeps its position and is completed by Ok only. *)
LEMMA SettledPlace ==
    ASSUME NEW job \in Job, NEW answer \in Errors \cup {"Ok"}
    PROVE  /\ Settled(job, answer).position = job.position
           /\ Settled(job, answer).status = "Completed" => answer = "Ok"
  <1>1. CASE answer = "Ok"
    BY <1>1 DEF Settled, Job
  <1>2. CASE answer # "Ok" /\ job.status \in {"Pending", "Paused", "Cancelled"}
    BY <1>2 DEF Settled
  <1>3. CASE answer # "Ok" /\ job.status \notin {"Pending", "Paused", "Cancelled"}
    <2>1. Settled(job, answer) = ApplyFailure(job, answer) /\ answer \in Errors
      BY <1>3 DEF Settled
    <2> DEFINE st == FailureStatus(job, answer)
               ca == FailureCategory(answer)
               r == IF answer = "Network" /\ job.retries < MaxNetworkRetries
                    THEN job.retries + 1 ELSE job.retries
    <2>2. ApplyFailure(job, answer) =
              [job EXCEPT !.status = st, !.category = ca, !.retries = r]
      BY DEF ApplyFailure
    <2> HIDE DEF st, ca, r
    <2>3. ApplyFailure(job, answer).position = job.position
      BY <2>2 DEF Job
    <2> QED BY <2>1, <2>3, ApplyFailureOK
  <1> QED BY <1>1, <1>2, <1>3

(* So does the result of a returned operation. *)
LEMMA ResultPlace ==
    ASSUME PlacedInv, NEW id \in Jobs, jobs[id] # NoJob, task[id].pc = "Returned"
    PROVE  /\ Result(id) \in Job
           /\ Result(id).position = jobs[id].position
           /\ Result(id).status = "Completed" => published[id] > 0
  <1>1. /\ jobs[id] \in Job /\ task[id].answer \in Errors \cup {"Ok"}
        /\ Result(id) \in Job /\ Claimed(id)
    BY ResultOK DEF PlacedInv, IInv, TypeOK, Sound, Answered
  <1> DEFINE settled == Settled(jobs[id], task[id].answer)
             saved == [settled EXCEPT !.persistence = "Saved"]
  <1>2. /\ settled \in Job /\ settled.position = jobs[id].position
        /\ settled.status = "Completed" => task[id].answer = "Ok"
    BY <1>1, SettledOK, SettledPlace
  <1>3. Result(id) = Bumped(saved)
    BY DEF Result
  <1> HIDE DEF settled
  <1>4. saved \in Job /\ saved.position = settled.position /\ saved.status = settled.status
    BY <1>2 DEF Job
  <1> HIDE DEF saved
  <1>5. Result(id).position = saved.position /\ Result(id).status = saved.status
    BY <1>3, <1>4, BumpedOK, BumpedPlace
  <1> QED BY <1>1, <1>2, <1>4, <1>5 DEF Claimed

(* A command keeps the position. *)
LEMMA CommandedPlace ==
    ASSUME NEW job \in Job,
           NEW command \in {"Pause", "Cancel", "Resume", "Retry"}
    PROVE  Commanded(job, command).position = job.position
  <1> DEFINE st == CASE command = "Pause" -> "Paused"
                     [] command = "Cancel" -> "Cancelled"
                     [] command \in {"Resume", "Retry"} -> "Pending"
             r == IF command \in {"Resume", "Retry"} THEN 0 ELSE job.retries
             next == [job EXCEPT !.status = st, !.category = "None",
                                 !.retries = r]
  <1>1. st \in {"Paused", "Cancelled", "Pending"} /\ r \in Nat
    BY DEF Job
  <1>2. Commanded(job, command) = Bumped(next)
    BY DEF Commanded
  <1> HIDE DEF st, r
  <1>3. next \in Job /\ next.position = job.position
    BY <1>1 DEF Job, Status, Terminal, Category
  <1> QED BY <1>2, <1>3, BumpedPlace

(* So does adoption. *)
LEMMA AdoptedPlace ==
    ASSUME NEW job \in Job, account \in Owners
    PROVE  Adopted(job).position = job.position
  <1> DEFINE st == IF job.status = "Completed" THEN "Completed" ELSE "Paused"
             next == [job EXCEPT !.owner = account, !.category = "None",
                                 !.status = st]
  <1>1. Adopted(job) = Bumped(next)
    BY DEF Adopted
  <1>2. st \in Status
    BY DEF Status, Terminal
  <1> HIDE DEF st
  <1>3. next \in Job /\ next.position = job.position
    BY <1>2 DEF Job, Category
  <1> QED BY <1>1, <1>3, BumpedPlace

(* Recovery keeps the position and completes nothing. *)
LEMMA RecoveredPlace ==
    ASSUME NEW row \in Job
    PROVE  /\ RecoverAfterRestart(row).position = row.position
           /\ RecoverAfterRestart(row).status = "Completed" => row.status = "Completed"
  <1>1. CASE NeedsRecovery(row)
    <2> DEFINE ca == IF row.owner = NoOwner THEN "Account" ELSE "Interrupted"
               next == [row EXCEPT !.status = "Paused", !.category = ca,
                                   !.persistence = "Saved"]
    <2>1. RecoverAfterRestart(row) = Bumped(next)
      BY <1>1 DEF RecoverAfterRestart
    <2>2. ca \in Category
      BY DEF Category
    <2> HIDE DEF ca
    <2>3. next \in Job /\ next.position = row.position /\ next.status = "Paused"
      BY <2>2 DEF Job, Status, Terminal
    <2> QED BY <2>1, <2>3, BumpedPlace, BumpedOK
  <1>2. CASE ~NeedsRecovery(row)
    BY <1>2 DEF RecoverAfterRestart
  <1> QED BY <1>1, <1>2

(* Starting and parking keep the position. *)
LEMMA StartedPlace ==
    ASSUME NEW records, NEW ids, NEW id \in ids, records[id] \in Job
    PROVE  /\ Started(records, ids)[id].position = records[id].position
           /\ Parked(records, ids)[id].position = records[id].position
  <1> DEFINE started == [records[id] EXCEPT !.status = "Active",
                                            !.category = "None"]
             parked == [records[id] EXCEPT !.status = "Paused",
                                           !.category = "Persistence"]
  <1>1. Started(records, ids)[id] = Bumped(started)
    BY DEF Started
  <1>2. Parked(records, ids)[id] = Bumped(parked)
    BY DEF Parked
  <1>3. /\ started \in Job /\ started.position = records[id].position
        /\ parked \in Job /\ parked.position = records[id].position
    BY DEF Job, Status, Category, Terminal
  <1> HIDE DEF started, parked
  <1> QED BY <1>1, <1>2, <1>3, BumpedPlace

(* What a commit writes. *)
LEMMA CommitPlaces ==
    ASSUME PlacedInv, NEW f, CommitJobs(f), published' = published,
           \A id \in Jobs : pending_commits'[id] \in {pending_commits[id], NoJob},
           \A id \in DOMAIN f \cap Jobs :
              /\ jobs[id] # NoJob /\ f[id].position = jobs[id].position
              /\ f[id].status = "Completed" => published[id] > 0
    PROVE  \A id \in Jobs : KeepsPlace(id) /\ Earned(id)'
  <1> TAKE id \in Jobs
  <1>1. /\ jobs'[id] = IF id \in DOMAIN f THEN f[id] ELSE jobs[id]
        /\ disk'[id] = disk[id] \/ (id \in DOMAIN f /\ disk'[id] = f[id])
    BY CommitRow DEF CommitJobs, Inserted, PlacedInv, IInv
  <1>2. Placed(id) /\ Earned(id) /\ (pending_commits[id] # NoJob => jobs[id] # NoJob)
    BY FactsOK DEF PlacedInv, Sound, Waits
  <1> QED BY <1>1, <1>2 DEF KeepsPlace, Placed, Earned

(* What a step that leaves records and rows alone, or removes some, keeps. *)
LEMMA RemovalPlaces ==
    ASSUME PlacedInv,
           \A id \in Jobs :
              /\ jobs'[id] \in {jobs[id], NoJob} /\ disk'[id] \in {disk[id], NoJob}
              /\ jobs'[id] # NoJob => disk'[id] # NoJob
              /\ pending_commits'[id] \in {pending_commits[id], NoJob}
              /\ published'[id] \in Nat /\ published'[id] >= published[id]
    PROVE  \A id \in Jobs : KeepsPlace(id) /\ Earned(id)'
  <1> TAKE id \in Jobs
  <1>1. /\ Placed(id) /\ Earned(id) /\ (pending_commits[id] # NoJob => jobs[id] # NoJob)
        /\ published[id] \in Nat
    BY FactsOK DEF PlacedInv, Sound, Waits, IInv, TypeOK
  <1>2. Earned(id)'
    <2>1. published[id] > 0 => published'[id] > 0
      BY <1>1
    <2> QED BY <1>1, <2>1 DEF Earned
  <1> QED BY <1>1, <1>2 DEF KeepsPlace, Placed

(* The steps that queue nothing, one after the other: places. *)
LEMMA FinishPlaces ==
    ASSUME PlacedInv, NEW k \in Jobs, FinishSaved(k) \/ FinishUnsaved(k)
    PROVE  \A id \in Jobs : KeepsPlace(id) /\ Earned(id)'
  <1>1. /\ task[k].pc = "Returned" /\ jobs[k] # NoJob /\ published' = published
    BY DEF FinishSaved, FinishUnsaved, Finish, InMemory, history
  <1>2. PICK r : r = Result(k)
    OBVIOUS
  <1>3. /\ r \in Job /\ r.position = jobs[k].position
        /\ r.status = "Completed" => published[k] > 0
    BY <1>1, <1>2, ResultPlace
  <1>4. /\ jobs \in [Jobs -> Job \cup {NoJob}]
        /\ pending_commits \in [Jobs -> Job \cup {NoJob}]
        /\ \A id \in Jobs : /\ Placed(id) /\ Earned(id)
                            /\ pending_commits[id] # NoJob => jobs[id] # NoJob
    BY FactsOK DEF PlacedInv, Sound, Waits, IInv, TypeOK
  <1>5. CASE FinishSaved(k)
    <2>1. /\ CommitJobs([i \in {k} |-> r])
          /\ pending_commits' = [pending_commits EXCEPT ![k] = NoJob]
      BY <1>2, <1>5 DEF FinishSaved
    <2>2. \A id \in Jobs : pending_commits'[id] \in {pending_commits[id], NoJob}
      BY <1>4, <2>1
    <2> DEFINE f == [i \in {k} |-> r]
    <2>3. \A id \in DOMAIN f \cap Jobs :
              /\ jobs[id] # NoJob /\ f[id].position = jobs[id].position
              /\ f[id].status = "Completed" => published[id] > 0
      BY <1>1, <1>3
    <2>4. CommitJobs(f)
      BY <2>1
    <2> HIDE DEF f
    <2> QED BY <1>1, <2>2, <2>3, <2>4, CommitPlaces
  <1>6. CASE FinishUnsaved(k)
    <2>1. PICK m : m = [r EXCEPT !.persistence = "Pending", !.category = "Persistence"]
      OBVIOUS
    <2>2. m.position = r.position /\ m.status = r.status
      BY <1>3, <2>1 DEF Job
    <2>3. /\ pending_commits' = [pending_commits EXCEPT ![k] = r]
          /\ jobs' = [jobs EXCEPT ![k] = m] /\ disk' = disk
      BY <1>2, <1>6, <2>1 DEF FinishUnsaved
    <2> QED BY <1>1, <1>3, <1>4, <2>2, <2>3 DEF KeepsPlace, Placed, Earned
  <1> QED BY <1>5, <1>6

(* record_progress() moves nothing and completes nothing. *)
LEMMA ProgressPlaces ==
    ASSUME PlacedInv, NEW k \in Jobs, RecordProgress(k)
    PROVE  \A id \in Jobs : KeepsPlace(id) /\ Earned(id)'
  <1>1. /\ jobs[k] \in Job /\ jobs[k] # NoJob /\ jobs[k].status = "Active"
        /\ pending_commits' = pending_commits /\ published' = published
    BY FactsOK DEF RecordProgress, InMemory, history, PlacedInv
  <1>2. PICK r : r = Bumped(jobs[k])
    OBVIOUS
  <1>3. r.position = jobs[k].position /\ r.status = "Active"
    BY <1>1, <1>2, BumpedOK, BumpedPlace
  <1>4. /\ jobs' = [jobs EXCEPT ![k] = r]
        /\ disk' = disk \/ disk' = [disk EXCEPT ![k] = disk[k]] \/ disk' = [disk EXCEPT ![k] = r]
    BY <1>2 DEF RecordProgress, Stored
  <1>5. /\ jobs \in [Jobs -> Job \cup {NoJob}] /\ disk \in [Jobs -> Job \cup {NoJob}]
        /\ \A id \in Jobs : /\ Placed(id) /\ Earned(id)
                            /\ pending_commits[id] # NoJob => jobs[id] # NoJob
    BY FactsOK DEF PlacedInv, Sound, Waits, IInv, TypeOK
  <1> QED BY <1>1, <1>3, <1>4, <1>5 DEF KeepsPlace, Placed, Earned

(* Nor does a command; a saved result was earned before. *)
LEMMA CommandPlaces ==
    ASSUME PlacedInv,
           \/ \E k \in Jobs, command \in {"Pause", "Cancel", "Resume", "Retry"} :
                 Transition(k, command)
           \/ \E k \in Jobs : TransitionSavesResult(k)
           \/ \E ids \in SUBSET InMemory : AdoptLegacy(ids)
    PROVE  \A id \in Jobs : KeepsPlace(id) /\ Earned(id)'
  <1>0. /\ pending_commits \in [Jobs -> Job \cup {NoJob}]
        /\ \A id \in Jobs : /\ Placed(id) /\ Earned(id)
                            /\ (jobs[id] # NoJob => jobs[id] \in Job)
                            /\ (pending_commits[id] # NoJob => jobs[id] # NoJob /\ pending_commits[id] \in Job
                                  /\ pending_commits[id].status = jobs[id].status)
    BY FactsOK DEF PlacedInv, Sound, Waits, IInv, TypeOK
  <1>1. ASSUME NEW k \in Jobs, NEW command \in {"Pause", "Cancel", "Resume", "Retry"}, Transition(k, command)
        PROVE  \A id \in Jobs : KeepsPlace(id) /\ Earned(id)'
    <2>1. PICK r : r = Commanded(jobs[k], command)
      OBVIOUS
    <2>2. /\ jobs[k] # NoJob /\ jobs[k] \in Job /\ CommitJobs([i \in {k} |-> r])
          /\ published' = published /\ pending_commits' = pending_commits
      BY <1>0, <1>1, <2>1 DEF Transition, InMemory
    <2>3. r.position = jobs[k].position /\ r.status # "Completed"
      BY <2>1, <2>2, CommandedOK, CommandedPlace
    <2> DEFINE f == [i \in {k} |-> r]
    <2>4. CommitJobs(f) /\ \A id \in DOMAIN f \cap Jobs :
              /\ jobs[id] # NoJob /\ f[id].position = jobs[id].position
              /\ f[id].status = "Completed" => published[id] > 0
      BY <2>2, <2>3
    <2> HIDE DEF f
    <2> QED BY <2>2, <2>4, CommitPlaces
  <1>2. ASSUME NEW k \in Jobs, TransitionSavesResult(k)
        PROVE  \A id \in Jobs : KeepsPlace(id) /\ Earned(id)'
    <2>1. PICK r, v : /\ v = jobs[k].revision + 1
                      /\ r = [pending_commits[k] EXCEPT !.revision = v, !.persistence = "Saved"]
      OBVIOUS
    <2>2. /\ jobs[k] # NoJob /\ pending_commits[k] # NoJob /\ CommitJobs([i \in {k} |-> r])
          /\ published' = published /\ pending_commits' = [pending_commits EXCEPT ![k] = NoJob]
      BY <1>2, <2>1 DEF TransitionSavesResult, InMemory, Unsaved, history
    <2>3. r.position = jobs[k].position /\ r.status = jobs[k].status
      BY <1>0, <2>1, <2>2 DEF Job, Placed
    <2> DEFINE f == [i \in {k} |-> r]
    <2>4. CommitJobs(f) /\ \A id \in DOMAIN f \cap Jobs :
              /\ jobs[id] # NoJob /\ f[id].position = jobs[id].position
              /\ f[id].status = "Completed" => published[id] > 0
      BY <1>0, <2>2, <2>3 DEF Earned
    <2>5. \A id \in Jobs : pending_commits'[id] \in {pending_commits[id], NoJob}
      BY <1>0, <2>2
    <2> HIDE DEF f
    <2> QED BY <2>2, <2>4, <2>5, CommitPlaces
  <1>3. ASSUME NEW ids \in SUBSET InMemory, AdoptLegacy(ids)
        PROVE  \A id \in Jobs : KeepsPlace(id) /\ Earned(id)'
    <2> DEFINE f == [id \in ids |-> Adopted(jobs[id])]
    <2>1. /\ CommitJobs(f) /\ account \in Owners /\ published' = published /\ pending_commits' = pending_commits
      BY <1>3 DEF AdoptLegacy, PlacedInv, IInv, TypeOK, history
    <2>2. ASSUME NEW id \in ids
          PROVE  /\ jobs[id] # NoJob /\ f[id].position = jobs[id].position
                 /\ f[id].status = "Completed" => published[id] > 0
      <3>1. id \in Jobs /\ jobs[id] # NoJob /\ jobs[id] \in Job
        BY <1>0 DEF InMemory
      <3>2. Adopted(jobs[id]).position = jobs[id].position
            /\ (Adopted(jobs[id]).status = "Completed" => jobs[id].status = "Completed")
        BY <2>1, <3>1, AdoptedOK, AdoptedPlace
      <3> QED BY <1>0, <3>1, <3>2 DEF Earned
    <2>3. DOMAIN f = ids
      OBVIOUS
    <2> HIDE DEF f
    <2> QED BY <2>1, <2>2, <2>3, CommitPlaces
  <1> QED BY <1>1, <1>2, <1>3

(* A restart keeps the positions of the rows it recovers. *)
LEMMA RestartPlaces ==
    ASSUME PlacedInv, NEW left, Restart(left)
    PROVE  \A id \in Jobs : KeepsPlace(id) /\ Earned(id)'
  <1> TAKE id \in Jobs
  <1>1. /\ Placed(id) /\ Earned(id) /\ (disk[id] # NoJob => disk[id] \in Job)
        /\ (disk[id] # NoJob /\ id \notin Supervised => jobs[id] # NoJob)
    BY FactsOK DEF PlacedInv, Sound, Agree
  <1>2. /\ jobs'[id] = Recovered(id) /\ disk'[id] = Recovered(id) /\ pending_commits'[id] = NoJob
        /\ published' = published
    BY DEF Restart
  <1>3. CASE disk[id] = NoJob \/ id \in Supervised
    <2>1. Recovered(id) = NoJob
      BY <1>3 DEF Recovered
    <2> QED BY <1>2, <2>1 DEF KeepsPlace, Earned
  <1>4. CASE disk[id] # NoJob /\ id \notin Supervised
    <2>1. Recovered(id) = RecoverAfterRestart(disk[id])
      BY <1>4 DEF Recovered
    <2>2. /\ Recovered(id).position = disk[id].position
          /\ Recovered(id).status = "Completed" => disk[id].status = "Completed"
      BY <1>1, <1>4, <2>1, RecoveredPlace
    <2> QED BY <1>1, <1>2, <1>4, <2>2 DEF KeepsPlace, Earned, Placed
  <1> QED BY <1>3, <1>4

(* The records of the second half of schedule_once(). *)
LEMMA RetriedPlace ==
    ASSUME PlacedInv, NEW saved \in SUBSET Unsaved, NEW id \in saved
    PROVE  Retried(saved)[id].position = jobs[id].position
  <1> DEFINE p == pending_commits[id]
             q == [p EXCEPT !.persistence = "Saved"]
  <1>1. id \in Jobs /\ p # NoJob /\ Retried(saved)[id] = Bumped(q)
    BY DEF Unsaved, Retried
  <1>2. p \in Job /\ p.position = jobs[id].position
    BY <1>1, FactsOK DEF PlacedInv, Sound, Waits, Placed
  <1> HIDE DEF p
  <1>3. q \in Job /\ q.position = p.position
    BY <1>2 DEF Job
  <1> QED BY <1>1, <1>2, <1>3, BumpedPlace

(* The records and rows between the two halves of schedule_once(). *)
LEMMA HalfwayPlace ==
    ASSUME PlacedInv, NEW saved \in SUBSET Unsaved, NEW records, NEW rows,
           records = Inserted(jobs, Retried(saved)),
           rows = Upserted(disk, Retried(saved)), NEW id \in Jobs
    PROVE  /\ records[id] # NoJob <=> jobs[id] # NoJob
           /\ records[id] # NoJob => /\ records[id] \in Job
                                     /\ records[id].position = jobs[id].position
                                     /\ records[id].status = jobs[id].status
                                     /\ rows[id].position = jobs[id].position
           /\ rows[id] # NoJob => disk[id] # NoJob
           /\ rows[id] # NoJob /\ rows[id].status = "Completed" => published[id] > 0
  <1>1. DOMAIN Retried(saved) = saved
    BY DEF Retried
  <1>2. /\ Placed(id) /\ Earned(id) /\ jobs[id] \in Job \cup {NoJob} /\ NoJob \notin Job
        /\ (jobs[id] # NoJob => disk[id] # NoJob)
    BY FactsOK, NoJobAssumption DEF PlacedInv, Sound, Agree
  <1>3. CASE id \in saved
    <2>1. PICK r : r = Retried(saved)[id]
      OBVIOUS
    <2>2. /\ r \in Job /\ r.position = jobs[id].position /\ r.status = jobs[id].status
          /\ jobs[id] # NoJob
      BY <1>3, <2>1, RetriedOK, RetriedPlace DEF PlacedInv
    <2>3. records[id] = r /\ rows[id] \in {r, disk[id]}
      BY <1>1, <1>3, <2>1 DEF Inserted, Upserted, Stored
    <2> QED BY <1>2, <2>2, <2>3 DEF Placed, Earned
  <1>4. CASE id \notin saved
    <2>1. records[id] = jobs[id] /\ rows[id] = disk[id]
      BY <1>1, <1>4 DEF Inserted, Upserted
    <2> QED BY <1>2, <2>1 DEF Placed, Earned
  <1> QED BY <1>3, <1>4

(* schedule_once() moves nothing in the queue. *)
LEMMA SchedulePlaces ==
    ASSUME PlacedInv, NEW saved \in SUBSET Unsaved, NEW due, ScheduleOnce(saved, due)
    PROVE  \A id \in Jobs : KeepsPlace(id) /\ Earned(id)'
  <1> TAKE id \in Jobs
  <1>1. PICK records, rows, ids :
          /\ records = Inserted(jobs, Retried(saved)) /\ rows = Upserted(disk, Retried(saved))
          /\ ids = Chosen(records, due)
          /\ StartChosen(records, rows, ids) \/ StartFails(records, rows, ids)
    BY DEF ScheduleOnce
  <1>2. pending_commits' = Without(pending_commits, saved) /\ published' = published
    BY DEF ScheduleOnce, history
  <1>3. /\ records[id] # NoJob <=> jobs[id] # NoJob
        /\ records[id] # NoJob => /\ records[id] \in Job
                                  /\ records[id].position = jobs[id].position
                                  /\ records[id].status = jobs[id].status
                                  /\ rows[id].position = jobs[id].position
        /\ rows[id] # NoJob /\ rows[id].status = "Completed" => published[id] > 0
    BY <1>1, HalfwayPlace
  <1>4. /\ Placed(id) /\ Earned(id) /\ (pending_commits[id] # NoJob => jobs[id] # NoJob)
    BY FactsOK DEF PlacedInv, Sound, Waits
  <1>5. pending_commits'[id] \in {pending_commits[id], NoJob}
    BY <1>2 DEF Without
  <1>6. CASE id \notin ids
    <2>1. jobs'[id] = records[id] /\ disk'[id] = rows[id]
      BY <1>1, <1>6 DEF StartChosen, StartFails, Inserted, Upserted, Started, Parked
    <2> QED BY <1>2, <1>3, <1>4, <1>5, <2>1 DEF KeepsPlace, Placed, Earned
  <1>7. CASE id \in ids
    <2>1. records[id] \in Job /\ records[id] # NoJob
      BY <1>1, <1>3, <1>7, ChosenOK
    <2>2. PICK a, b : a = Started(records, ids)[id] /\ b = Parked(records, ids)[id]
      OBVIOUS
    <2>3. /\ a.position = records[id].position /\ a.status = "Active"
          /\ b.position = records[id].position /\ b.status = "Paused"
      BY <1>7, <2>1, <2>2, StartedOK, StartedPlace
    <2>4. /\ jobs'[id] \in {a, b} /\ disk'[id] \in {a, rows[id]}
      BY <1>1, <1>7, <2>2 DEF StartChosen, StartFails, Inserted, Upserted, Stored, Started, Parked
    <2> QED BY <1>2, <1>3, <1>4, <1>5, <2>1, <2>3, <2>4 DEF KeepsPlace, Placed, Earned
  <1> QED BY <1>6, <1>7

(* The new requests of a batch are numbered above what is queued and in    *)
(* their order.                                                            *)
LEMMA QueuePositions ==
    ASSUME NEW batch, IsFiniteSet(DOMAIN batch), DOMAIN batch \subseteq Nat,
           \A i, j \in DOMAIN batch : batch[i] = batch[j] => i = j,
           NEW last \in Nat, NEW i \in DOMAIN batch, jobs[batch[i]] = NoJob
    PROVE  /\ QueuePosition(batch, last, batch[i]) \in Nat
           /\ QueuePosition(batch, last, batch[i]) > last
           /\ \A j \in DOMAIN batch : jobs[batch[j]] = NoJob /\ j < i =>
                 QueuePosition(batch, last, batch[j]) < QueuePosition(batch, last, batch[i])
  <1> DEFINE before(k) == {j \in DOMAIN batch :
                             /\ jobs[batch[j]] = NoJob
                             /\ \E m \in DOMAIN batch : batch[m] = batch[k] /\ j <= m}
  <1>1. \A k \in DOMAIN batch : QueuePosition(batch, last, batch[k]) = last + Cardinality(before(k))
    BY DEF QueuePosition
  <1>2. \A k \in DOMAIN batch :
           before(k) = {j \in DOMAIN batch : jobs[batch[j]] = NoJob /\ j <= k}
    OBVIOUS
  <1>3. \A k \in DOMAIN batch : before(k) \in SUBSET DOMAIN batch
    OBVIOUS
  <1> HIDE DEF before
  <1>4. \A k \in DOMAIN batch : IsFiniteSet(before(k)) /\ Cardinality(before(k)) \in Nat
    BY <1>3, FS_Subset, FS_CardinalityType
  <1>5. i \in before(i)
    BY <1>2
  <1>6. Cardinality(before(i)) # 0
    BY <1>4, <1>5, FS_EmptySet
  <1>7. ASSUME NEW j \in DOMAIN batch, j < i
        PROVE  Cardinality(before(j)) < Cardinality(before(i))
    <2>1. before(j) \in SUBSET before(i) /\ i \notin before(j)
      BY <1>2, <1>7
    <2> QED BY <1>4, <1>5, <2>1, FS_Subset
  <1> QED BY <1>1, <1>4, <1>6, <1>7

(* A batch is queued behind everything, in its own order. *)
LEMMA EnqueuePlaces ==
    ASSUME PlacedInv, NEW batch, NEW last, Enqueue(batch, last),
           IsFiniteSet(DOMAIN batch), DOMAIN batch \subseteq Nat,
           BatchIds(batch) \subseteq Jobs,
           \A id \in BatchIds(batch) : id \in Supervised => supervisor[id] = "Idle"
    PROVE  PositionsDistinct' /\ \A id \in Jobs : Placed(id)' /\ Earned(id)'
  <1> DEFINE ids == BatchIds(batch)
             f == Batched(batch, last)
  <1>1. /\ CommitJobs(f) /\ IsLastPosition(last) /\ DOMAIN f = ids
        /\ \A i, j \in DOMAIN batch : batch[i] = batch[j] => i = j
        /\ UNCHANGED <<pending_commits, published>>
    BY DEF Enqueue, Batched, history
  <1>2. last \in Nat
    <2>1. CASE last = 0
      BY <2>1
    <2>2. CASE \E id \in InMemory : last = jobs[id].position
      BY <2>2 DEF PlacedInv, IInv, TypeOK, InMemory, Job
    <2> QED BY <1>1, <2>1, <2>2 DEF IsLastPosition
  <1>3. \A id \in ids : \/ jobs[id] # NoJob /\ f[id] = jobs[id]
                        \/ jobs[id] = NoJob /\ f[id] = NewJob(id, QueuePosition(batch, last, id))
    BY DEF Batched, InMemory
  <1> HIDE DEF f
  <1>4. ASSUME NEW i \in DOMAIN batch, jobs[batch[i]] = NoJob
        PROVE  /\ f[batch[i]].position = QueuePosition(batch, last, batch[i])
               /\ f[batch[i]].position > last
               /\ f[batch[i]].status # "Completed" /\ disk[batch[i]] = NoJob
    <2>1. PICK id \in ids : id = batch[i]
      BY DEF BatchIds
    <2>2. PICK q : q = QueuePosition(batch, last, id)
      OBVIOUS
    <2>3. q \in Nat /\ q > last
      BY <1>1, <1>2, <1>4, <2>1, <2>2, QueuePositions
    <2>4. NewJob(id, q).position = q /\ NewJob(id, q).status # "Completed"
      BY <2>3, NewJobOK DEF NewJob
    <2>5. disk[id] = NoJob
      BY <1>4, <2>1, FactsOK DEF PlacedInv, Sound, Agree, Call
    <2> QED BY <1>3, <1>4, <2>1, <2>2, <2>3, <2>4, <2>5
  <1>5. \A id \in Jobs :
           /\ jobs'[id] = IF id \in ids THEN f[id] ELSE jobs[id]
           /\ disk'[id] = disk[id] \/ (id \in ids /\ disk'[id] = f[id])
           /\ id \in ids /\ disk[id] = NoJob => disk'[id] = f[id]
    BY <1>1, CommitRow DEF CommitJobs, Inserted, PlacedInv, IInv, Upserted, Stored
  <1>6. \A id \in Jobs : /\ Placed(id) /\ Earned(id) /\ (pending_commits[id] # NoJob => jobs[id] # NoJob)
                         /\ (jobs[id] # NoJob => jobs[id].position \in Nat /\ jobs[id].position <= last)
    BY <1>1, FactsOK DEF PlacedInv, Sound, Waits, IsLastPosition, InMemory, Job
  <1>7. ASSUME NEW id \in Jobs PROVE Placed(id)' /\ Earned(id)'
    <2>1. CASE id \notin ids \/ jobs[id] # NoJob
      BY <1>1, <1>3, <1>5, <1>6, <2>1 DEF Placed, Earned
    <2>2. CASE id \in ids /\ jobs[id] = NoJob
      <3>1. f[id].status # "Completed" /\ disk[id] = NoJob
        BY <1>4, <2>2 DEF BatchIds
      <3> QED BY <1>1, <1>5, <1>6, <2>2, <3>1 DEF Placed, Earned
    <2> QED BY <2>1, <2>2
  <1>8. ASSUME NEW k \in Jobs, NEW id \in Jobs, k # id, jobs'[k] # NoJob, jobs'[id] # NoJob
        PROVE  jobs'[k].position # jobs'[id].position
    <2>1. \A j \in {k, id} : \/ jobs[j] # NoJob /\ jobs'[j] = jobs[j] /\ jobs[j].position \in Nat /\ jobs[j].position <= last
                             \/ jobs[j] = NoJob /\ j \in ids /\ jobs'[j] = f[j]
      BY <1>3, <1>5, <1>6, <1>8
    <2>2. CASE jobs[k] # NoJob /\ jobs[id] # NoJob
      BY <1>8, <2>1, <2>2 DEF PlacedInv, PositionsDistinct, InMemory
    <2>3. ASSUME NEW j \in ids, jobs[j] = NoJob
          PROVE  \E i \in DOMAIN batch : /\ j = batch[i] /\ f[j].position = QueuePosition(batch, last, batch[i])
                                         /\ f[j].position \in Nat /\ f[j].position > last
      <3>1. PICK i \in DOMAIN batch : j = batch[i]
        BY DEF BatchIds
      <3>2. QueuePosition(batch, last, batch[i]) \in Nat
        BY <1>1, <1>2, <2>3, <3>1, QueuePositions
      <3> QED BY <1>4, <2>3, <3>1, <3>2
    <2>4. CASE jobs[k] = NoJob /\ jobs[id] # NoJob
      BY <1>2, <2>1, <2>3, <2>4
    <2>5. CASE jobs[k] # NoJob /\ jobs[id] = NoJob
      BY <1>2, <2>1, <2>3, <2>5
    <2>6. CASE jobs[k] = NoJob /\ jobs[id] = NoJob
      <3>1. PICK i \in DOMAIN batch : k = batch[i] /\ f[k].position = QueuePosition(batch, last, batch[i]) /\ f[k].position \in Nat
        BY <2>1, <2>3, <2>6
      <3>2. PICK j \in DOMAIN batch : id = batch[j] /\ f[id].position = QueuePosition(batch, last, batch[j]) /\ f[id].position \in Nat
        BY <2>1, <2>3, <2>6
      <3>3. i < j \/ j < i
        BY <1>8, <3>1, <3>2
      <3>4. CASE i < j
        <4>1. f[k].position < f[id].position
          BY <1>1, <1>2, <2>6, <3>1, <3>2, <3>4, QueuePositions
        <4> QED BY <2>1, <2>6, <3>1, <3>2, <4>1
      <3>5. CASE j < i
        <4>1. f[id].position < f[k].position
          BY <1>1, <1>2, <2>6, <3>1, <3>2, <3>5, QueuePositions
        <4> QED BY <2>1, <2>6, <3>1, <3>2, <4>1
      <3> QED BY <3>3, <3>4, <3>5
    <2> QED BY <2>2, <2>4, <2>5, <2>6
  <1>9. PositionsDistinct'
    BY <1>8 DEF PositionsDistinct, InMemory
  <1> QED BY <1>7, <1>9

(* What an operation or a supervisor was told. *)
LEMMA ClaimFrame ==
    ASSUME PlacedInv,
           \A id \in Jobs :
              /\ task'[id] = task[id] \/ task'[id].pc \notin {"Acked", "Returned"}
              /\ supervisor'[id] \in {supervisor[id], "Idle", "Waiting", "Err", "Settling", "Done"}
              /\ published'[id] = published[id]
    PROVE  \A id \in Jobs : Claimed(id)'
  BY DEF PlacedInv, Claimed

(* An operation answers Ok, or is acknowledged, only after a publication. *)
LEMMA OperationClaims ==
    ASSUME PlacedInv, NEW k \in Jobs,
           \/ ExecuteStart(k) \/ ObserveCancel(k)
           \/ \E outcome \in {"Acked", "Unacked"} : Publish(k, outcome)
           \/ SendAgain(k) \/ ReportPublished(k)
           \/ \E error \in Errors : OperationFails(k, error)
    PROVE  /\ \A id \in Jobs : Claimed(id)'
           /\ \A id \in Jobs : published'[id] \in Nat /\ published'[id] >= published[id]
           /\ UNCHANGED <<jobs, disk, pending_commits>>
  <1>1. /\ task \in [Jobs -> Task] /\ published \in [Jobs -> Nat] /\ \A id \in Jobs : Claimed(id)
        /\ task[k] \in Task
    BY DEF PlacedInv, IInv, TypeOK
  <1>2. PICK to : task' = [task EXCEPT ![k] = to] /\ UNCHANGED <<jobs, disk, pending_commits, supervisor>>
                  /\ \/ /\ published' = published
                        /\ to.pc = "Acked" => FALSE
                        /\ to.pc = "Returned" /\ to.answer = "Ok" => task[k].pc = "Acked"
                     \/ published' = [published EXCEPT ![k] = @ + 1]
    <2>1. CASE ExecuteStart(k)
      <3>1. PICK to : /\ to \in {[task[k] EXCEPT !.pc = "Running", !.guard = "Valid"],
                                 [task[k] EXCEPT !.pc = "Returned", !.answer = "Account"]}
                      /\ task' = [task EXCEPT ![k] = to] /\ published' = published
                      /\ UNCHANGED <<jobs, disk, pending_commits, supervisor>>
        BY <2>1 DEF ExecuteStart, Operation, store
      <3>2. to.pc # "Acked" /\ (to.pc = "Returned" => to.answer # "Ok")
        BY <1>1, <3>1 DEF Task
      <3> QED BY <3>1, <3>2
    <2>2. CASE ObserveCancel(k) \/ \E error \in Errors : OperationFails(k, error)
      <3>1. PICK error, to : /\ error \in Errors /\ to = [task[k] EXCEPT !.pc = "Returned", !.answer = error]
                      /\ task' = [task EXCEPT ![k] = to] /\ published' = published
                      /\ UNCHANGED <<jobs, disk, pending_commits, supervisor>>
        BY <2>2 DEF ObserveCancel, OperationFails, Operation, store, Errors
      <3>2. to.pc = "Returned" /\ to.answer # "Ok"
        BY <1>1, <3>1 DEF Task, Errors
      <3> QED BY <3>1, <3>2
    <2>3. CASE \E outcome \in {"Acked", "Unacked"} : Publish(k, outcome)
      BY <2>3 DEF Publish, Operation, store
    <2>4. CASE SendAgain(k)
      <3>1. PICK to : /\ to = [task[k] EXCEPT !.pc = "Running"]
                      /\ task' = [task EXCEPT ![k] = to] /\ published' = published
                      /\ UNCHANGED <<jobs, disk, pending_commits, supervisor>>
        BY <2>4 DEF SendAgain, Operation, store
      <3>2. to.pc = "Running"
        BY <1>1, <3>1 DEF Task
      <3> QED BY <3>1, <3>2
    <2>5. CASE ReportPublished(k)
      <3>1. PICK answer, to : /\ to = [task[k] EXCEPT !.pc = "Returned", !.answer = answer]
                      /\ task' = [task EXCEPT ![k] = to] /\ published' = published
                      /\ UNCHANGED <<jobs, disk, pending_commits, supervisor>> /\ task[k].pc = "Acked"
        BY <2>5 DEF ReportPublished, Operation, store
      <3>2. to.pc = "Returned"
        BY <1>1, <3>1 DEF Task
      <3> QED BY <3>1, <3>2
    <2> QED BY <2>1, <2>2, <2>3, <2>4, <2>5
  <1>3. \A id \in Jobs : published'[id] \in Nat /\ published'[id] >= published[id]
                         /\ (id = k /\ published' # published => published'[id] > 0)
                         /\ task'[id] = (IF id = k THEN to ELSE task[id]) /\ supervisor'[id] = supervisor[id]
    BY <1>1, <1>2
  <1>4. \A id \in Jobs : published[id] > 0 => published'[id] > 0
    BY <1>1, <1>3
  <1>5. ASSUME NEW id \in Jobs PROVE Claimed(id)'
    BY <1>1, <1>2, <1>3, <1>4 DEF Claimed
  <1> QED BY <1>2, <1>3, <1>5

(* Every step keeps the positions and the publications. *)
LEMMA PlacedStep == PlacedInv /\ [Next]_vars => PlacedInv'
  <1> SUFFICES ASSUME PlacedInv, [Next]_vars PROVE PlacedInv'
    OBVIOUS
  <1> DEFINE Places == PositionsDistinct' /\ \A id \in Jobs : Placed(id)' /\ Earned(id)'
             Claims == \A id \in Jobs : Claimed(id)'
  <1>0. IInv' /\ TypeOK
    BY StepOK DEF PlacedInv, IInv
  <1>1. (\A id \in Jobs : KeepsPlace(id) /\ Earned(id)') => Places
    BY KeptPlaces
  <1>2. /\ (\A id \in Jobs : published[id] \in Nat)
        /\ (\A id \in Jobs : jobs[id] # NoJob => disk[id] # NoJob)
        /\ NoTask.pc = "None" /\ task \in [Jobs -> Task]
        /\ supervisor \in [Jobs -> Supervising \cup {"Idle", "Settling", "Done"}]
        /\ pending_commits \in [Jobs -> Job \cup {NoJob}]
    BY <1>0, FactsOK DEF TypeOK, PlacedInv, Sound, Agree, NoTask
  <1> HIDE DEF NoTask
  <1>3. ASSUME UNCHANGED <<jobs, disk, pending_commits>>,
               \A id \in Jobs : published'[id] \in Nat /\ published'[id] >= published[id]
        PROVE  Places
    BY <1>1, <1>2, <1>3, RemovalPlaces
  <1>4. ASSUME NEW k \in Jobs,
               \/ ExecuteStart(k) \/ ObserveCancel(k)
               \/ \E outcome \in {"Acked", "Unacked"} : Publish(k, outcome)
               \/ SendAgain(k) \/ ReportPublished(k)
               \/ \E error \in Errors : OperationFails(k, error)
        PROVE  Places /\ Claims
    BY <1>3, <1>4, OperationClaims
  <1>5. ASSUME NEW k \in Jobs, FinishRemoved(k) \/ FinishSaved(k) \/ FinishUnsaved(k)
        PROVE  Places /\ Claims
    <2>1. Finish(k) /\ published' = published /\ supervisor' = supervisor
      BY <1>5 DEF FinishRemoved, FinishSaved, FinishUnsaved, Finish, history
    <2>2. Claims
      BY <1>2, <2>1, FinishOK, ClaimFrame DEF PlacedInv
    <2>3. CASE FinishRemoved(k)
      BY <1>2, <1>3, <2>1, <2>2, <2>3 DEF FinishRemoved
    <2>4. CASE FinishSaved(k) \/ FinishUnsaved(k)
      BY <1>1, <2>2, <2>4, FinishPlaces
    <2> QED BY <1>5, <2>3, <2>4
  <1>6. ASSUME \/ \E k \in Jobs : RecordProgress(k)
               \/ \E k \in Jobs, command \in {"Pause", "Cancel", "Resume", "Retry"} :
                     Transition(k, command)
               \/ \E k \in Jobs : TransitionSavesResult(k)
               \/ \E ids \in SUBSET InMemory : AdoptLegacy(ids)
        PROVE  Places /\ Claims
    <2>1. UNCHANGED <<task, supervisor, published>>
      BY <1>6 DEF RecordProgress, Transition, TransitionSavesResult, AdoptLegacy, history
    <2>2. Claims
      BY <2>1, ClaimFrame
    <2> QED BY <1>1, <1>6, <2>2, ProgressPlaces, CommandPlaces
  <1>7. ASSUME NEW ids, DeleteMany(ids), jobs' = Without(jobs, ids), UNCHANGED <<task, supervisor, published, pending_commits>>
        PROVE  Places /\ Claims
    <2>1. \A id \in Jobs : /\ jobs'[id] = IF id \in ids THEN NoJob ELSE jobs[id]
                           /\ disk'[id] = IF id \in ids THEN NoJob ELSE disk[id]
      BY <1>7 DEF DeleteMany, Without
    <2> QED BY <1>1, <1>2, <1>7, <2>1, ClaimFrame, RemovalPlaces
  <1>8. ASSUME NEW k \in Jobs, Withdraw(k)
        PROVE  Places /\ Claims
    <2>1. /\ UNCHANGED <<task, published>> /\ supervisor' = [supervisor EXCEPT ![k] =
                          IF k \in active THEN "Settling" ELSE "Done"]
          /\ jobs' = Without(jobs, {k}) /\ disk' \in {disk, Without(disk, {k})}
          /\ pending_commits' = [pending_commits EXCEPT ![k] = NoJob]
      BY <1>8 DEF Withdraw, history, DeleteMany
    <2>2. \A id \in Jobs : /\ jobs'[id] = IF id = k THEN NoJob ELSE jobs[id]
                           /\ disk'[id] = disk[id] \/ (id = k /\ disk'[id] = NoJob)
                           /\ pending_commits'[id] \in {pending_commits[id], NoJob}
                           /\ supervisor'[id] \in {supervisor[id], "Settling", "Done"}
      BY <1>2, <2>1 DEF Without
    <2>3. Claims
      BY <2>1, <2>2, ClaimFrame
    <2>4. \A id \in Jobs : published'[id] = published[id] /\ jobs'[id] \in {jobs[id], NoJob}
      BY <2>1, <2>2
    <2>5. \A id \in Jobs : KeepsPlace(id) /\ Earned(id)'
      BY <1>2, <2>2, <2>4, RemovalPlaces
    <2> QED BY <1>1, <2>3, <2>5
  <1>9. ASSUME NEW k \in Jobs, NEW verdict \in {"Ok", "Err"}, Decide(k, verdict)
        PROVE  Places /\ Claims
    <2>1. /\ UNCHANGED <<jobs, disk, pending_commits, task, published>>
          /\ supervisor' = [supervisor EXCEPT ![k] = verdict]
          /\ verdict = "Ok" => jobs[k] # NoJob /\ jobs[k].status = "Completed"
      BY <1>9 DEF Decide, store, history, InMemory
    <2>2. \A id \in Jobs : supervisor'[id] = IF id = k THEN verdict ELSE supervisor[id]
      BY <1>2, <2>1
    <2>3. Claims
      BY <2>1, <2>2 DEF PlacedInv, Claimed, Earned
    <2> QED BY <1>2, <1>3, <2>1, <2>3
  <1>10. ASSUME NEW left, Restart(left)
         PROVE  Places /\ Claims
    <2>1. \A id \in Jobs : /\ task'[id] = NoTask /\ supervisor'[id] \in {"Idle", "Done"}
                           /\ published'[id] = published[id]
      BY <1>10 DEF Restart
    <2> QED BY <1>1, <1>2, <1>10, <2>1, ClaimFrame, RestartPlaces
  <1>11. ASSUME NEW saved \in SUBSET Unsaved, NEW due, ScheduleOnce(saved, due)
         PROVE  Places /\ Claims
    <2>1. PICK records, rows, ids : StartChosen(records, rows, ids)
                                    \/ StartFails(records, rows, ids)
      BY <1>11 DEF ScheduleOnce
    <2>2. supervisor' = supervisor /\ published' = published
      BY <1>11 DEF ScheduleOnce, history
    <2>3. ASSUME NEW id \in Jobs
          PROVE  task'[id] = task[id] \/ task'[id].pc \notin {"Acked", "Returned"}
      <3> DEFINE o == records[id].owner
      <3>1. [NoTask EXCEPT !.pc = "Spawned", !.owner = o].pc = "Spawned"
        BY DEF NoTask
      <3> QED BY <2>1, <3>1 DEF StartChosen, StartFails, Spawned
    <2> QED BY <1>1, <1>11, <2>2, <2>3, ClaimFrame, SchedulePlaces
  <1>12. ASSUME NEW batch \in Batches, NEW last, EnqueueMany(batch, last)
         PROVE  Places /\ Claims
    <2>1. PICK n \in 1..MaxBatch : batch \in [1..n -> Jobs]
      BY <1>12 DEF Batches
    <2>2. n \in Int /\ DOMAIN batch = 1..n /\ DOMAIN batch \subseteq Nat
      BY <2>1, TransferAssumption DEF TransferAssumption
    <2>3. IsFiniteSet(DOMAIN batch) /\ BatchIds(batch) \subseteq Jobs
      BY <2>1, <2>2, FS_Interval DEF BatchIds
    <2>4. /\ Enqueue(batch, last) /\ UNCHANGED <<task, supervisor, published>>
          /\ \A id \in BatchIds(batch) : id \notin Supervised
      BY <1>12 DEF EnqueueMany, Enqueue, history
    <2> QED BY <2>2, <2>3, <2>4, ClaimFrame, EnqueuePlaces
  <1>13. ASSUME NEW k \in Jobs, NEW last, RunSupervised(k, last)
         PROVE  Places /\ Claims
    <2> DEFINE batch == [i \in {1} |-> k]
    <2>1. /\ Enqueue(batch, last) /\ UNCHANGED <<task, published>> /\ supervisor[k] = "Idle"
          /\ supervisor' = [supervisor EXCEPT ![k] = "Waiting"]
      BY <1>13 DEF RunSupervised, Enqueue, history
    <2>2. DOMAIN batch = {1} /\ BatchIds(batch) = {k}
      BY DEF BatchIds
    <2>3. IsFiniteSet(DOMAIN batch) /\ DOMAIN batch \subseteq Nat
      <3>1. IsFiniteSet({1})
        BY FS_Singleton
      <3>2. {1} \subseteq Nat
        OBVIOUS
      <3> HIDE DEF batch
      <3> QED BY <2>2, <3>1, <3>2
    <2>4. \A id \in Jobs : supervisor'[id] \in {supervisor[id], "Waiting"}
      BY <1>2, <2>1
    <2> HIDE DEF batch
    <2> QED BY <2>1, <2>2, <2>3, <2>4, ClaimFrame, EnqueuePlaces
  <1>14. ASSUME \/ UNCHANGED vars
                \/ \E to : SetLimits(to)
                \/ Logout
                \/ \E owner : SignIn(owner)
                \/ Reconnect
                \/ BeginShutdown
                \/ \E k \in Jobs : WithdrawReturns(k)
         PROVE  Places /\ Claims
    <2>1. /\ UNCHANGED <<jobs, disk, pending_commits, task, published>>
          /\ supervisor' = supervisor \/ \E k : supervisor' = [supervisor EXCEPT ![k] = "Done"]
      BY <1>14 DEF vars, SetLimits, Logout, SignIn, Reconnect, BeginShutdown, WithdrawReturns, store, history
    <2>2. \A id \in Jobs : supervisor'[id] \in {supervisor[id], "Done"}
      BY <1>2, <2>1
    <2> QED BY <1>2, <1>3, <2>1, <2>2, ClaimFrame
  <1>15. ASSUME Suspend
         PROVE  Places /\ Claims
    <2>1. /\ UNCHANGED <<jobs, disk, pending_commits, supervisor, published>>
          /\ task' = [id \in Jobs |-> [task[id] EXCEPT !.guard = "Stale"]]
      BY <1>15 DEF Suspend, store, history
    <2>2. ASSUME NEW id \in Jobs PROVE task'[id].pc = task[id].pc /\ task'[id].answer = task[id].answer
      <3>1. PICK t, to : t = task[id] /\ to = task'[id]
        OBVIOUS
      <3>2. t \in Task /\ to = [t EXCEPT !.guard = "Stale"]
        BY <1>2, <2>1, <3>1
      <3>3. to.pc = t.pc /\ to.answer = t.answer
        BY <3>2 DEF Task
      <3> QED BY <3>1, <3>3
    <2>3. Claims
      BY <2>1, <2>2 DEF PlacedInv, Claimed
    <2> QED BY <1>2, <1>3, <2>1, <2>3
  <1>16. ASSUME \/ \E direction, statuses : ClearTerminal(direction, statuses)
                \/ \E ids \in SUBSET InMemory : DiscardLegacy(ids)
         PROVE  Places /\ Claims
    BY <1>7, <1>16 DEF ClearTerminal, DiscardLegacy, history
  <1>17. Places /\ Claims
    BY <1>4, <1>5, <1>6, <1>8, <1>9, <1>10, <1>11, <1>12, <1>13, <1>14, <1>15, <1>16 DEF Next
  <1> QED BY <1>0, <1>17 DEF PlacedInv

(* The empty queue has both. *)
LEMMA PlacedStarts == Init => PlacedInv
  <1> SUFFICES ASSUME Init PROVE PlacedInv
    OBVIOUS
  <1>1. /\ IInv
        /\ \A id \in Jobs : /\ jobs[id] = NoJob /\ disk[id] = NoJob /\ task[id] = NoTask
                            /\ supervisor[id] = "Idle"
    BY InitOK DEF Init
  <1>2. NoTask.pc = "None"
    BY DEF NoTask
  <1> QED BY <1>1, <1>2 DEF PlacedInv, PositionsDistinct, InMemory, Placed, Earned, Claimed

(* Through every interleaving, failing write, account change and restart:  *)
(* the queue's own invariant, guards of the signed-in account only,        *)
(* distinct queue positions, and success reported to a supervisor only for *)
(* content that was published.                                             *)
THEOREM SupervisedInvariant == Spec => []SupervisedInv
  <1>1. Spec => []PlacedInv
    BY PlacedStarts, PlacedStep, PTL DEF Spec
  <1>2. PlacedInv => QueueInv /\ PositionsDistinct /\ SuccessIsPublished
    BY SafetyOK, TransferAssumption DEF QueueInv, PlacedInv, SuccessIsPublished, Claimed, TransferAssumption
  <1>3. PlacedInv /\ OwnAccountOnly => SupervisedInv
    BY <1>2 DEF SupervisedInv
  <1> QED BY <1>1, <1>3, OwnAccount, PTL

-----------------------------------------------------------------------------
(***************************************************************************)
(* Transfers that are done.  An id whose operation answered Ok is about to *)
(* report it, or completed, or removed for good; and the id of a call of   *)
(* Folder Sync is not used by another one.                                 *)
(***************************************************************************)
Spent(id) ==
    id \in succeeded =>
        IF id \in active THEN task[id].pc = "Returned" /\ task[id].answer = "Ok"
        ELSE IF jobs[id] # NoJob THEN jobs[id].status = "Completed"
        ELSE id \in Supervised \cup tombstones

Taken(id) ==
    id \in Supervised /\ id \in active \cup succeeded => supervisor[id] # "Idle"

SpentInv == PlacedInv /\ \A id \in Jobs : Spent(id) /\ Taken(id)

(* What the proof needs of an id. *)
LEMMA SpentFacts ==
    ASSUME SpentInv, NEW id \in Jobs
    PROVE  /\ IInv /\ Spent(id) /\ Taken(id)
           /\ id \in active <=> task[id].pc # "None"
           /\ jobs[id] = NoJob /\ id \in active => id \in Supervised \cup tombstones
           /\ jobs[id] # NoJob => jobs[id] \in Job
           /\ id \in tombstones => jobs[id] = NoJob
           /\ supervisor[id] # "Idle" => id \in Supervised
           /\ NoJob \notin Job
  BY FactsOK, NoJobAssumption DEF SpentInv, PlacedInv, IInv, TypeOK, Sound, Gone, Call

(* How a step may treat the record of an id: leave it as completed as it   *)
(* was, remove it for good, or queue one that was never used.              *)
KeepsRecord(id) ==
    \/ jobs[id] = NoJob /\ jobs'[id] = NoJob
    \/ /\ jobs[id] # NoJob /\ jobs'[id] # NoJob
       /\ jobs[id].status = "Completed" => jobs'[id].status = "Completed"
    \/ jobs'[id] = NoJob /\ id \in Supervised \cup tombstones'
    \/ jobs[id] = NoJob /\ id \notin Supervised \cup tombstones
    \/ jobs[id] = NoJob /\ id \in Supervised /\ supervisor[id] = "Idle"

(* A step of other processes, and of another id, leaves a done id done. *)
LEMMA SpentFrame ==
    ASSUME SpentInv, NEW id \in Jobs, KeepsRecord(id),
           id \in succeeded' => id \in succeeded,
           id \in active' <=> id \in active,
           task'[id].pc = task[id].pc /\ task'[id].answer = task[id].answer,
           id \in tombstones => id \in tombstones',
           supervisor[id] # "Idle" => supervisor'[id] # "Idle"
    PROVE  Spent(id)' /\ Taken(id)'
  <1>1. /\ Spent(id) /\ Taken(id)
        /\ jobs[id] = NoJob /\ id \in active => id \in Supervised \cup tombstones
    BY SpentFacts
  <1> QED BY <1>1 DEF Spent, Taken, KeepsRecord

(* Written records that were completed stay so. *)
LEMMA CommitSpent ==
    ASSUME SpentInv, NEW f, CommitJobs(f), NEW id \in Jobs,
           id \in DOMAIN f => /\ jobs[id] # NoJob /\ f[id] # NoJob
                              /\ jobs[id].status = "Completed" => f[id].status = "Completed"
    PROVE  KeepsRecord(id)
  BY DEF CommitJobs, Inserted, KeepsRecord

(* A queued record was queued before, or its id was never used. *)
LEMMA EnqueueSpent ==
    ASSUME SpentInv, NEW batch, NEW last, Enqueue(batch, last), NEW id \in Jobs,
           id \in BatchIds(batch) /\ id \in Supervised => supervisor[id] = "Idle"
    PROVE  KeepsRecord(id)
  <1> DEFINE f == Batched(batch, last)
  <1>1. DOMAIN f = BatchIds(batch) /\ (id \in DOMAIN f /\ jobs[id] # NoJob => f[id] = jobs[id])
    BY DEF Batched, InMemory
  <1>2. CommitJobs(f)
    BY DEF Enqueue
  <1> HIDE DEF f
  <1>3. id \in DOMAIN f => id \notin tombstones
    BY <1>2 DEF CommitJobs, Writable
  <1>4. jobs'[id] = IF id \in DOMAIN f THEN f[id] ELSE jobs[id]
    BY <1>2 DEF CommitJobs, Inserted
  <1> QED BY <1>1, <1>3, <1>4 DEF KeepsRecord

(* An operation becomes done when it reports its publication. *)
LEMMA OperationSpent ==
    ASSUME SpentInv, NEW k \in Jobs,
           \/ ExecuteStart(k) \/ ObserveCancel(k)
           \/ \E outcome \in {"Acked", "Unacked"} : Publish(k, outcome)
           \/ SendAgain(k) \/ ReportPublished(k)
           \/ \E error \in Errors : OperationFails(k, error)
    PROVE  \A id \in Jobs : Spent(id)' /\ Taken(id)'
  <1>1. /\ task \in [Jobs -> Task] /\ task[k] \in Task
        /\ Spent(k) /\ Taken(k) /\ (k \in active <=> task[k].pc # "None")
    BY SpentFacts DEF IInv, TypeOK
  <1>2. /\ task[k].pc \notin {"None", "Returned"}
        /\ UNCHANGED <<jobs, tombstones, active, supervisor>>
    BY DEF ExecuteStart, ObserveCancel, Publish, SendAgain, ReportPublished, OperationFails, Operation, store
  <1>3. PICK to : /\ task' = [task EXCEPT ![k] = to]
                  /\ \/ succeeded' = succeeded
                     \/ succeeded' = succeeded \cup {k} /\ to.pc = "Returned" /\ to.answer = "Ok"
    <2>1. CASE ReportPublished(k) /\ task[k].guard = "Valid"
      <3>1. PICK to : to = [task[k] EXCEPT !.pc = "Returned", !.answer = "Ok"]
        OBVIOUS
      <3>2. task' = [task EXCEPT ![k] = to] /\ succeeded' = succeeded \cup {k}
        BY <2>1, <3>1 DEF ReportPublished, Operation
      <3>3. to.pc = "Returned" /\ to.answer = "Ok"
        BY <1>1, <3>1 DEF Task
      <3> QED BY <3>2, <3>3
    <2>2. CASE ReportPublished(k) /\ task[k].guard # "Valid"
      BY <2>2 DEF ReportPublished, Operation
    <2>3. CASE \/ ExecuteStart(k) \/ ObserveCancel(k)
               \/ \E outcome \in {"Acked", "Unacked"} : Publish(k, outcome)
               \/ SendAgain(k)
               \/ \E error \in Errors : OperationFails(k, error)
      BY <2>3 DEF ExecuteStart, ObserveCancel, Publish, SendAgain, OperationFails, Operation
    <2> QED BY <2>1, <2>2, <2>3
  <1>4. k \in active /\ k \notin succeeded
    BY <1>1, <1>2 DEF Spent
  <1>5. task'[k] = to /\ \A id \in Jobs : id # k => task'[id] = task[id]
    BY <1>1, <1>3
  <1>6. ASSUME NEW id \in Jobs, id # k PROVE Spent(id)' /\ Taken(id)'
    <2>1. KeepsRecord(id)
      BY <1>2 DEF KeepsRecord
    <2> QED BY <1>2, <1>3, <1>5, <1>6, <2>1, SpentFrame
  <1>7. Spent(k)' /\ Taken(k)'
    BY <1>1, <1>2, <1>3, <1>4, <1>5 DEF Spent, Taken
  <1> QED BY <1>6, <1>7

(* A published result is a completed record. *)
LEMMA ResultCompleted ==
    ASSUME IInv, NEW id \in Jobs, jobs[id] # NoJob, task[id].pc = "Returned",
           task[id].answer = "Ok"
    PROVE  Result(id) \in Job /\ Result(id).status = "Completed"
  <1>1. jobs[id] \in Job /\ Result(id) \in Job
    BY FactsOK, ResultOK
  <1> DEFINE settled == [jobs[id] EXCEPT !.status = "Completed", !.category = "None",
                                         !.retries = 0]
             saved == [settled EXCEPT !.persistence = "Saved"]
  <1>2. Result(id) = Bumped(saved)
    BY DEF Result, Settled
  <1>3. settled \in Job /\ settled.status = "Completed"
    BY <1>1 DEF Job, Status, Terminal, Category
  <1> HIDE DEF settled
  <1>4. saved \in Job /\ saved.status = "Completed"
    BY <1>3 DEF Job
  <1> HIDE DEF saved
  <1> QED BY <1>1, <1>2, <1>4, BumpedOK

(* A done transfer is completed when its operation ends. *)
LEMMA FinishSpent ==
    ASSUME SpentInv, NEW k \in Jobs, FinishRemoved(k) \/ FinishSaved(k) \/ FinishUnsaved(k)
    PROVE  \A id \in Jobs : Spent(id)' /\ Taken(id)'
  <1>1. Finish(k) /\ UNCHANGED <<tombstones, supervisor, succeeded>>
    BY DEF FinishRemoved, FinishSaved, FinishUnsaved, Finish, history
  <1>2. /\ k \in active /\ active' = active \ {k} /\ task[k].pc = "Returned"
        /\ \A id \in Jobs : id # k => task'[id] = task[id]
    BY <1>1, FinishOK DEF SpentInv, PlacedInv, Finish
  <1>3. PICK r, m : r = Result(k) /\ m = [r EXCEPT !.persistence = "Pending", !.category = "Persistence"]
    OBVIOUS
  <1>4. /\ jobs[k] # NoJob => r \in Job
        /\ jobs[k] # NoJob /\ task[k].answer = "Ok" => r.status = "Completed"
    BY <1>2, <1>3, ResultOK, ResultCompleted, SpentFacts
  <1>5. jobs[k] # NoJob => m \in Job /\ m.status = r.status
    BY <1>3, <1>4 DEF Job, Category
  <1>6. /\ jobs \in [Jobs -> Job \cup {NoJob}] /\ NoJob \notin Job
        /\ Spent(k) /\ Taken(k)
        /\ jobs[k] = NoJob /\ k \in active => k \in Supervised \cup tombstones
    BY SpentFacts DEF IInv, TypeOK
  <1>7. \/ jobs' = jobs /\ jobs[k] = NoJob
        \/ jobs[k] # NoJob /\ \E to \in {r, m} : \A id \in Jobs : jobs'[id] = IF id = k THEN to ELSE jobs[id]
    <2>1. CASE FinishRemoved(k)
      BY <2>1 DEF FinishRemoved, InMemory
    <2>2. CASE FinishSaved(k)
      BY <2>2, <1>3 DEF FinishSaved, CommitJobs, Inserted, InMemory
    <2>3. CASE FinishUnsaved(k)
      <3>1. jobs' = [jobs EXCEPT ![k] = m] /\ jobs[k] # NoJob
        BY <2>3, <1>3 DEF FinishUnsaved, InMemory
      <3> QED BY <1>6, <3>1
    <2> QED BY <2>1, <2>2, <2>3
  <1>8. ASSUME NEW id \in Jobs, id # k PROVE Spent(id)' /\ Taken(id)'
    <2>1. KeepsRecord(id)
      BY <1>7, <1>8 DEF KeepsRecord
    <2>2. task'[id] = task[id] /\ (id \in active' <=> id \in active)
      BY <1>2, <1>8
    <2> QED BY <1>1, <2>1, <2>2, SpentFrame
  <1>9. Spent(k)' /\ Taken(k)'
    BY <1>1, <1>2, <1>4, <1>5, <1>6, <1>7 DEF Spent, Taken
  <1> QED BY <1>8, <1>9

(* The scheduler starts no done transfer. *)
LEMMA ScheduleSpent ==
    ASSUME SpentInv, NEW saved \in SUBSET Unsaved, NEW due, ScheduleOnce(saved, due),
           NEW id \in Jobs
    PROVE  Spent(id)' /\ Taken(id)' /\ (id \in active' \ active => id \notin succeeded)
  <1>1. PICK records, rows, ids :
          /\ records = Inserted(jobs, Retried(saved)) /\ rows = Upserted(disk, Retried(saved))
          /\ ids = Chosen(records, due)
          /\ StartChosen(records, rows, ids) \/ StartFails(records, rows, ids)
    BY DEF ScheduleOnce
  <1>2. /\ pending_commits' = Without(pending_commits, saved)
        /\ CleanUp({k \in saved : pending_commits[k].status = "Completed"})
        /\ UNCHANGED <<tombstones, supervisor, succeeded>>
    BY DEF ScheduleOnce, history
  <1>3. /\ records[id] # NoJob <=> jobs[id] # NoJob
        /\ records[id] # NoJob => records[id].status = jobs[id].status
    BY <1>1, HalfwayPlace DEF SpentInv
  <1>4. Call(id, records[id], rows[id], supervisor[id])
    BY <1>1, <1>2, HalfwayOK, SpentFacts
  <1>5. CASE id \notin ids
    <2>1. /\ jobs'[id] = records[id] /\ task'[id] = task[id]
          /\ id \in active' <=> id \in active
      BY <1>1, <1>5 DEF StartChosen, StartFails, Inserted, Started, Parked, Spawned,
                        SpentInv, PlacedInv, IInv, TypeOK
    <2>2. KeepsRecord(id)
      BY <1>3, <2>1 DEF KeepsRecord
    <2> QED BY <1>2, <2>1, <2>2, SpentFrame
  <1>6. CASE id \in ids
    <2>1. id \notin active /\ records[id] # NoJob /\ records[id].status # "Completed"
      BY <1>1, <1>6, ChosenOK
    <2>2. id \notin succeeded
      BY <1>3, <2>1, SpentFacts DEF Spent
    <2>3. id \in Supervised => supervisor[id] # "Idle"
      BY <1>4, <2>1 DEF Call, Supervising
    <2> QED BY <1>2, <2>2, <2>3 DEF Spent, Taken
  <1> QED BY <1>5, <1>6

(* Commands and progress complete nothing that was reopened. *)
LEMMA CommandSpent ==
    ASSUME SpentInv,
           \/ \E k \in Jobs : RecordProgress(k)
           \/ \E k \in Jobs, command \in {"Pause", "Cancel", "Resume", "Retry"} :
                 Transition(k, command)
           \/ \E k \in Jobs : TransitionSavesResult(k)
           \/ \E ids \in SUBSET InMemory : AdoptLegacy(ids)
    PROVE  \A id \in Jobs : KeepsRecord(id)
  <1> TAKE id \in Jobs
  <1>1. ASSUME NEW k \in Jobs, RecordProgress(k)
        PROVE  KeepsRecord(id)
    <2>1. PICK r : r = Bumped(jobs[k])
      OBVIOUS
    <2>2. /\ jobs[k] # NoJob /\ jobs[k].status = "Active" /\ jobs' = [jobs EXCEPT ![k] = r]
      BY <1>1, <2>1 DEF RecordProgress, InMemory
    <2>3. r # NoJob
      BY <2>1, <2>2, SpentFacts, BumpedOK
    <2>4. jobs \in [Jobs -> Job \cup {NoJob}]
      BY DEF SpentInv, PlacedInv, IInv, TypeOK
    <2> QED BY <2>2, <2>3, <2>4 DEF KeepsRecord
  <1>2. ASSUME NEW k \in Jobs, NEW command \in {"Pause", "Cancel", "Resume", "Retry"},
               Transition(k, command)
        PROVE  KeepsRecord(id)
    <2>1. PICK r : r = Commanded(jobs[k], command)
      OBVIOUS
    <2>2. /\ jobs[k] # NoJob /\ jobs[k].status # "Completed" /\ CommitJobs([i \in {k} |-> r])
      BY <1>2, <2>1 DEF Transition, InMemory, Applies, Terminal
    <2>3. r # NoJob
      BY <2>1, <2>2, SpentFacts, CommandedOK
    <2> DEFINE f == [i \in {k} |-> r]
    <2>4. CommitJobs(f) /\ (id \in DOMAIN f => id = k /\ f[id] = r)
      BY <2>2
    <2> HIDE DEF f
    <2> QED BY <2>2, <2>3, <2>4, CommitSpent
  <1>3. ASSUME NEW k \in Jobs, TransitionSavesResult(k)
        PROVE  KeepsRecord(id)
    <2>1. PICK r, v : /\ v = jobs[k].revision + 1
                      /\ r = [pending_commits[k] EXCEPT !.revision = v, !.persistence = "Saved"]
      OBVIOUS
    <2>2. jobs[k] # NoJob /\ pending_commits[k] # NoJob /\ CommitJobs([i \in {k} |-> r])
      BY <1>3, <2>1 DEF TransitionSavesResult, InMemory, Unsaved
    <2>3. /\ pending_commits[k] \in Job /\ pending_commits[k].status = jobs[k].status
          /\ jobs[k] \in Job /\ NoJob \notin Job
      BY <2>2, FactsOK, SpentFacts DEF Sound, Waits
    <2>4. v \in Nat
      BY <2>1, <2>3 DEF Job
    <2>5. r \in Job /\ r.status = jobs[k].status
      BY <2>1, <2>3, <2>4 DEF Job
    <2> DEFINE f == [i \in {k} |-> r]
    <2>6. CommitJobs(f) /\ (id \in DOMAIN f => id = k /\ f[id] = r)
      BY <2>2
    <2> HIDE DEF f
    <2> QED BY <2>2, <2>3, <2>5, <2>6, CommitSpent
  <1>4. ASSUME NEW ids \in SUBSET InMemory, AdoptLegacy(ids)
        PROVE  KeepsRecord(id)
    <2> DEFINE f == [i \in ids |-> Adopted(jobs[i])]
    <2>1. CommitJobs(f) /\ account \in Owners
      BY <1>4, SpentFacts DEF AdoptLegacy, IInv, TypeOK
    <2>2. ASSUME id \in ids
          PROVE  /\ jobs[id] # NoJob /\ f[id] # NoJob
                 /\ jobs[id].status = "Completed" => f[id].status = "Completed"
      <3>1. jobs[id] # NoJob /\ jobs[id] \in Job /\ NoJob \notin Job
        BY <2>2, SpentFacts DEF InMemory
      <3>2. PICK r : r = Adopted(jobs[id])
        OBVIOUS
      <3>3. r \in Job /\ (jobs[id].status = "Completed" => r.status = "Completed")
        BY <2>1, <3>1, <3>2, AdoptedOK
      <3> QED BY <2>2, <3>1, <3>2, <3>3
    <2>3. DOMAIN f = ids
      OBVIOUS
    <2> HIDE DEF f
    <2> QED BY <2>1, <2>2, <2>3, CommitSpent
  <1> QED BY <1>1, <1>2, <1>3, <1>4

(* Every step leaves a done transfer done. *)
LEMMA SpentStep == SpentInv /\ [Next]_vars => SpentInv'
  <1> SUFFICES ASSUME SpentInv, [Next]_vars PROVE SpentInv'
    OBVIOUS
  <1> DEFINE Goal == \A id \in Jobs : Spent(id)' /\ Taken(id)'
  <1>0. /\ PlacedInv'
        /\ supervisor \in [Jobs -> Supervising \cup {"Idle", "Settling", "Done"}]
        /\ task \in [Jobs -> Task]
    BY PlacedStep DEF SpentInv, PlacedInv, IInv, TypeOK
  <1>1. ASSUME UNCHANGED <<active, task>>, succeeded' \subseteq succeeded,
               tombstones \subseteq tombstones',
               \A id \in Jobs : KeepsRecord(id) /\ (supervisor[id] # "Idle" => supervisor'[id] # "Idle")
        PROVE  Goal
    BY <1>1, SpentFrame
  <1>2. ASSUME UNCHANGED <<jobs, tombstones, active, task, succeeded>>,
               \A id \in Jobs : supervisor[id] # "Idle" => supervisor'[id] # "Idle"
        PROVE  Goal
    <2>1. \A id \in Jobs : KeepsRecord(id)
      BY <1>2 DEF KeepsRecord
    <2> QED BY <1>1, <1>2, <2>1
  <1>3. ASSUME NEW ids, jobs' = Without(jobs, ids),
               UNCHANGED <<active, task, succeeded>>,
               tombstones \subseteq tombstones',
               \A id \in Jobs : /\ id \in ids => id \in Supervised \cup tombstones'
                                /\ supervisor[id] # "Idle" => supervisor'[id] # "Idle"
        PROVE  Goal
    <2>1. \A id \in Jobs : jobs'[id] = IF id \in ids THEN NoJob ELSE jobs[id]
      BY <1>3 DEF Without
    <2>2. \A id \in Jobs : KeepsRecord(id)
      BY <1>3, <2>1 DEF KeepsRecord
    <2> QED BY <1>1, <1>3, <2>2
  <1>4. ASSUME NEW k \in Jobs,
               \/ ExecuteStart(k) \/ ObserveCancel(k)
               \/ \E outcome \in {"Acked", "Unacked"} : Publish(k, outcome)
               \/ SendAgain(k) \/ ReportPublished(k)
               \/ \E error \in Errors : OperationFails(k, error)
        PROVE  Goal
    BY <1>4, OperationSpent
  <1>5. ASSUME NEW k \in Jobs, FinishRemoved(k) \/ FinishSaved(k) \/ FinishUnsaved(k)
        PROVE  Goal
    BY <1>5, FinishSpent
  <1>6. ASSUME \/ \E k \in Jobs : RecordProgress(k)
               \/ \E k \in Jobs, command \in {"Pause", "Cancel", "Resume", "Retry"} :
                     Transition(k, command)
               \/ \E k \in Jobs : TransitionSavesResult(k)
               \/ \E ids \in SUBSET InMemory : AdoptLegacy(ids)
        PROVE  Goal
    <2>1. /\ UNCHANGED <<active, task, supervisor, tombstones>> /\ succeeded' \subseteq succeeded
      BY <1>6 DEF RecordProgress, Transition, TransitionSavesResult, AdoptLegacy, history
    <2> QED BY <1>1, <1>6, <2>1, CommandSpent
  <1>7. ASSUME NEW ids, DeleteMany(ids), jobs' = Without(jobs, ids),
               UNCHANGED <<active, task, supervisor, succeeded>>
        PROVE  Goal
    <2>1. tombstones' = tombstones \cup ids
      BY <1>7 DEF DeleteMany
    <2> QED BY <1>3, <1>7, <2>1
  <1>8. ASSUME NEW k \in Jobs, Withdraw(k)
        PROVE  Goal
    <2>1. /\ UNCHANGED <<active, task, succeeded>> /\ supervisor[k] # "Idle"
          /\ jobs' = Without(jobs, {k}) /\ tombstones \subseteq tombstones'
          /\ supervisor' = [supervisor EXCEPT ![k] =
                                IF k \in active THEN "Settling" ELSE "Done"]
      BY <1>8 DEF Withdraw, history, DeleteMany
    <2>2. k \in Supervised
      BY <2>1, SpentFacts
    <2>3. \A id \in Jobs : supervisor[id] # "Idle" => supervisor'[id] # "Idle"
      BY <1>0, <2>1
    <2> QED BY <1>3, <2>1, <2>2, <2>3
  <1>9. ASSUME NEW k \in Jobs,
               \/ \E verdict \in {"Ok", "Err"} : Decide(k, verdict)
               \/ WithdrawReturns(k)
        PROVE  Goal
    <2>1. /\ UNCHANGED <<jobs, tombstones, active, task, succeeded>>
          /\ \E s \in {"Ok", "Err", "Done"} : supervisor' = [supervisor EXCEPT ![k] = s]
      BY <1>9 DEF Decide, WithdrawReturns, store, history
    <2>2. \A id \in Jobs : supervisor[id] # "Idle" => supervisor'[id] # "Idle"
      BY <1>0, <2>1
    <2> QED BY <1>2, <2>1, <2>2
  <1>10. ASSUME NEW left, Restart(left)
         PROVE  Goal
    BY <1>10 DEF Restart, Spent, Taken
  <1>11. ASSUME NEW saved \in SUBSET Unsaved, NEW due, ScheduleOnce(saved, due)
         PROVE  Goal
    BY <1>11, ScheduleSpent
  <1>12. ASSUME NEW batch, NEW last, EnqueueMany(batch, last)
         PROVE  Goal
    <2>1. /\ Enqueue(batch, last) /\ \A id \in BatchIds(batch) : id \notin Supervised
          /\ UNCHANGED <<active, task, supervisor, tombstones, succeeded>>
      BY <1>12 DEF EnqueueMany, Enqueue, history
    <2>2. \A id \in Jobs : KeepsRecord(id)
      BY <2>1, EnqueueSpent
    <2> QED BY <1>1, <2>1, <2>2
  <1>13. ASSUME NEW k \in Jobs, NEW last, RunSupervised(k, last)
         PROVE  Goal
    <2> DEFINE batch == [i \in {1} |-> k]
    <2>1. /\ Enqueue(batch, last) /\ UNCHANGED <<active, task, tombstones, succeeded>>
          /\ supervisor' = [supervisor EXCEPT ![k] = "Waiting"] /\ supervisor[k] = "Idle"
      BY <1>13 DEF RunSupervised, Enqueue, history
    <2>2. BatchIds(batch) = {k}
      BY DEF BatchIds
    <2> HIDE DEF batch
    <2>3. \A id \in Jobs : KeepsRecord(id)
      BY <2>1, <2>2, EnqueueSpent
    <2>4. \A id \in Jobs : supervisor[id] # "Idle" => supervisor'[id] # "Idle"
      BY <1>0, <2>1
    <2> QED BY <1>1, <2>1, <2>3, <2>4
  <1>14. ASSUME \/ UNCHANGED vars
                \/ \E to : SetLimits(to)
                \/ Logout
                \/ \E owner : SignIn(owner)
                \/ Reconnect
                \/ BeginShutdown
         PROVE  Goal
    <2>1. UNCHANGED <<jobs, tombstones, active, task, supervisor, succeeded>>
      BY <1>14 DEF vars, SetLimits, Logout, SignIn, Reconnect, BeginShutdown, store, history
    <2> QED BY <1>2, <2>1
  <1>15. ASSUME Suspend
         PROVE  Goal
    <2>1. /\ UNCHANGED <<jobs, tombstones, active, supervisor, succeeded>>
          /\ task' = [id \in Jobs |-> [task[id] EXCEPT !.guard = "Stale"]]
      BY <1>15 DEF Suspend, store, history
    <2>2. ASSUME NEW id \in Jobs PROVE task'[id].pc = task[id].pc /\ task'[id].answer = task[id].answer
      <3>1. PICK t, to : t = task[id] /\ to = task'[id]
        OBVIOUS
      <3>2. t \in Task /\ to = [t EXCEPT !.guard = "Stale"]
        BY <1>0, <2>1, <3>1
      <3>3. to.pc = t.pc /\ to.answer = t.answer
        BY <3>2 DEF Task
      <3> QED BY <3>1, <3>3
    <2>3. \A id \in Jobs : KeepsRecord(id)
      BY <2>1 DEF KeepsRecord
    <2> QED BY <2>1, <2>2, <2>3, SpentFrame
  <1>16. ASSUME \/ \E direction, statuses : ClearTerminal(direction, statuses)
                \/ \E ids \in SUBSET InMemory : DiscardLegacy(ids)
         PROVE  Goal
    BY <1>7, <1>16 DEF ClearTerminal, DiscardLegacy, history
  <1>17. Goal
    BY <1>4, <1>5, <1>6, <1>8, <1>9, <1>10, <1>11, <1>12, <1>13, <1>14, <1>15, <1>16 DEF Next
  <1> QED BY <1>0, <1>17 DEF SpentInv

(* An id whose operation answered Ok is not started again by any later     *)
(* result, restart of the scheduler or queued request: only the user's     *)
(* resume or retry takes it out of what is done.                           *)
THEOREM SucceededNotRepeated == Spec => NoRepeat
  <1>1. Init => SpentInv
    BY PlacedStarts DEF Init, SpentInv, Spent, Taken
  <1>2. Spec => []SpentInv
    BY <1>1, SpentStep, PTL DEF Spec
  <1>3. ASSUME SpentInv, [Next]_vars, NEW id \in active' \ active
        PROVE  id \notin succeeded
    <2>1. PICK saved \in SUBSET Unsaved, due \in SUBSET Cooling : ScheduleOnce(saved, due)
      BY <1>3, SchedulerStarts
    <2>2. id \in Jobs
      BY <1>3, SpentStep DEF SpentInv, PlacedInv, IInv, TypeOK
    <2> QED BY <1>3, <2>1, <2>2, ScheduleSpent
  <1>4. SpentInv /\ [Next]_vars => [\A id \in active' \ active : id \notin succeeded]_vars
    BY <1>3
  <1> QED BY <1>2, <1>4, PTL DEF Spec, NoRepeat

-----------------------------------------------------------------------------
(***************************************************************************)
(* Slots.  The queue is finite at any time, however many ids there are,    *)
(* and its positions rank the eligible records of a direction.             *)
(***************************************************************************)
FiniteInv == PlacedInv /\ IsFiniteSet(InMemory) /\ IsFiniteSet(active)

(* Of a finite set ranked by distinct numbers, at most n elements have     *)
(* fewer than n before them.                                               *)
LEMMA RankBound ==
    ASSUME NEW E, IsFiniteSet(E), NEW pos \in [E -> Nat],
           \A a, b \in E : pos[a] = pos[b] => a = b, NEW n \in Nat
    PROVE  LET first == {e \in E : Cardinality({o \in E : pos[o] < pos[e]}) < n}
           IN  IsFiniteSet(first) /\ Cardinality(first) <= n
  <1> DEFINE before(e) == {o \in E : pos[o] < pos[e]}
             first == {e \in E : Cardinality(before(e)) < n}
             rank == [e \in first |-> Cardinality(before(e))]
             ranks == 0..(n - 1)
  <1>1. first \in SUBSET E /\ \A e \in E : before(e) \in SUBSET E
    OBVIOUS
  <1>2. \A e \in E : IsFiniteSet(before(e)) /\ Cardinality(before(e)) \in Nat
    BY <1>1, FS_Subset, FS_CardinalityType
  <1>3. IsFiniteSet(first) /\ Cardinality(first) \in Nat
    BY <1>1, FS_Subset, FS_CardinalityType
  <1>4. IsFiniteSet(ranks) /\ Cardinality(ranks) = n
    BY FS_Interval
  <1>5. rank \in [first -> ranks]
    BY <1>1, <1>2
  <1>6. ASSUME NEW a \in E, NEW b \in E, pos[a] < pos[b]
        PROVE  Cardinality(before(a)) # Cardinality(before(b))
    <2>1. before(a) \in SUBSET before(b) /\ a \in before(b) /\ a \notin before(a)
      BY <1>6
    <2> HIDE DEF before
    <2> QED BY <1>2, <2>1, FS_Subset
  <1>7. ASSUME NEW a \in first, NEW b \in first, a # b
        PROVE  rank[a] # rank[b]
    <2>1. a \in E /\ b \in E /\ pos[a] \in Nat /\ pos[b] \in Nat /\ pos[a] # pos[b]
      BY <1>1, <1>7
    <2>2. rank[a] = Cardinality(before(a)) /\ rank[b] = Cardinality(before(b))
      OBVIOUS
    <2>3. pos[a] < pos[b] \/ pos[b] < pos[a]
      BY <2>1
    <2> HIDE DEF rank, before
    <2> QED BY <1>6, <2>1, <2>2, <2>3
  <1> HIDE DEF rank, ranks, first
  <1>8. ~(Cardinality(ranks) < Cardinality(first))
    BY <1>3, <1>4, <1>5, <1>7, FS_PigeonHole
  <1>9. Cardinality(first) <= n
    BY <1>3, <1>4, <1>8
  <1> QED BY <1>3, <1>9 DEF first

(* A pass of the scheduler gives every job it starts a slot of its own. *)
LEMMA SlotsStep ==
    ASSUME FiniteInv, NEW saved \in SUBSET Unsaved, NEW due, ScheduleOnce(saved, due)
    PROVE  /\ IsFiniteSet(active')
           /\ \A id \in active' \ active :
                 Cardinality({other \in active' : Direction(other) = Direction(id)})
                     <= limits[Direction(id)]
  <1>1. PICK records, rows, ids :
          /\ records = Inserted(jobs, Retried(saved)) /\ rows = Upserted(disk, Retried(saved))
          /\ ids = Chosen(records, due)
          /\ StartChosen(records, rows, ids) \/ StartFails(records, rows, ids)
    BY DEF ScheduleOnce
  <1>2. active' = active \/ active' = active \cup ids
    BY <1>1 DEF StartChosen, StartFails
  <1>3. \A id \in Jobs : records[id] # NoJob =>
           /\ id \in InMemory /\ jobs[id] \in Job
           /\ records[id].position = jobs[id].position
    BY <1>1, HalfwayPlace, FactsOK DEF FiniteInv, PlacedInv, InMemory
  <1>4. ids \in SUBSET InMemory
    BY <1>1, <1>3, ChosenOK
  <1>5. IsFiniteSet(ids) /\ IsFiniteSet(active)
    BY <1>4, FS_Subset DEF FiniteInv
  <1>6. IsFiniteSet(active')
    BY <1>2, <1>5, FS_Union
  <1>7. ASSUME NEW id \in active' \ active
        PROVE  Cardinality({other \in active' : Direction(other) = Direction(id)})
                   <= limits[Direction(id)]
    <2> DEFINE d == Direction(id)
               E == {e \in Eligible(records, due) : Direction(e) = d}
               pos == [e \in E |-> records[e].position]
               n == Slots(d)
               first == {e \in E : Cardinality({o \in E : pos[o] < pos[e]}) < n}
               running == Running(d)
               now == {other \in active' : Direction(other) = d}
    <2>1. active' = active \cup ids /\ id \in ids /\ ids = Selected(records, due)
      BY <1>1, <1>2, <1>7 DEF Chosen
    <2>2. E \in SUBSET InMemory /\ \A e \in E : pos[e] = jobs[e].position /\ pos[e] \in Nat
      BY <1>3 DEF Eligible, Job
    <2>3. IsFiniteSet(E) /\ pos \in [E -> Nat] /\ \A a, b \in E : pos[a] = pos[b] => a = b
      BY <2>2, FS_Subset DEF FiniteInv, PlacedInv, PositionsDistinct
    <2>4. ASSUME NEW e \in E
          PROVE  e \in Selected(records, due) <=> e \in first
      <3>1. {o \in E : pos[o] < pos[e]} = {o \in Eligible(records, due) :
                  /\ Direction(o) = Direction(e)
                  /\ records[o].position < records[e].position}
        BY <2>4
      <3>2. Direction(e) = d /\ e \in Eligible(records, due)
        BY <2>4
      <3> HIDE DEF E, pos
      <3> QED BY <2>4, <3>1, <3>2 DEF Selected
    <2>5. {e \in ids : Direction(e) = d} = first
      BY <2>1, <2>4 DEF Selected
    <2>6. running \in SUBSET active /\ d \in {"Upload", "Download"}
      BY DEF Running, Direction
    <2>7. IsFiniteSet(running) /\ Cardinality(running) \in Nat /\ limits[d] \in Nat
      BY <1>5, <2>6, FS_Subset, FS_CardinalityType, TransferAssumption
         DEF TransferAssumption, FiniteInv, PlacedInv, IInv, TypeOK
    <2>8. n = limits[d] - Cardinality(running) /\ n \in Int
      BY <2>7 DEF Slots
    <2>9. id \in first
      BY <2>1, <2>5
    <2>10. n \in Nat
      <3>1. {o \in E : pos[o] < pos[id]} \in SUBSET E
        OBVIOUS
      <3> HIDE DEF E, pos
      <3>2. Cardinality({o \in E : pos[o] < pos[id]}) \in Nat
        BY <2>3, <3>1, FS_Subset, FS_CardinalityType
      <3>3. Cardinality({o \in E : pos[o] < pos[id]}) < n
        BY <2>9
      <3> HIDE DEF n
      <3> QED BY <2>8, <3>2, <3>3
    <2>11. now = running \cup first
      BY <2>1, <2>5 DEF Running
    <2> HIDE DEF E, pos, n, running, now
    <2>12. IsFiniteSet(first) /\ Cardinality(first) <= n
      BY <2>3, <2>10, RankBound
    <2> HIDE DEF first
    <2>13. /\ Cardinality(now) = Cardinality(running) + Cardinality(first)
                                   - Cardinality(running \cap first)
           /\ IsFiniteSet(running \cap first)
      <3>1. running \cap first \in SUBSET running
        OBVIOUS
      <3> QED BY <2>7, <2>11, <2>12, <3>1, FS_Union, FS_Subset
    <2>14. Cardinality(first) \in Nat /\ Cardinality(running \cap first) \in Nat
      BY <2>12, <2>13, FS_CardinalityType
    <2>15. Cardinality(now) <= limits[d]
      BY <2>7, <2>8, <2>12, <2>13, <2>14
    <2> QED BY <2>15 DEF now
  <1> QED BY <1>6, <1>7

(* Only a batch brings a new record into memory, and a batch is finite. *)
LEMMA QueueGrows ==
    ASSUME FiniteInv, [Next]_vars
    PROVE  IsFiniteSet(InMemory)'
  <1>0. IsFiniteSet(InMemory) /\ PlacedInv
    BY DEF FiniteInv
  <1>1. ASSUME NEW more, IsFiniteSet(more),
               \A id \in Jobs : jobs'[id] # NoJob => jobs[id] # NoJob \/ id \in more
        PROVE  IsFiniteSet(InMemory)'
    <2>1. IsFiniteSet(InMemory \cup more)
      BY <1>0, <1>1, FS_Union
    <2>2. InMemory' \in SUBSET (InMemory \cup more)
      BY <1>1 DEF InMemory
    <2> QED BY <2>1, <2>2, FS_Subset
  <1>2. ASSUME \A id \in Jobs : jobs'[id] # NoJob => jobs[id] # NoJob
        PROVE  IsFiniteSet(InMemory)'
    BY <1>1, <1>2, FS_EmptySet
  <1>3. ASSUME \A id \in Jobs : KeepsPlace(id)
        PROVE  IsFiniteSet(InMemory)'
    BY <1>2, <1>3 DEF KeepsPlace
  <1>4. ASSUME NEW batch, NEW last, Enqueue(batch, last), IsFiniteSet(BatchIds(batch))
        PROVE  IsFiniteSet(InMemory)'
    <2> DEFINE f == Batched(batch, last)
    <2>1. DOMAIN f = BatchIds(batch) /\ CommitJobs(f)
      BY <1>4 DEF Enqueue, Batched
    <2> HIDE DEF f
    <2>2. \A id \in Jobs : jobs'[id] # NoJob => jobs[id] # NoJob \/ id \in BatchIds(batch)
      BY <2>1 DEF CommitJobs, Inserted
    <2> QED BY <1>1, <1>4, <2>2
  <1>5. CASE \E batch \in Batches : \E last : EnqueueMany(batch, last)
    <2>1. PICK batch, last, n : n \in 1..MaxBatch /\ batch \in [1..n -> Jobs] /\ Enqueue(batch, last)
      BY <1>5 DEF Batches, EnqueueMany
    <2>2. IsFiniteSet(1..n)
      BY <2>1, FS_Interval, TransferAssumption DEF TransferAssumption
    <2>3. batch \in Surjection(1..n, BatchIds(batch))
      BY <2>1 DEF BatchIds, Surjection
    <2>4. IsFiniteSet(BatchIds(batch))
      BY <2>2, <2>3, FS_Surjection
    <2> QED BY <1>4, <2>1, <2>4
  <1>6. CASE \E k \in Jobs : \E last : RunSupervised(k, last)
    <2>1. PICK k, last, batch : Enqueue(batch, last) /\ batch = [i \in {1} |-> k]
      BY <1>6 DEF RunSupervised
    <2>2. BatchIds(batch) = {k}
      BY <2>1 DEF BatchIds
    <2>3. IsFiniteSet(BatchIds(batch))
      BY <2>2, FS_Singleton
    <2> QED BY <1>4, <2>1, <2>3
  <1>7. CASE \/ \E k \in Jobs : FinishSaved(k) \/ FinishUnsaved(k) \/ RecordProgress(k)
             \/ \E k \in Jobs, command \in {"Pause", "Cancel", "Resume", "Retry"} :
                   Transition(k, command)
             \/ \E k \in Jobs : TransitionSavesResult(k)
             \/ \E ids \in SUBSET InMemory : AdoptLegacy(ids)
             \/ \E left : Restart(left)
             \/ \E saved \in SUBSET Unsaved : \E due : ScheduleOnce(saved, due)
    BY <1>0, <1>3, <1>7, FinishPlaces, ProgressPlaces, CommandPlaces, RestartPlaces,
       SchedulePlaces
  <1>8. CASE \/ \E k \in Jobs : Withdraw(k)
             \/ \E direction, statuses : ClearTerminal(direction, statuses)
             \/ \E ids : DiscardLegacy(ids)
    BY <1>2, <1>8 DEF Withdraw, ClearTerminal, DiscardLegacy, Without
  <1>9. ASSUME jobs' = jobs PROVE IsFiniteSet(InMemory)'
    BY <1>2, <1>9
  <1>10. CASE \E k \in Jobs :
             \/ ExecuteStart(k) \/ ObserveCancel(k)
             \/ \E outcome \in {"Acked", "Unacked"} : Publish(k, outcome)
             \/ SendAgain(k) \/ ReportPublished(k)
             \/ \E error \in Errors : OperationFails(k, error)
             \/ FinishRemoved(k)
             \/ \E verdict \in {"Ok", "Err"} : Decide(k, verdict)
             \/ WithdrawReturns(k)
    BY <1>9, <1>10 DEF ExecuteStart, ObserveCancel, Publish, SendAgain, ReportPublished,
                       OperationFails, Operation, FinishRemoved, Decide, WithdrawReturns, store
  <1>11. CASE \/ UNCHANGED vars
              \/ \E to : SetLimits(to)
              \/ Suspend
              \/ Logout
              \/ \E owner : SignIn(owner)
              \/ Reconnect
              \/ BeginShutdown
    BY <1>9, <1>11 DEF vars, SetLimits, Suspend, Logout, SignIn, Reconnect, BeginShutdown, store
  <1> QED BY <1>5, <1>6, <1>7, <1>8, <1>10, <1>11 DEF Next

(* When a job starts, those of its direction that run, it included, are no *)
(* more than the limit in force: the slots are counted with what runs, and *)
(* filled in queue order.                                                  *)
THEOREM SlotsKept == Spec => SlotsRespected
  <1>1. Init => FiniteInv
    <2> SUFFICES ASSUME Init PROVE FiniteInv
      OBVIOUS
    <2>1. InMemory = {} /\ active = {}
      BY DEF Init, InMemory
    <2> QED BY <2>1, PlacedStarts, FS_EmptySet DEF FiniteInv
  <1>2. FiniteInv /\ [Next]_vars => FiniteInv'
    <2> SUFFICES ASSUME FiniteInv, [Next]_vars PROVE FiniteInv'
      OBVIOUS
    <2>1. CASE \E saved \in SUBSET Unsaved, due \in SUBSET Cooling : ScheduleOnce(saved, due)
      BY <2>1, SlotsStep, QueueGrows, PlacedStep DEF FiniteInv
    <2>2. CASE active' \subseteq active
      BY <2>2, QueueGrows, PlacedStep, FS_Subset DEF FiniteInv
    <2> QED BY <2>1, <2>2, SchedulerStarts
  <1>3. Spec => []FiniteInv
    BY <1>1, <1>2, PTL DEF Spec
  <1>4. ASSUME FiniteInv, [Next]_vars, NEW id \in active' \ active
        PROVE  Cardinality({other \in active' : Direction(other) = Direction(id)})
                   <= limits[Direction(id)]
    <2>1. PICK saved \in SUBSET Unsaved, due \in SUBSET Cooling : ScheduleOnce(saved, due)
      BY <1>4, SchedulerStarts
    <2> QED BY <1>4, <2>1, SlotsStep
  <1>5. FiniteInv /\ [Next]_vars =>
           [\A id \in active' \ active :
               Cardinality({other \in active' : Direction(other) = Direction(id)})
                   <= limits[Direction(id)]]_vars
    BY <1>4
  <1> QED BY <1>3, <1>5, PTL DEF Spec, SlotsRespected
=============================================================================
