----------------------------- MODULE FolderSync -----------------------------
(***************************************************************************)
(* Folder Sync (src-tauri/src/sync_engine, commands/sync.rs): one mapping  *)
(* between a local folder and a Telegram channel.  A cycle compares three  *)
(* trees (local, remote and the recorded "Synced Tree"), plans one         *)
(* operation per path and executes it; users change either side, resolve   *)
(* conflicts and change the mapping in the meantime, and the engine may    *)
(* fail or be abandoned at every await.                                    *)
(*                                                                         *)
(* A version of a file is a number: every edit makes a new one, so a       *)
(* number stands for the SHA-256 of a local file.  A message is known by   *)
(* its id and by how often it was edited; that pair is its fingerprint     *)
(* (remote_fingerprint hashes size, dates, id and media id, all of which   *)
(* an edit changes).  A local hash and a "v2:" fingerprint never compare   *)
(* equal, so the planner's branches on local.hash == remote.hash are never *)
(* taken and are not modelled.                                             *)
(***************************************************************************)
EXTENDS Naturals, Sequences, FiniteSets, SequencesExt

CONSTANTS
    Paths,          \* relative paths of the mapping under observation
    Others,         \* how many further recorded files, all in sync, a cycle may meet
    Policies,       \* the reviewed settings a user may give the mapping
    MaxChanges,     \* bound: changes the users make to the files, on either side
    MaxMessages     \* bound: messages ever posted to the channel

Directions == {"upload_only", "download_only", "bidirectional"}

PolicyType == [direction : Directions, propagate_deletions : BOOLEAN,
               pause_on_conflicts : BOOLEAN, adopt_matching_files : BOOLEAN]

NoPath == "none"

ASSUME SyncConstants ==
    /\ IsFiniteSet(Paths) /\ Paths # {} /\ NoPath \notin Paths
    /\ Others # {} /\ Others \subseteq Nat
    /\ Policies # {} /\ Policies \subseteq PolicyType
    /\ MaxChanges \in Nat /\ MaxMessages \in Nat

VARIABLES
    local,      \* the mapped folder: the version at each path, 0 for no file
    aside,      \* versions kept in "remote-conflict" copies
    msgs,       \* the channel: message id -> what it holds, version 0 = deleted
    made,       \* number of versions created so far
    rows,       \* table sync_state
    cleanup,    \* setting sync_pair_cleanup: superseded messages to delete
    policy,     \* the mapping's direction and preferences
    pc,         \* where the engine is in its cycle
    stage,      \* how far the current remote or local operation got
    cur,        \* path being executed
    known,      \* the paths the cycle's Synced Tree has a row for
    seenLocal,  \* the cycle's local tree
    seenRemote, \* the cycle's remote tree
    plan,       \* the cycle's operations
    outcome,    \* result of each operation
    got,        \* message id of an upload, hash of a download
    waived,     \* history: versions a user replaced, deleted or gave up
    recorded    \* history: versions the Synced Tree held as a baseline

disk == <<local, aside>>
store == <<rows, cleanup, policy>>
cycle == <<known, seenLocal, seenRemote, plan, outcome, got>>
position == <<pc, stage, cur>>
vars == <<disk, msgs, made, store, position, cycle, waived, recorded>>

Fingerprint(m) == <<m, msgs[m].edits>>
Blank == <<0, 0>>          \* the empty remote hash of a journaled upload
Null == << >>
Gone == [path |-> NoPath, version |-> 0, edits |-> 0]
NoEntry == [mid |-> 0, hash |-> Null, size |-> 0]
NoRow == [lh |-> 0, rh |-> Null, mid |-> 0, status |-> "none"]

Resolutions == {"keep_local", "keep_remote", "keep_both"}
Statuses == {"none", "synced", "syncing", "conflict", "error"} \cup Resolutions
Operations == {"none", "upload", "download", "keep_both", "delete_local",
               "delete_remote", "conflict", "skip"}

Versions == 1..MaxChanges
Messages == 1..MaxMessages
Hash == {Null, Blank} \cup (Messages \X (0..MaxChanges))
Row == [lh : 0..MaxChanges, rh : Hash, mid : 0..MaxMessages, status : Statuses]

\* Some versions have the same size and some do not, so that adoption meets both.
SizeOf(v) == v % 2

Exists(m) == msgs[m].version # 0

\* remote_relative_path: the recorded path of a message, else its caption.
PathOf(m, tree) ==
    IF \E p \in Paths : tree[p].mid = m
    THEN CHOOSE p \in Paths : tree[p].mid = m
    ELSE msgs[m].path

AtPath(p, tree) == {m \in DOMAIN msgs : Exists(m) /\ PathOf(m, tree) = p}

-----------------------------------------------------------------------------
(* The planner *)

\* Mutant of LocalChanged: an edit that keeps the size goes unnoticed.
LocalChangedBySize(l, s) == SizeOf(s.lh) # SizeOf(l)

LocalChanged(l, s) == s.lh # l

\* plan_unchecked for one path: l and r are the scanned entries, s the row.
PlanPath(l, r, s) ==
    LET here == l # 0
        there == r.mid # 0
        localChanged == LocalChanged(l, s)
        remoteChanged == s.rh # r.hash
    IN IF ~here /\ ~there THEN "none"
       ELSE IF s.status = "keep_local" THEN IF here THEN "upload" ELSE "conflict"
       ELSE IF s.status = "keep_remote" THEN IF there THEN "download" ELSE "conflict"
       ELSE IF s.status = "keep_both"
            THEN IF ~there THEN "upload" ELSE IF here THEN "keep_both" ELSE "download"
       ELSE IF s.status = "conflict" THEN "conflict"
       ELSE IF s.status = "none"
            THEN IF here /\ there THEN "conflict" ELSE IF here THEN "upload" ELSE "download"
       ELSE IF ~there THEN IF s.rh = Null THEN "upload"
                           ELSE IF localChanged THEN "conflict" ELSE "delete_local"
       ELSE IF ~here THEN IF s.lh = 0 THEN "download"
                          ELSE IF remoteChanged THEN "conflict" ELSE "delete_remote"
       ELSE IF localChanged THEN IF remoteChanged THEN "conflict" ELSE "upload"
       ELSE IF remoteChanged THEN "download" ELSE "skip"

\* operations_for_policy: the direction and the deletion preference, from
\* which a resolution chosen by the user is exempt.
ForDirection(op, l, r, s) ==
    LET uploadOnly == policy.direction = "upload_only"
        downloadOnly == policy.direction = "download_only"
        localOnly == l # 0 /\ r.mid = 0
        remoteOnly == l = 0 /\ r.mid # 0
        again == op = "delete_local" \/ (op = "conflict" /\ localOnly)
        restore == op = "delete_remote" \/ (op = "conflict" /\ remoteOnly)
    IN IF s.status \in Resolutions THEN op
       ELSE IF uploadOnly /\ again THEN "upload"
       ELSE IF downloadOnly /\ restore THEN "download"
       ELSE IF (uploadOnly /\ op = "download") \/ (downloadOnly /\ op = "upload") THEN "skip"
       ELSE op

IsDelete(op) == op \in {"delete_local", "delete_remote"}

\* Mutant of ForPolicy: deletions propagate whatever the preference says.
ForPolicyAlwaysDeletes(op, l, r, s) == ForDirection(op, l, r, s)

ForPolicy(op, l, r, s) ==
    LET directed == ForDirection(op, l, r, s)
    IN IF IsDelete(directed) /\ ~policy.propagate_deletions THEN "skip" ELSE directed

\* enforce_mass_deletion
MassDeletion(ops, tree, others) ==
    2 * Cardinality({p \in Paths : IsDelete(ops[p])}) >
        others + Cardinality({p \in Paths : tree[p] # NoRow})

\* resume_interrupted_uploads
Resumable(l, r, s) ==
    s.status = "syncing" /\ s.mid # 0 /\ l # 0 /\ r.mid = s.mid /\ s.lh = l

\* Mutant of Adoptable: any conflict is adopted, also one whose copies have
\* changed since it was recorded.
AdoptableAnyConflict(l, r, s) ==
    /\ policy.adopt_matching_files
    /\ l # 0 /\ r.mid # 0 /\ SizeOf(l) = r.size
    /\ s.status \in {"none", "conflict"}

\* adopt_matching_files
Adoptable(l, r, s) ==
    /\ policy.adopt_matching_files
    /\ l # 0 /\ r.mid # 0 /\ SizeOf(l) = r.size
    /\ s = NoRow \/ (s.status = "conflict" /\ s.lh = l /\ s.rh = r.hash)

\* upsert_state from the entries of both trees.
Upserted(l, r, status) == [lh |-> l, rh |-> r.hash, mid |-> r.mid, status |-> status]

\* set_state_status, an UPDATE that touches existing rows only.
Marked(row, status) == IF row = NoRow THEN row ELSE [row EXCEPT !.status = status]

\* journal_upload
Journaled(l, m) == [lh |-> l, rh |-> Blank, mid |-> m, status |-> "syncing"]

-----------------------------------------------------------------------------
(* History: what the properties know of the past.  No action reads it. *)

\* What a user step took away from one side.
Replaced ==
    {local[p] : p \in {q \in Paths : local'[q] # local[q]}}
        \cup {msgs[m].version : m \in {k \in DOMAIN msgs : msgs'[k] # msgs[k]}}

\* The place whose check has passed and which the engine changes next.
CheckedFile ==
    IF pc = "execute" /\ stage = "checked" /\ plan[cur] \in {"download", "delete_local"}
    THEN {cur} ELSE {}

CheckedMessage ==
    CASE pc \in {"retry", "tidy"} /\ stage = "checked" -> {Head(cleanup).old}
      [] pc = "execute" /\ stage = "checked" /\ plan[cur] = "delete_remote" -> {seenRemote[cur].mid}
      [] pc = "execute" /\ stage = "sent" -> {got[cur]}
      [] OTHER -> {}

\* What a user put there in that very moment.
Raced ==
    {local'[p] : p \in {q \in CheckedFile : local'[q] # local[q]}}
        \cup {msgs'[m].version : m \in {k \in CheckedMessage : msgs'[k] # msgs[k]}}

\* What stands on the losing side of a resolution that is still to be executed.
GivenUp ==
    {local[p] : p \in {q \in Paths : rows[q].status = "keep_remote"}}
        \cup UNION {{msgs[m].version : m \in AtPath(p, rows)} :
                        p \in {q \in Paths : rows[q].status = "keep_local"}}

\* The versions whose hash or fingerprint the Synced Tree holds as a baseline.
Baselines ==
    LET settled == {p \in Paths : rows[p].status \in {"synced", "syncing", "error"}}
    IN {rows[p].lh : p \in settled}
         \cup {msgs[m].version : m \in {k \in DOMAIN msgs :
                                         \E p \in settled : rows[p].rh = Fingerprint(k)}}

Present == ({local[p] : p \in Paths} \cup aside \cup {msgs[m].version : m \in DOMAIN msgs}) \ {0}

\* Only what is still on some side is remembered.
EngineHistory ==
    /\ waived' = (waived \cup GivenUp') \cap Present'
    /\ recorded' = (recorded \cup Baselines') \cap Present'

UserHistory ==
    /\ waived' = (waived \cup Replaced \cup Raced \cup GivenUp') \cap Present'
    /\ recorded' = (recorded \cup Baselines') \cap Present'

-----------------------------------------------------------------------------
(* One cycle: reconcile_pair *)

Rest ==
    /\ pc' = "idle" /\ stage' = "none" /\ cur' = NoPath
    /\ known' = {}
    /\ seenLocal' = [p \in Paths |-> 0]
    /\ seenRemote' = [p \in Paths |-> NoEntry]
    /\ plan' = [p \in Paths |-> "none"]
    /\ outcome' = [p \in Paths |-> "none"]
    /\ got' = [p \in Paths |-> 0]

\* Where the cycle goes on once the queue of superseded messages is empty.
AfterCleanup(at, queue) ==
    IF queue # << >> THEN at ELSE IF at = "retry" THEN "scan" ELSE "record"

\* engine_loop starts a cycle on a local change, a timer or a vault unlock.
StartCycle ==
    /\ pc = "idle"
    /\ pc' = AfterCleanup("retry", cleanup)
    /\ UNCHANGED <<disk, msgs, made, store, stage, cur, cycle>>
    /\ EngineHistory

\* Every error return of reconcile_pair, and shutdown_and_wait abandoning the
\* task (or the process ending): what the cycle holds in memory is lost.
Abandon ==
    /\ pc # "idle"
    /\ Rest
    /\ UNCHANGED <<disk, msgs, made, store>>
    /\ EngineHistory

\* retry_pending_cleanup up to its decision (cleanup_action) for the first item.
CleanupDecide ==
    /\ pc \in {"retry", "tidy"} /\ stage = "none"
    /\ LET item == Head(cleanup)
           unchanged == Fingerprint(item.old) = item.hash
       IN \/ /\ ~Exists(item.old)
             /\ cleanup' = Tail(cleanup)
             /\ pc' = AfterCleanup(pc, cleanup')
             /\ UNCHANGED <<rows, stage, cur, cycle>>
          \/ /\ Exists(item.old) /\ Exists(item.new) /\ unchanged
             /\ stage' = "checked"
             /\ UNCHANGED <<rows, cleanup, pc, cur, cycle>>
          \/ /\ Exists(item.old) /\ ~(Exists(item.new) /\ unchanged)
             /\ rows' = [rows EXCEPT ![item.path] = Marked(@, "conflict")]
             /\ cleanup' = Tail(cleanup)
             /\ Rest
    /\ UNCHANGED <<disk, msgs, made, policy>>
    /\ EngineHistory

\* delete_remote of the superseded message.
CleanupDelete ==
    /\ pc \in {"retry", "tidy"} /\ stage = "checked"
    /\ msgs' = [msgs EXCEPT ![Head(cleanup).old] = Gone]
    /\ stage' = "deleted"
    /\ UNCHANGED <<disk, made, store, pc, cur, cycle>>
    /\ EngineHistory

\* save_pending_cleanup without the finished item.
CleanupSave ==
    /\ pc \in {"retry", "tidy"} /\ stage = "deleted"
    /\ cleanup' = Tail(cleanup)
    /\ stage' = "none"
    /\ pc' = AfterCleanup(pc, cleanup')
    /\ UNCHANGED <<disk, msgs, made, rows, policy, cur, cycle>>
    /\ EngineHistory

\* load_synced_tree and scan_remote.  Two messages at one path are an error:
\* the cycle ends there (Abandon).
ScanRemote ==
    /\ pc = "scan"
    /\ \A p \in Paths : Cardinality(AtPath(p, rows)) <= 1
    /\ known' = {p \in Paths : rows[p] # NoRow}
    /\ seenRemote' = [p \in Paths |->
           IF AtPath(p, rows) = {} THEN NoEntry
           ELSE LET m == CHOOSE m \in AtPath(p, rows) : TRUE
                IN [mid |-> m, hash |-> Fingerprint(m), size |-> SizeOf(msgs[m].version)]]
    /\ pc' = "prepare"
    /\ UNCHANGED <<disk, msgs, made, store, stage, cur, seenLocal, plan, outcome, got>>
    /\ EngineHistory

\* prepare_reconciliation: what resuming and adopting make of the Synced Tree,
\* and the operations planned on it.
Baselined(p) ==
    \/ Resumable(local[p], seenRemote[p], rows[p])
    \/ Adoptable(local[p], seenRemote[p], rows[p])

Tree == [p \in Paths |->
    IF Baselined(p) THEN Upserted(local[p], seenRemote[p], "synced") ELSE rows[p]]

Ops == [p \in Paths |->
    ForPolicy(PlanPath(local[p], seenRemote[p], Tree[p]), local[p], seenRemote[p], Tree[p])]

\* A path gone from both sides is forgotten, a conflict is recorded.
Kept(p) == IF local[p] = 0 /\ seenRemote[p].mid = 0 THEN NoRow ELSE Tree[p]
Conflicted(p) == IF Tree[p] = NoRow THEN Upserted(local[p], seenRemote[p], "conflict")
                 ELSE Marked(Kept(p), "conflict")

\* drop_settled_skips: a recorded path with a copy missing, or with nothing new.
Settled(p) ==
    /\ Ops[p] = "skip" /\ Tree[p] # NoRow
    /\ \/ local[p] = 0 \/ seenRemote[p].mid = 0
       \/ Tree[p].lh = local[p] /\ Tree[p].rh = seenRemote[p].hash

\* prepare_reconciliation, the pause on conflicts and drop_settled_skips.  A
\* cycle left with no operation changes nothing more and is over.
Prepare ==
    /\ pc = "prepare"
    /\ LET conflicts == {p \in Paths : Ops[p] = "conflict"}
           remaining == [p \in Paths |-> IF Settled(p) THEN "none" ELSE Ops[p]]
       IN \E others \in Others :
          IF MassDeletion(Ops, Tree, others)
          THEN rows' = [p \in Paths |-> Kept(p)] /\ Rest
          ELSE /\ rows' = [p \in Paths |-> IF p \in conflicts THEN Conflicted(p) ELSE Kept(p)]
               /\ IF \/ policy.pause_on_conflicts /\ conflicts # {}
                     \/ \A p \in Paths : remaining[p] = "none"
                  THEN Rest
                  ELSE /\ known' = {p \in Paths : Tree[p] # NoRow}
                       /\ seenLocal' = local
                       /\ plan' = remaining
                       /\ pc' = "execute"
                       /\ UNCHANGED <<stage, cur, seenRemote, outcome, got>>
    /\ UNCHANGED <<disk, msgs, made, cleanup, policy>>
    /\ EngineHistory

-----------------------------------------------------------------------------
(* executor::execute *)

Pending(p) ==
    /\ pc = "execute" /\ stage = "none"
    /\ plan[p] # "none" /\ outcome[p] = "none"

At(p, s) == pc = "execute" /\ cur = p /\ stage = s

Finish(p, result) ==
    /\ outcome' = [outcome EXCEPT ![p] = result]
    /\ stage' = "none" /\ cur' = NoPath
    /\ UNCHANGED <<pc, known, seenLocal, seenRemote, plan>>

Enter(p, s) ==
    /\ cur' = p /\ stage' = s
    /\ UNCHANGED <<pc, known, seenLocal, seenRemote, plan, outcome>>

\* A conflict is reported as a failure, a skip as a success.
ExecuteNothing(p) ==
    /\ Pending(p) /\ plan[p] \in {"conflict", "skip"}
    /\ Finish(p, IF plan[p] = "skip" THEN "ok" ELSE "failed")
    /\ UNCHANGED <<disk, msgs, made, store, got>>
    /\ EngineHistory

\* Any error of an operation, the account or the shutdown check included.
Fail(p) ==
    /\ Pending(p) \/ (pc = "execute" /\ cur = p)
    /\ plan[p] \notin {"conflict", "skip"}
    /\ Finish(p, "failed")
    /\ got' = [got EXCEPT ![p] = 0]
    /\ UNCHANGED <<disk, msgs, made, store>>
    /\ EngineHistory

\* upload: the file as it is now becomes a new message.
UploadSend(p) ==
    /\ Pending(p) /\ plan[p] = "upload"
    /\ local[p] # 0 /\ Len(msgs) < MaxMessages
    /\ msgs' = Append(msgs, [path |-> p, version |-> local[p], edits |-> 0])
    /\ got' = [got EXCEPT ![p] = Len(msgs) + 1]
    /\ Enter(p, "sent")
    /\ UNCHANGED <<disk, made, store>>
    /\ EngineHistory

\* The file changed since it was scanned: the attempt is deleted, at best.
UploadDiscard(p) ==
    /\ At(p, "sent") /\ plan[p] = "upload"
    /\ local[p] # 0 /\ local[p] # seenLocal[p]
    /\ msgs' = [msgs EXCEPT ![got[p]] = Gone]
    /\ Finish(p, "failed")
    /\ got' = [got EXCEPT ![p] = 0]
    /\ UNCHANGED <<disk, made, store>>
    /\ EngineHistory

\* The file is the one that was scanned: journal_upload, whose failure is
\* only logged, then the caption.
UploadJournal(p) ==
    /\ At(p, "sent") /\ plan[p] = "upload"
    /\ local[p] = seenLocal[p]
    /\ rows' \in {rows, [rows EXCEPT ![p] = Journaled(seenLocal[p], got[p])]}
    /\ Enter(p, "journaled")
    /\ UNCHANGED <<disk, msgs, made, cleanup, policy, got>>
    /\ EngineHistory

\* cmd_rename_file succeeds (its failure is Fail).
UploadCaption(p) ==
    /\ At(p, "journaled")
    /\ Finish(p, "ok")
    /\ UNCHANGED <<disk, msgs, made, store, got>>
    /\ EngineHistory

\* download into the staging file: whatever the message holds by now.
DownloadFetch(p) ==
    /\ Pending(p) /\ plan[p] \in {"download", "keep_both"}
    /\ Exists(seenRemote[p].mid)
    /\ got' = [got EXCEPT ![p] = msgs[seenRemote[p].mid].version]
    /\ Enter(p, "fetched")
    /\ UNCHANGED <<disk, msgs, made, store>>
    /\ EngineHistory

\* Mutant of DownloadCheck: the file is replaced whatever it is by now.
DownloadCheckNothing(p) ==
    /\ At(p, "fetched") /\ plan[p] = "download"
    /\ Enter(p, "checked")
    /\ UNCHANGED <<disk, msgs, made, store, got>>
    /\ EngineHistory

\* verify_local_precondition before a download replaces the file.
DownloadCheck(p) ==
    /\ At(p, "fetched") /\ plan[p] = "download"
    /\ local[p] = seenLocal[p]
    /\ Enter(p, "checked")
    /\ UNCHANGED <<disk, msgs, made, store, got>>
    /\ EngineHistory

\* atomic_replace
DownloadReplace(p) ==
    /\ At(p, "checked") /\ plan[p] = "download"
    /\ local' = [local EXCEPT ![p] = got[p]]
    /\ Finish(p, "ok")
    /\ UNCHANGED <<aside, msgs, made, store, got>>
    /\ EngineHistory

\* keep_both writes beside the local file, under a new name.
DownloadAside(p) ==
    /\ At(p, "fetched") /\ plan[p] = "keep_both"
    /\ aside' = aside \cup {got[p]}
    /\ Finish(p, "ok")
    /\ UNCHANGED <<local, msgs, made, store, got>>
    /\ EngineHistory

\* verify_local_precondition and verify_remote_precondition before a deletion.
DeleteCheck(p) ==
    /\ Pending(p)
    /\ \/ plan[p] = "delete_local" /\ local[p] = seenLocal[p]
       \/ /\ plan[p] = "delete_remote"
          /\ Exists(seenRemote[p].mid) /\ Fingerprint(seenRemote[p].mid) = seenRemote[p].hash
    /\ Enter(p, "checked")
    /\ UNCHANGED <<disk, msgs, made, store, got>>
    /\ EngineHistory

DeleteLocal(p) ==
    /\ At(p, "checked") /\ plan[p] = "delete_local"
    /\ local[p] # 0
    /\ local' = [local EXCEPT ![p] = 0]
    /\ Finish(p, "ok")
    /\ UNCHANGED <<aside, msgs, made, store, got>>
    /\ EngineHistory

DeleteRemote(p) ==
    /\ At(p, "checked") /\ plan[p] = "delete_remote"
    /\ msgs' = [msgs EXCEPT ![seenRemote[p].mid] = Gone]
    /\ Finish(p, "ok")
    /\ UNCHANGED <<disk, made, store, got>>
    /\ EngineHistory

-----------------------------------------------------------------------------
(* The end of a cycle *)

Uploaded(p) == plan[p] = "upload" /\ outcome[p] = "ok"

\* The superseded messages of the successful uploads go to the cleanup
\* journal one by one, then journal_uploads writes the upload rows again; a
\* write that fails ends the cycle with what was saved before it.
Settle ==
    /\ pc = "execute" /\ stage = "none"
    /\ \A p \in Paths : plan[p] # "none" => outcome[p] # "none"
    /\ LET Item(p) == [path |-> p, old |-> seenRemote[p].mid, new |-> got[p],
                       hash |-> seenRemote[p].hash]
           uploaded == {p \in Paths : Uploaded(p)}
           superseding == {p \in uploaded : seenRemote[p].mid \notin {0, got[p]}}
       IN \E saved \in SUBSET superseding, journaled \in SUBSET uploaded :
            /\ saved # superseding => journaled = {}
            /\ cleanup' = cleanup \o SetToSeq({Item(p) : p \in saved} \ ToSet(cleanup))
            /\ rows' = [p \in Paths |-> IF p \in journaled
                          THEN Journaled(seenLocal[p], got[p]) ELSE rows[p]]
            /\ IF journaled = uploaded
               THEN /\ pc' = AfterCleanup("tidy", cleanup')
                    /\ UNCHANGED <<stage, cur, cycle>>
               ELSE Rest
    /\ UNCHANGED <<disk, msgs, made, policy>>
    /\ EngineHistory

\* The row record_results writes; readBack is FALSE when fetch_uploaded_entries
\* fails or the engine is stopping.
Recorded(p, readBack) ==
    LET l == seenLocal[p]
        r == seenRemote[p]
        m == got[p]
        status == IF plan[p] = "conflict" THEN "conflict" ELSE "error"
    IN IF outcome[p] = "none" THEN rows[p]
       ELSE IF outcome[p] = "failed"
            THEN IF p \in known THEN Marked(rows[p], status) ELSE Upserted(l, r, status)
       ELSE IF plan[p] = "upload"
            THEN IF readBack /\ Exists(m)
                 THEN [lh |-> l, rh |-> Fingerprint(m), mid |-> m, status |-> "synced"]
                 ELSE rows[p]
       ELSE IF plan[p] = "download" THEN Upserted(m, r, "synced")
       ELSE IF IsDelete(plan[p]) THEN NoRow
       ELSE Upserted(l, r, "synced")

\* record_results writes path by path, up to the write that fails.
Record ==
    /\ pc = "record"
    /\ \E readBack \in BOOLEAN, written \in SUBSET Paths :
         rows' = [p \in Paths |-> IF p \in written THEN Recorded(p, readBack) ELSE rows[p]]
    /\ Rest
    /\ UNCHANGED <<disk, msgs, made, cleanup, policy>>
    /\ EngineHistory

EngineStep ==
    \/ StartCycle \/ Abandon
    \/ CleanupDecide \/ CleanupDelete \/ CleanupSave
    \/ ScanRemote \/ Prepare \/ Settle \/ Record
    \/ \E p \in Paths :
         \/ ExecuteNothing(p) \/ Fail(p)
         \/ UploadSend(p) \/ UploadDiscard(p) \/ UploadJournal(p) \/ UploadCaption(p)
         \/ DownloadFetch(p) \/ DownloadCheck(p) \/ DownloadReplace(p) \/ DownloadAside(p)
         \/ DeleteCheck(p) \/ DeleteLocal(p) \/ DeleteRemote(p)

-----------------------------------------------------------------------------
(* The users: programs that write to the folder, clients that write to the *)
(* channel, and the sync commands, which first stop the engine.            *)

\* Each change takes the next number, which names the version it makes.
Change == made < MaxChanges /\ made' = made + 1

WriteFile(p) ==
    /\ Change
    /\ local' = [local EXCEPT ![p] = made + 1]
    /\ UNCHANGED <<aside, msgs, store, position, cycle>>
    /\ UserHistory

RemoveFile(p) ==
    /\ local[p] # 0 /\ Change
    /\ local' = [local EXCEPT ![p] = 0]
    /\ UNCHANGED <<aside, msgs, store, position, cycle>>
    /\ UserHistory

PostMessage(p) ==
    /\ Len(msgs) < MaxMessages /\ Change
    /\ msgs' = Append(msgs, [path |-> p, version |-> made + 1, edits |-> 0])
    /\ UNCHANGED <<disk, store, position, cycle>>
    /\ UserHistory

EditMessage(m) ==
    /\ Exists(m) /\ Change
    /\ msgs' = [msgs EXCEPT ![m].version = made + 1, ![m].edits = @ + 1]
    /\ UNCHANGED <<disk, store, position, cycle>>
    /\ UserHistory

DeleteMessage(m) ==
    /\ Exists(m) /\ Change
    /\ msgs' = [msgs EXCEPT ![m] = Gone]
    /\ UNCHANGED <<disk, store, position, cycle>>
    /\ UserHistory

\* cmd_resolve_conflict
Resolve(p, resolution) ==
    /\ pc = "idle" /\ rows[p].status = "conflict"
    /\ rows' = [rows EXCEPT ![p].status = resolution]
    /\ UNCHANGED <<disk, msgs, made, cleanup, policy, position, cycle>>
    /\ UserHistory

\* cmd_update_sync_pair, with the token of a preview of the same settings.
UpdatePair(chosen) ==
    /\ pc = "idle" /\ policy # chosen
    /\ policy' = chosen
    /\ UNCHANGED <<disk, msgs, made, rows, cleanup, position, cycle>>
    /\ UserHistory

\* cmd_remove_sync_pair, then cmd_add_sync_pair for the same two places.
ReplacePair(chosen) ==
    /\ pc = "idle"
    /\ rows' = [p \in Paths |-> NoRow]
    /\ cleanup' = << >>
    /\ policy' = chosen
    /\ UNCHANGED <<disk, msgs, made, position, cycle>>
    /\ UserHistory

UserStep ==
    \/ \E p \in Paths :
         \/ WriteFile(p) \/ RemoveFile(p) \/ PostMessage(p)
         \/ \E resolution \in Resolutions : Resolve(p, resolution)
    \/ \E m \in DOMAIN msgs : EditMessage(m) \/ DeleteMessage(m)
    \/ \E chosen \in Policies : UpdatePair(chosen) \/ ReplacePair(chosen)

-----------------------------------------------------------------------------
(* The specification *)

Init ==
    /\ local = [p \in Paths |-> 0] /\ aside = {}
    /\ msgs = << >> /\ made = 0
    /\ rows = [p \in Paths |-> NoRow] /\ cleanup = << >>
    /\ policy \in Policies
    /\ pc = "idle" /\ stage = "none" /\ cur = NoPath
    /\ known = {}
    /\ seenLocal = [p \in Paths |-> 0]
    /\ seenRemote = [p \in Paths |-> NoEntry]
    /\ plan = [p \in Paths |-> "none"]
    /\ outcome = [p \in Paths |-> "none"]
    /\ got = [p \in Paths |-> 0]
    /\ waived = {} /\ recorded = {}

Next == EngineStep \/ UserStep

Spec == Init /\ [][Next]_vars

-----------------------------------------------------------------------------
(* Properties *)

TypeOK ==
    /\ local \in [Paths -> 0..MaxChanges] /\ aside \subseteq Versions
    /\ msgs \in Seq([path : Paths \cup {NoPath}, version : 0..MaxChanges, edits : 0..MaxChanges])
    /\ Len(msgs) <= MaxMessages
    /\ made \in 0..MaxChanges
    /\ rows \in [Paths -> Row] /\ policy \in Policies
    /\ cleanup \in Seq([path : Paths, old : Messages, new : Messages, hash : Hash])
    /\ pc \in {"idle", "retry", "scan", "prepare", "execute", "tidy", "record"}
    /\ stage \in {"none", "sent", "journaled", "fetched", "checked", "deleted"}
    /\ cur \in Paths \cup {NoPath}
    /\ known \subseteq Paths /\ seenLocal \in [Paths -> 0..MaxChanges]
    /\ seenRemote \in [Paths -> [mid : 0..MaxMessages, hash : Hash, size : 0..1]]
    /\ plan \in [Paths -> Operations] /\ outcome \in [Paths -> {"none", "ok", "failed"}]
    /\ got \in [Paths -> Nat]
    /\ waived \subseteq Versions /\ recorded \subseteq Versions

\* Versions and edits are numbered by the changes that made them.
Numbered ==
    /\ \A p \in Paths : local[p] <= made /\ seenLocal[p] <= made
    /\ aside \subseteq 1..made
    /\ \A m \in DOMAIN msgs : msgs[m].version <= made /\ msgs[m].edits <= made

\* A message recorded for a path was posted there, and never moves.
Own(m, p) == m \in DOMAIN msgs /\ (Exists(m) => msgs[m].path = p)

\* h is the fingerprint of message m, now or before its last edits.
Dated(m, h) ==
    /\ m \in DOMAIN msgs /\ h \in {m} \X (0..MaxChanges)
    /\ Exists(m) => h[2] <= msgs[m].edits

\* The engine may take a version away, and a message that has not changed.
Covered(v) == v \in waived \cup recorded \cup {0}
Accounted(m, h) == Exists(m) /\ Fingerprint(m) = h => Covered(msgs[m].version)

\* The Synced Tree and the cleanup journal name messages that were posted; a
\* journaled message was replaced by a later one.
StoreSound ==
    /\ \A p \in Paths :
         /\ rows[p].mid # 0 => Own(rows[p].mid, p)
         /\ rows[p].rh \notin {Null, Blank} => rows[p].rh[1] = rows[p].mid
    /\ \A i \in DOMAIN cleanup : LET item == cleanup[i] IN
         /\ item.old < item.new /\ item.new \in DOMAIN msgs
         /\ Dated(item.old, item.hash) /\ Accounted(item.old, item.hash)

\* The remote tree names messages as they were when it was scanned.
ScanSound ==
    \A p \in Paths :
        IF seenRemote[p].mid = 0 THEN seenRemote[p] = NoEntry
        ELSE Own(seenRemote[p].mid, p) /\ Dated(seenRemote[p].mid, seenRemote[p].hash)

\* Where the engine is, and what it is doing there.
PositionSound ==
    /\ pc \notin {"execute", "tidy", "record"} =>
         \A p \in Paths : plan[p] = "none" /\ outcome[p] = "none"
    /\ pc \in {"retry", "tidy"} => cleanup # << >>
    /\ stage = "none" => cur = NoPath
    /\ stage # "none" =>
         \/ pc \in {"retry", "tidy"} /\ cur = NoPath /\ stage \in {"checked", "deleted"}
         \/ /\ pc = "execute" /\ cur # NoPath /\ outcome[cur] = "none"
            /\ plan[cur] \in CASE stage \in {"sent", "journaled"} -> {"upload"}
                               [] stage = "fetched" -> {"download", "keep_both"}
                               [] stage = "checked" -> {"download", "delete_local", "delete_remote"}
                               [] OTHER -> {}

\* What a planned operation may rely on until it is executed: the settings
\* allow it, and what it takes away is covered as long as it is unchanged.
OperationSound(p) ==
    LET chosen == rows[p].status \in Resolutions
        waiting == outcome[p] = "none"
        began == outcome[p] = "ok" \/ cur = p
        unchanged == local[p] = seenLocal[p] => Covered(local[p])
        message == seenRemote[p].mid # 0 => Accounted(seenRemote[p].mid, seenRemote[p].hash)
    IN /\ plan[p] = "none" => waiting
       /\ plan[p] = "conflict" => outcome[p] # "ok"
       /\ plan[p] = "upload" =>
            /\ waiting /\ cur # p => policy.direction # "download_only" \/ chosen
            /\ message
            /\ began => got[p] > seenRemote[p].mid /\ Own(got[p], p)
       /\ plan[p] = "download" =>
            /\ waiting => (policy.direction # "upload_only" \/ chosen) /\ unchanged
       /\ plan[p] \in {"download", "keep_both"} =>
            /\ seenRemote[p].mid # 0
            /\ began => got[p] \in 1..made
       /\ plan[p] = "delete_local" =>
            /\ policy.propagate_deletions /\ policy.direction # "upload_only"
            /\ waiting => unchanged
       /\ plan[p] = "delete_remote" =>
            /\ policy.propagate_deletions /\ policy.direction # "download_only"
            /\ seenRemote[p].mid # 0 /\ message
       /\ rows[p].status = "conflict" =>
            \/ plan[p] \in {"none", "conflict"}
            \/ plan[p] = "upload" /\ policy.direction = "upload_only" /\ seenRemote[p].mid = 0
            \/ plan[p] = "download" /\ policy.direction = "download_only" /\ seenLocal[p] = 0

PlanSound ==
    pc \in {"execute", "tidy", "record"} => \A p \in Paths : OperationSound(p)

\* What has passed its check, or is about to be discarded, may go.
CheckSound ==
    /\ pc = "execute" /\ stage = "checked" /\ plan[cur] \in {"download", "delete_local"} =>
         Covered(local[cur])
    /\ \A m \in CheckedMessage :
         Covered(msgs[m].version) \/ (stage = "sent" /\ msgs[m].version = local[cur])

\* The variables hold what the code can store in them, and at every point of
\* a cycle the records, the trees and the plan agree with the two sides.
SyncInv ==
    /\ TypeOK /\ Numbered /\ StoreSound /\ ScanSound
    /\ PositionSound /\ PlanSound /\ CheckSound

\* Only the engine moves its own position.
EngineMoves == position' # position

\* A version disappears from both sides only after a user replaced, deleted
\* or gave it up, or raced the engine between a passed check and its effect,
\* or after the Synced Tree had recorded it: what the engine has not yet
\* taken into its records is never overwritten or deleted, whatever changes
\* between the two scans, the plan, the transfer and the check before it.
UnrecordedKept ==
    [][EngineMoves => Present \ Present' \subseteq waived \cup recorded]_vars

\* "No conflict is resolved automatically" (SYNC_GUIDE.md): a conflict row is
\* left by the user's choice or by removing the mapping; by the engine only
\* when the cycle saw a copy missing (both, or the one a one-way mapping does
\* not own), or as the opt-in adoption of exactly the copies it names.
ConflictStays ==
    [][\A p \in Paths :
         LET here == (IF pc = "prepare" THEN local[p] ELSE seenLocal[p]) # 0
             there == seenRemote[p].mid # 0
         IN rows[p].status = "conflict" /\ rows'[p].status # "conflict" =>
              \/ pc = "idle" /\ (rows'[p].status \in Resolutions \/ rows'[p] = NoRow)
              \/ pc # "idle" /\ ~here /\ ~there
              \/ pc # "idle" /\ policy.direction = "upload_only" /\ ~there
              \/ pc # "idle" /\ policy.direction = "download_only" /\ ~here
              \/ /\ policy.adopt_matching_files /\ here /\ there
                 /\ rows'[p] = [rows[p] EXCEPT !.status = "synced"]]_vars

\* The engine keeps to the reviewed settings, a resolution excepted: an
\* upload-only mapping never changes the folder, a download-only one never
\* posts, and without deletion propagation a file is never removed and a
\* message only as a discarded attempt or for a replacement already posted.
PolicyHeld ==
    [][EngineMoves =>
         /\ \A p \in Paths : LET chosen == rows[p].status \in Resolutions IN
              /\ local'[p] # local[p] => policy.direction # "upload_only" \/ chosen
              /\ local'[p] = 0 /\ local[p] # 0 => policy.propagate_deletions
              /\ Len(msgs') > Len(msgs) /\ cur' = p => policy.direction # "download_only" \/ chosen
         /\ \A m \in DOMAIN msgs : Exists(m) /\ msgs'[m].version = 0 =>
              \/ policy.propagate_deletions /\ policy.direction # "download_only"
              \/ pc = "execute" /\ m = got[cur] /\ stage = "sent"
              \/ pc # "execute" /\ m = Head(cleanup).old /\ m < Head(cleanup).new]_vars

\* SYNC_GUIDE.md: "When both the local and remote versions changed since the
\* Synced Tree, Telegram Drive records a conflict instead of overwriting
\* either version", where the Synced Tree is "the last successfully
\* reconciled local and remote state": no version is lost that no user
\* replaced, deleted or gave up.
NothingLost ==
    [][EngineMoves => Present \ Present' \subseteq waived]_vars

\* "so a temporary error cannot turn the application's own superseded versions
\* into a permanent duplicate-path failure" (sync_engine/mod.rs): between
\* cycles, once the row names a newer message, an older one at the same path
\* that the Synced Tree had recorded is in the cleanup journal.
NoOwnDuplicate ==
    pc = "idle" =>
      \A p \in Paths : \A m \in AtPath(p, rows) :
        msgs[m].version \in recorded /\ m < rows[p].mid /\ rows[p].mid \in AtPath(p, rows) =>
           \E i \in DOMAIN cleanup : cleanup[i].old = m

=============================================================================
