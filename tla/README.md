# Telegram Drive: TLA+ specifications

Telegram Drive is a Tauri application (Rust backend under
`src/app/src-tauri/src`, React front end under `src/app/src`) that stores files
as messages of Telegram channels. These modules specify the parts of the
backend whose correctness depends on the order of steps: what may run, what is
already on disk, which account is signed in, which version of a file is the
current one. TLC checks them on small instances; TLAPS proves the invariants
of all components and the action properties the runs check, for every value of
their constants, and that the deletion grace period implements an abstract
specification of its promise.

`PROJECT.json` is the index of the development: components, runs, the map from
definitions to source lines, mutants, findings, hazards and theorems.

## 1. Inventory

Paths are relative to `src/app/src-tauri/src`.

| Component | State | Operations | What is hard about it | What makes it correct |
|---|---|---|---|---|
| Bandwidth quota, `bandwidth.rs` | counters of the week, limit, holds, load and persistence errors, `bandwidth.json` | reserve, resize, commit, release, set limit, roll the week, load | failing writes, an unreadable file, a clock set back, u64 arithmetic at the limit | recorded use is never lost; admission keeps committed and held bytes within the limit |
| Transfer queue, `transfer_engine.rs` | records in memory and in SQLite, tombstones, unsaved results, running tasks, cancellation flags | enqueue, schedule, execute, record progress and result, pause, resume, cancel, retry, remove, clear, adopt or discard legacy imports, supervise, shut down, recover | every write may fail; tasks end while commands run; the account changes under a task; restarts | memory and disk agree, removed stays removed, no accepted upload repeated, nothing runs for a signed-out account |
| Account session, `workspace/account.rs`, `commands/auth.rs` | generation, sign-out flag, registered session, session file, client, guards | initialise a client, reconnect, log in, sign out, hand out guards | all of them meet at every `await`; the file is replaced under an open connection | a guard ends with its session; a login opens only its own account; a sign-out ends in nobody signed in |
| Folder Sync, `sync_engine/`, `commands/sync.rs` | Synced Tree rows, cleanup journal, policy of the mapping; the folder and the channel | clean up, scan, plan, apply the policy, upload, download, delete, journal, record, resolve, change the mapping | users change both sides between any two steps; a cycle may stop anywhere | nothing unrecorded is overwritten, conflicts wait for the user, the reviewed settings are kept |
| Resumable upload, `resumable_upload.rs` | the record of a session; per attempt the parts in flight, the confirmed prefix and its digest | resume, verify, send, confirm, checkpoint, publish, discard | out-of-order confirmations, an end between confirmation and checkpoint, two attempts on one record, late parts, a changed source | the recorded prefix holds only confirmed parts; two versions of a source are never published as one |
| Phone and QR login, `commands/auth.rs` | attempt counter, stored login and its resend flag, password challenge | request, resend, sign in, password, QR token, poll, cancel | answers of an attempt already replaced | one resend of an attempt at a time |
| Vault, `crypto/state.rs`, `crypto/preparation.rs`, `crypto/vault/` | revision, session, keys, operation handles, prompt secrets, three files | create, unlock, change passphrase, import, export, verify, lock, auto-lock, publish a result | key derivation outside the lock; the deadline; a crash between two renames | a stale derivation is never published; the vault file is never lost; an idle vault locks |
| Traffic pacer, `traffic.rs` | lanes, waiting tickets, policy | wait, poll, drop, change policy | tickets of an older policy, a cancelled head, saved-up time | no burst, nobody waits for ever |
| Local servers, `server_lifecycle.rs`, `lib.rs` | generation, handle, operation mutex | save settings, restart, bind, install, stop, shut down | an older start ends after a newer one | only the current settings are served; every restart ends |
| Streaming routes, `server.rs`, `crypto/envelope/range.rs` | one response: range, source position, buffer, record | select, read, slice, decrypt, charge | four kinds of boundary; short sources | the body is the range asked for; nothing unauthenticated is let out |
| WebDAV, `webdav.rs` | index of the folder, session it is bound to | refresh, PUT, DELETE, COPY, MOVE | requests share the index; the account changes between index and use | replaced content is there before the old goes; only the own session is changed |
| Downloads, `commands/fs.rs`, `commands/download_destination.rs` | queue record, partial file, publication lock | reserve, read chunks, retry, cancel, publish | another program takes the name; retries half way | no file erased; what is saved is whole |
| Uploads from a URL, `commands/fs.rs` | temporary file, reservations | get, follow, resume, stream, check, publish | servers that ignore ranges or sizes; a crash with half a file; a resource that changes | the declared length, of one version unless an older leftover was continued; no byte without quota |
| Protected uploads, `commands/fs.rs`, `resumable_upload.rs` | recorded envelope, blocks sent | prepare, continue or renew the envelope, send, publish | another passphrase or source on resumption; late blocks; the digest over all that was read | one whole envelope under its passphrase; a source that stays the same opens as itself |
| Folder listings, `commands/fs.rs`, `workspace/store.rs` | two tables, active request | list in chunks, complete, delete, rename, move, open | two listings and the commands write the same rows | a completed listing is what it listed; deleted stays gone |
| File inventory, `file_inventory.rs` | listing, revisions, dirty ids, cursor | read, verify, audit, announce, invalidate | a read begun before a change ends after it | announced changes are seen, no file is missed, deletions are noticed |
| Deletion grace period, `workspace/cleanup.rs` | removal row | schedule, restore, process | a lost answer, a crash before the result is recorded | no deletion of what was taken back |
| Folder layout, `folder_layout.rs`, `commands/folder_groups.rs` | two shared tables, owner marker, saved layouts | swap at an account change, edit, scan | a crash in the middle | no layout lost or taken for another account's |
| Settings backup, `commands/settings_sync.rs` | messages in Saved Messages | upload, download | two devices at once; a stop between send and delete | the last backup is never deleted |
| Supporter licence, `commands/supporter.rs` | state file, credential store, order at the service | checkout, poll, activate, refresh | one of three stores written | no second payment asked for, none forgotten |
| Transcoding, `transcode.rs`, `fmp4_remux.rs` | jobs, worker leases, original, outputs | prepare, cancel, evict, clear, clean up | a cancelled worker that has not ended; the cleanup after a start | one writer per output, nothing live removed |
| Offline packs, `workspace/packs.rs`, `workspace/assets.rs` | record, directory of copies, entry in `JOBS` | create, list, start, pause, cancel, retry, remove, resume, expire, run | commands, resumption and the run side by side; a flag seen late; a removal while a start comes in | one run; ready means there; cancelled stays cancelled |
| Other assets and caches, REST, sharing, network, database, search, shell, user interface | see `components` in `PROJECT.json` | | mostly I/O and presentation | |

**How they interact.** The transfer queue runs the upload and download
operations; these reserve bandwidth, wait for pacer tickets and check an
account guard before they publish. Folder Sync moves contents through
*supervised* transfers of the queue (`run_supervised`), whose caller may be
dropped at any moment. A sign-out (`cmd_logout`) suspends the account first, so
that the generation changes and every guard of the old one ends, and then
clears client, session and file, one lock after the other. The scheduler of the
queue asks for the current owner before it starts a task, and the task asks
again when it begins. All of them persist through SQLite or through a JSON file
replaced by rename, and all of them go on when a write fails.

## 2. The modules

| Module | Models | Used by |
|---|---|---|
| `Bandwidth` | the quota manager | `MCServices`, `ServicesProofs` |
| `Pacer`, `VaultSessions`, `ServerLifecycle` | pacing, auto-lock and sessions, server restarts | `MCServices`, `ServicesProofs` |
| `TransferEngine` | the transfer queue | `MCTransferEngine` and three groups, `TransferEngineProofs` |
| `FileInventory` | the inventory of one folder | `MCRecords`, `LibraryProofs` |
| `ProtectedUpload`, `UrlUpload`, `Transcode`, `MediaStream`, `WebDav`, `OfflinePacks` | what moves content | `MCContent`, `ContentProofs` |
| `ServicesPromises` | the invariant of the four services | `MCServices`, `ServicesProofs` |
| `ContentPromises` | the promises two of these make together | `MCContent`, `ContentProofs` |
| `Download`, `FolderScan`, `DeletionGrace` | what changes the library | `MCLibrary`, `LibraryProofs` |
| `RemovalPromise` | what the grace period promises (abstract) | refined by `DeletionGrace` |
| `Account`, `PhoneLogin`, `Vault`, `FolderLayout`, `SettingsSync`, `Supporter` | what belongs to a user | `MCAccount`, `MCIdentity`, `AccountProofs`, `IdentityProofs` |
| `FolderSync` | one Folder Sync mapping | `MCFolderSync`, `FolderSyncProofs` |
| `ResumableUpload` | uploads of one source that continue a record | `MCResumableUpload`, `ResumableUploadProofs` |

Modules that share no state are checked together: a group module (`MCServices`,
`MCRecords`, `MCContent`, `MCLibrary`, `MCIdentity`) extends them and adds one
variable, `focus`, the component whose behaviour this is. Its next-state relation is
the disjunction of the members' with the others unchanged, so that a run explores
each member on its own and no product of their states; the members out of focus
stand in their initial states, of which one is chosen. Every property of a group
speaks of one member, except `ServicesInv`, which has a part of each, and
`PublishedInv` and `ServedInv`, which join two; the other invariants whose names end
in `Inv` are the conjunction of the named parts of one module.

In every module a variable has the name of the field, table, file or lock it
stands for where there is one; an action is one lock section, one SQL
transaction or one external call, because these are the points where other
work can come in between. Definitions named after another one with a twist
(`AtStartsFresh`, `SettledPauseWins`, ...) are mutants: plausible mistakes
kept beside the definition they would replace, each of which makes TLC refute
the property it is listed with. No specification uses them.

### Bandwidth

State: `stats`, `limit`, `holds`, `next_id`, `persistence_error`, `load_error`
(the fields of `Accounting` and the atomic limit beside it), `disk` and
`readable` (`bandwidth.json`), `clock` (the week of `Local::now`). Every public
method takes the mutex, runs `prepare` (retry a failed load, roll the week, write
what is unsaved) and then does its own work; the action does both, with the
outcome of each write as a parameter (`prepared`, `saved`). `At` is a restart.
`ClockMoves` may go in either direction; `ReadabilityChanges` makes the file
unreadable or readable again. Counters are u64 in the code, and `MaxU64` stands
for `u64::MAX`.

### TransferEngine

State: `jobs` (memory), `disk` and `tombstones` (SQLite), `pending_commits`
(results whose write failed), `active` and `task` (spawned `execute` calls and
how far each has come), `cancelled` (flags of `TelegramState`), `account` and
`client`, `supervisor` (one per supervised call), `zips` (temporary sources).
`published`, `succeeded` and `wanted` are history: publications Telegram
accepted, operations that answered success, cancellations a user asked for.

- Queueing: `EnqueueMany`, `RunSupervised`. Scheduling: `ScheduleOnce` is one
  turn of the loop, with the retry of unsaved results, the cooldowns that are
  due and the write of the durable intent, which may fail.
- A run: `ExecuteStart`, `ObserveCancel`, `Publish`, `SendAgain`,
  `ReportPublished`, `OperationFails`, `RecordProgress`; then `FinishSaved`,
  `FinishUnsaved` or `FinishRemoved`. `Publish` may be accepted with the answer
  lost, which is how a network error after an accepted message arises.
- Commands: `Transition` (pause, resume, cancel, retry, remove),
  `TransitionSavesResult`, `ClearTerminal`, `AdoptLegacy`, `DiscardLegacy`,
  `SetLimits`. Supervision: `Decide`, `Withdraw`, `WithdrawReturns`.
- World: `Suspend`, `Logout`, `SignIn`, `Reconnect`, `BeginShutdown`, and
  `Restart`, which keeps the database only and recovers its rows.

Each job carries status, owner, error category, revision, position, attempts
and whether its last write is pending. Not modelled: prompt tokens, the
reservation of download paths (a refusal of the request), progress figures, the
activity projection. A one-way bound: `MaxRevision` stops new runs, progress and
commands at that revision, never a result or a save that is under way.

### Account

State: `generation` and `signing_out` (LIFECYCLE), `sessions` (LIVE_SESSIONS),
`file` and `contents` (the session file by device and inode, and the account it
is signed in as), `opened`, `born`, `live` (open connections), `client`,
`session` and `api_id` (TelegramState), and the position of each command in
progress: one client initialisation (the client lock admits one), one
reconnect, one login, one sign-out. `guard` is one guard of those handed out.
The initialisation is split at its awaits and at the file system calls between
which the file may be removed: `EnsureBegin`, `EnsureStat`, `EnsureOpen`,
`EnsureRetry`, `EnsureQuarantine`, `EnsureInsert`, `EnsureRegister`,
`EnsureRefused`, `EnsureInstallSession`, `EnsureInstallClient`. Login:
`LoginCapture`, `LoginWrite`, `LoginFinish`, `LoginFails`. Sign-out: `Suspend`,
`LogoutClearClient`, `LogoutClearApi`, `LogoutClearSession`, `LogoutRemove`.
`Drop` closes a connection that nothing refers to. Two assumptions come from
Telegram and are stated in the module: a session key serves one account, and a
confirmed login writes the account into the file its connection has open.

### FolderSync

State: `local` and `aside` (the folder and its conflict copies), `msgs` (the
channel), `rows` (table `sync_state`), `cleanup` (the journal of superseded
messages), `policy`, and the engine's cycle: where it is (`pc`, `stage`, `cur`)
and what it has read and planned (`known`, `seenLocal`, `seenRemote`, `plan`,
`outcome`, `got`). A cycle is `StartCycle`, the retry of the cleanup journal
(`CleanupDecide`, `CleanupDelete`, `CleanupSave`), `ScanRemote`, `Prepare` (the
local scan, adoption, planner, policy, mass-deletion guard and the rows written
before execution), one operation per path in any order, `Settle` (journal the
superseded messages) and `Record`. `Abandon` stands for every early error
return, abort, shutdown and crash between two steps. Users write, remove, post,
edit and delete at any time, resolve conflicts and change or replace the
mapping when no cycle runs (the commands pause the engine and take its operation
lock, `with_sync_paused`).

What is abstracted. A version is a fresh number and stands for the hash of the
contents; a message's fingerprint is its id and its number of edits, as
`remote_fingerprint` hashes exactly what an edit changes. A local SHA-256 and a
`v2:` fingerprint are never equal, so the planner's branches on equal hashes are not
taken and are left out. Conflict copies are new names and are not synced further.
Left out: ignore patterns, protected envelopes and the paused-vault state, the size
cap, the reuse of hashes by the incremental scanner, the statuses `skipped` and
`paused_vault`, which are recorded as `error` here, the step between marking a
conflict row and dropping its journal item (repeated, it sets the same status),
staging files left by a crash (a later download fails with an error), preview
tokens, the debouncing of the watcher.

### ResumableUpload

State: `source` (the file: content, stamp, whether the stamp is young), `record`
(the `upload-session-v1` record of the account's store), `files` (file ids chosen
so far), `stored` and `wire` (Telegram: what it holds, and the requests still on
their way), and `run`, one `initiate_upload()` per attempt with the local state
of `upload()`. `acked` and the field `steady` are history: what Telegram
confirmed, and whether the source is still the one the attempt began with.

- Beginning: `Begin` (fingerprint), `Load` and `Remove` (`session()` and the new
  session), `VerifyPart`, `Verified`, `Stale` (the prefix read again).
- Sending: `ReadPart`, `ReadFails`, `Confirm` (with or without a checkpoint),
  `PartFails`, `EndSend` (the final save). `Deliver` is Telegram's; an answer is
  taken only when no further part can be read, as the loop of `upload()` does.
- Publishing: `Publish`, `PublishRefused`, `Finish`, `GiveUp` with the one restart
  a call may make. `Stop` is every other end of a call: cancellation, an account
  change, an error of the store or of Telegram, a crash. What was sent stays on
  its way.
- World: `Modify` (another program writes in place), `TimePasses`, `Expire`.

What is abstracted. A part is one byte and a digest is the sequence it is taken
of, so digests are as good as collision-free. The stamp stands for size and
modification time: a change either leaves a young stamp as it is (the racy
window of two seconds) or makes a new one; modification times that are set back
by hand are not considered. A lost request is one never delivered. Publication
with a lost answer is a `Stop`. A record for another name or size is one more
reason for `Remove`; a record of the same key has the same envelope, since only
the plain variant is modelled. An attempt is one call; a call made later is
another attempt.

### The services: Pacer, VaultSessions, ServerLifecycle

`Pacer` is one lane: the policy in force and the one the lane last saw, the
queue of ticket ids, and for each transfer its ticket. A poll of `Pacer::wait`
is one action per outcome (`PollPaused`, `PollFree`, `PollJoin`, `PollRefused`,
`PollGranted`); `Abandon` is the `Drop` of the ticket. Times are ages since the
cursor, the joining and the last grant, cut off at the longest part's time.
`VaultSessions` has the sessions of `CryptoStateInner`, the handles and keys
given out, and the supervisor `wait_until_auto_locked` split where it reads the
deadline and where it waits; `permit` is the stored permit of `notify_one`. A
worker keeps the bytes of its key when the vault is locked, and an opening over an
open vault keeps the earlier handles and keys in the state; the history variables
`oldHandles` and `oldKeys` are those from before the last lock or opening, and
`staleUse` says whether one of them was ever honoured.
`ServerLifecycle` has the settings file, `LifecycleState`, the operation mutex,
each settings command and each server thread; the retry of a bind with delays is
one `Bind`.

### Vault and PhoneLogin

`Vault` splits `run_vault_operation` into its ticket, its preparation outside the
mutex and its publication, and `atomic_write` into its file system calls, with
`VaultCrash` and a failure possible at each; the rename back, whose failure the code
ignores, always succeeds (a crash before it leaves what its failure would). A vault
is the pair of its key material and the passphrase that opens it. `PhoneLogin` has
the attempt counter, the stored login and the challenge, each changed under a lock
of its own, and one record per command in flight; `Answered`, `StoreCheck` and
`StoreSentCode` are the steps after Telegram's answer.

### FileInventory and FolderScan

`FileInventory` splits `Inventory::read` at its awaits: the walk of the history,
the verification of announced ids, the audit batch, the saving of the cursor and
the publication, which fails when a revision moved (`ReadConflicts`). `Mutate`,
`ChangedRevision`, `ChangedDirty` and `Apply` are the steps of a command of this
application; other devices send and delete at any time. An audit batch waits for
room in the budget all folders share (`AuditRefused`). `FolderScan` takes a
listing and its revision ticket as given and models what `cmd_get_files` does
with it: chunks written under the shared lock in two transactions, the end under
the exclusive lock, and the commands that delete, rename, move and open files
of the folder beside it.

### Download, UrlUpload, ProtectedUpload

`Download` runs from the reserved name to the published file; a protected one
asks for the vault's credential in a step of its own (`OpenProtected`), because
the vault may be locked or reopened since the request. (An envelope sealed with a
file passphrase alone needs no vault session; no property depends on it, and every
protected download here needs one.) The directory
belongs to every program: `OtherProgramWrites` may take any name at any moment,
and `Moves` is the one file system call that publishes. A name is the sequence of
numbers added to it. `UrlUpload` has the request with its redirects, the choice
between a new, a continued and a restarted temporary file, the reservations that
grow ahead of each chunk, the size check and the publication. `UrlCrash` leaves
the temporary file. The resource may change at any time (`RemoteChanges`), a chunk
carries its version and its place, and a body without a declared size ends where
it likes, because the code sends no If-Range, reads no ETag and takes a body that
ends without an error for whole. Of HTTP is assumed that one response is of one
version, that a body with a declared size is whole or an error, and that a 206
begins where it was asked to. `ProtectedUpload` follows the envelope of one source:
which envelope the record names, which block was sent under which envelope and with
which version, the final record with the digest of all that the attempt read
(`FinalRecord`), and what a published message consists of. A message opens as some
versions (`OpensAs`) when every part is of its envelope and the final record is of
exactly these. The stamp is size and modification time; an edit within
`RACY_SOURCE_WINDOW_SECS` of the last may keep it (`Edit`, `Settle`), and
`UsableProgress` trusts only a record made of a settled stamp. A change of the size
ends the attempt in the code and is left out; one part holds one block.

### MediaStream, Transcode, WebDav

`MediaStream` is one response. The bytes of the source are their positions, so
that the body can be compared with the range that was asked for; protected
sources have a header, records with a tag and a final digest, and one record may
be damaged. `Wanted` is the reference definition, after RFC 9110.
`Transcode` has the jobs of one video, the worker of each from registration to
the end of its lease, the lock of the shared original, eviction, clearing and the
cleanup after a start, which looks and removes in two steps.
`WebDav` has two requests at work on one folder. Each captures the session, reads
the index under its lock and acts at Telegram afterwards; the history variable
`gone` keeps why a message disappeared and what replaced it.

### OfflinePacks

One pack: `offlinePack` is its record, `copies` and `parts` its directory,
`packJob` its entry in `JOBS` and `stopping` the `AtomicBool` in it. Every use of
the store is one transaction and one action, and `maintain`, with which each
command begins, is one (`Reconcile`, `RemoveExpired`, or a removal the file system
refuses). A command is split where it asks `JOBS`, updates the record, waits for
the run, launches and removes; `run_pack` where it waits: at the network's gate,
in the download, after it. Three races of the code are in the model and not
excluded by the code; the properties say so where they meet them. A run that
picked a file and waits for the network's state writes "downloading" over a
cancellation that came meanwhile (the exception in `CancelStays`); a pack started
while a removal waits loses copies it then reports, until a `maintain` that finds
no run (the history variable `torn`); and a resumption that read the record
before a pause launches the pack again, because `launch` does not look at
`auto_resume`.

### FolderLayout, SettingsSync, Supporter

`FolderLayout` has the two shared tables, the owner marker, each account's saved
layout and the swap between two accounts, step by step; `left` is history, each
account's layout as last changed. An unreadable marker file, which the code reads as
no marker (`folder_layout.rs`, `.ok()`), is not among the errors modelled.
`SettingsSync` has the messages of the chat and the uploads of each device; a
listing sees the newest `ScanLimit` messages. `LastBackupKept` says that the last
accepted backup is never deleted, not that it stays among the newest `ScanLimit`.
`Supporter` has the state file, the credential store and the order at the service;
each write is a step and `Interrupted` may fall between any two.

### DeletionGrace and RemovalPromise

`DeletionGrace` has the message, the removal row, and the command that holds the
lock `OPERATIONS` with what it has read. Processing is fetch, comparison of the
fingerprint, the claim (`deleting`), the call, its answer or the loss of it, and
the record of the end. `RemovalPromise` states the promise without any of this: a
file is kept, offered, condemned or gone; only what is condemned is destroyed,
and only what no longer exists is given up. The mapping `Fate` reads the
removal's status, `exists` is whether the message is at Telegram, `destroyed`
the history variable `killed`.

## 3. Runs

| Run | Configuration | States | Asks |
|---|---|---|---|
| `services` | `Services.cfg` | 88 thousand | Quota, pacer, auto-lock and servers, with the liveness of their loops. |
| `records` | `Records.cfg` | 298 thousand | The whole life of one upload with two accounts, and the inventory of one folder, with liveness. |
| `content` | `Content.cfg` | 1.1 million | Two uploads under changing limits; protected uploads, URL uploads, streaming, conversions, WebDAV, an offline pack. |
| `library` | `Library.cfg` | 1.2 million | A supervised and an ownerless transfer; downloads, folder scans, the grace period and its refinement. |
| `identity` | `Identity.cfg` | 1.1 million | Account session, login prompts, vault, layouts, settings backup, supporter licence. |
| `folder_sync` | `FolderSync.cfg` | 1.8 million | One path under three policies, with changes, failures and aborts between any two steps. |
| `resumable_upload` | `ResumableUpload.cfg` | 1.7 million | Two attempts at one source, together or in turn, with late parts and a source written meanwhile. |

### What the passing runs show

*Services.* `ServicesInv` conjoins `BandwidthInv` (a manager that has read its file
never holds less than the file, without a pending error everything used is on disk,
and a manager that could not read its file admits nothing), `ChargesFit` (no commit
overflows), `NothingOutlivesItsSession` (no handle and no key from before a lock or
an opening yields a key or publishes afterwards) and `OnlyCurrentServed` (when the
restarts are over, what accepts connections has the current settings). The file
never records less use (`RecordedUseNeverLost`). No part is let through sooner than
a full part's time after the one before and after it asked (`NoBurst`).

*Inventory.* An inventory that does not count as dirty shows every change this
application announced and a complete one passes no file over (`InventoryInv`);
a file deleted elsewhere does not stay listed (`DeletionsNoticed`).

*Content.* What a protected upload published has all of its parts under one
envelope, sealed with its passphrase; if the source did not change while the
attempt ran it opens as exactly that source, and if the attempt continued nothing
it opens as what was read (`ProtectedInv`, in `PublishedInv`). An attempt that
continues an envelope and whose source is then edited promises no more: a part of
the earlier version that arrives late makes a file the final record refuses. What
an upload from a URL published has every chunk at its place and the declared size,
and is one version of the resource unless a leftover was continued over a resource
that had changed; both quotas admitted it before it was written (`UrlInv`, in
`PublishedInv`). A client gets a prefix of the
bytes it asked for, all of them when it is charged, and never a byte of a record
that does not authenticate (`MediaInv`, in `ServedInv`); no two workers are on one output
(`TranscodeInv`) and no live file is evicted or cleared (`LiveFilesKept`); what
WebDAV replaces goes only after its replacement arrived (`DavInv`, in `ServedInv`),
and no request changes a file of another session (`OwnSessionOnly`). An offline pack
has one run, reports as ready only files that are in its directory, and never
removes a copy it reported after a retry (`PackInv`); a cancelled file stays
cancelled however its download ends (`CancelStays`).

*Library.* Publication never erases a file unless the user chose Replace
(`NothingErased`), and what it saved is whole (`DownloadInv`). A listing that
completes leaves exactly what it listed (`CompleteIsListing`), and no listing
brings back a deleted file (`ScanInv`). The grace period is a refinement of
`RemovalPromise` (`KeepsPromise`).

*Identity.* Besides the account session below: one resend of an attempt at a time
(`PhoneInv`); while the vault is open and nothing commits, its file yields the
very keys in memory (`VaultInv`); an operation in preparation when the vault was
locked never opens it or writes its file (`LockWins`); the readable vault stays
readable until the new one is (`VaultNeverLost`); each account's layout is in the
tables or in its store (`LayoutInv`); the last accepted backup is there
(`LastBackupKept`); no second payment link while an order may be paid, and no
payment forgotten (`SupporterInv`).

*Transfer queue.* `DiskNotAhead` makes the database's "only newer revisions"
rule harmless: it never drops a write. `NoResurrection`, `DurableIntent`,
`UnsavedIsHeld` and `SourceKept` are the four promises the engine's comments
make about removal, starting, failed saves and temporary sources. `NoRepeat`: an
operation that answered success is not run again in the same process unless the
user asks for it. `CompletedIsFinal`, `OwnAccountOnly`, `LegacyWaits`,
`WithdrawnIsForgotten`, `SuccessIsPublished`, `WithdrawnNeverStarts`,
`PositionsDistinct` and `SlotsRespected` are commented in the module.
`ResultEventuallySaved` is the liveness property.

*Account.* A guard of an ended session stays invalid even when the same account
signs in again (`GuardsEnd`); one generation never opens two writers of one file
(`OneWriter`); after a sign-out that removed the file nobody is signed in
(`SignedOutStays`); a login that completes opens the workspace of exactly the
account that was confirmed (`LoginOpensOwnWorkspace`).

*Folder Sync.* `UnrecordedKept`: what the engine has not yet taken into the
Synced Tree is never overwritten or deleted. `ConflictStays`: conflicts wait for
the user. `PolicyHeld`: direction and deletion settings are kept. Two things
are excused, and both are visible in the definitions: what a user puts in place
in the moment between a passed precondition check and its effect (`Raced`, a
window of one system or remote call), and the side a user gave up by a
resolution that is still to be executed (`GivenUp`).

*Resumable upload.* `RecordIsConfirmed`: every record, whichever attempt wrote it
last, claims only parts Telegram confirmed, and only a completely confirmed
file is published. `PublishedIsSource`: an attempt whose source did not change
publishes exactly that source, although parts of an earlier content may be on
their way. What makes it true is that a record made while the stamp was young
is never continued: the mutant that drops this condition publishes a mixture,
because the digest covers the confirmed prefix and not the unconfirmed parts
sent after it. `TypeOK` includes that nothing is sent before the whole recorded
prefix was read again.

### Findings

Five runs state what a comment or a guide of the repository says and TLC shows
that the code does otherwise.

| Run | Property | What happens |
|---|---|---|
| `transfer_stale_cancel` | `CancelledIsWanted` | Pause sets the cancellation flag of a running job. If the operation ends for another reason, the flag stays; after Resume the new run reads it and the transfer ends as Cancelled. |
| `sync_lost` | `NothingLost` | A failed first upload leaves an `error` row with a local hash. The planner takes it for a reconciled state, so a Telegram file posted later is downloaded over the local one. |
| `sync_duplicate` | `NoOwnDuplicate` | The superseded message enters the cleanup journal only after the whole batch. An engine stopped before that leaves two messages at one path, and every later cycle ends with the duplicate-path error. |
| `transcode_cleanup` | `CleanupSparesLive` | The cleanup after a start looks at the age of a video's directory and removes it in a second step; a conversion begun in between loses its output. |
| `envelope_reuse` | `OneContentPerEnvelope` | An attempt ends with a block sent but not confirmed; the next one takes the fingerprint of the unchanged source and continues the envelope; the source is written before the block is read again, and the block is encrypted with other content under the same key. The check of a settled time stamp does not help: the stamp is read before the edit. |

`NothingLost` fails in a second way, reachable with the policy `Backup` alone: an
upload-only mapping records a Telegram-only file as synced, and a local file
made later at the path is uploaded over it.

Further behaviours are reachable in the models and are stated by no property:

- `withdraw` stops waiting after its settle timeout and takes the cancellation
  flag back; a send loop in a flood wait may publish afterwards.
- A connect that waited for the client lock makes a client from the old session
  file after `cmd_logout` cleared the client and before it removed the file.
- An id queued again while its result is unsaved can be stranded by a restart.
- A sign-out between an accepted publication and its bookkeeping turns it into an
  account error, and the resumed transfer sends again.
- Pause and resume during a run, followed by a crash, restart the transfer
  without the review that interrupted transfers get.
- A folder created while a folder scan is reading the dialogs is pruned by the
  end of that scan, until the next one finds it again.
- An upload from a URL continues what a killed process left without asking
  whether the resource is still the same, and publishes a mixture of two versions
  when the lengths fit; a leftover of the declared length is published unread.
- A body without a declared size that ends early, without an error of the
  connection, is published as it is.
- A protected upload that continues an envelope while its source is being written
  may publish a file whose final record does not agree with its blocks.
- A Keep-both download that finds its name taken at publication goes on to the
  next number, though another queued download has reserved that name with
  Replace and then overwrites the file.

### Bounds, and why they are enough

- *Bandwidth*: two ids ever handed out, at most two holds, sizes {0, 1, 3},
  limits {1, 3}, counters up to 4, two weeks. Size 0 and the largest size meet
  both limits and the counter's end, two holds are needed to exceed a limit
  together, and two weeks to roll over and to set the clock back.
- *Pacer*: two transfers, two speeds and two changes of policy, so that a ticket
  of the first policy meets the third; four tickets. *Sessions*: two sessions and
  one worker, whose key may be of the first when the second is open. *Servers*:
  three commands, so that the middle one is both overtaken and overtaking.
- *Transfers*: no two ids share state other than slots and positions, which is
  also how the proof is organised, so one upload is enough for its life
  (`MaxRevision` 6: queue, start, progress, pause or failure, retry, result; two
  publications, so that one can be repeated). Two ids are used for positions and
  slots (`MaxRevision` 2, no publication, batches of up to two, limit 1 or 2),
  and for a supervised and a legacy transfer (`MaxRevision` 3). One network
  retry is enough to reach both a retry and its exhaustion.
- *Inventory*: two messages and room for one file, so that the listing is cut; one
  change of this application, any of the other devices.
- *Content*: two blocks and the final record, two passphrases, two envelopes and
  one edit, with or without a new stamp; a resource of 3, then 2, then 4 chunks
  with a limit of 3, so that a leftover meets a shorter version, a longer one and
  one that only the limit stops, and any number of attempts; two
  variants of one video and one crash; files of 0 to 5 bytes with alignment 4,
  source chunks of 2 and records of 2, so that all boundaries fall differently,
  and all ranges with numbers up to 6; two WebDAV requests at one name, four
  messages and two sessions.
- *Library*: two downloads of one name with two chunks and one retry, one of them
  protected and of known size; two scans of two files and one command; three
  versions of the message of a removal.
- *Offline pack*: two files, one of them protected and therefore unsupported, two
  commands at once, two runs, and three events (commands, an expiry, sign-ins,
  crashes) from a new pack or from one whose run has begun.
- *Account*: one sign-out (generations 0 and 1), three files and three
  connections ever made: the file before the sign-out, a quarantined one and the
  one after it. Two accounts, interchangeable (symmetry).
- *Identity, the rest*: three login calls and two attempts; two vault operations,
  materials, sessions and revisions, one passphrase (a change of it is told apart by
  the material; the theorems cover any number); two accounts with one channel, one group and
  one edit; two devices and four messages with a listing of two; three orders and
  a foreign purchase.
- *Folder Sync*: one path; in each cycle one further recorded file or none, so that
  a deletion passes the mass-deletion guard or ends the cycle; three user changes, three messages, and the
  policies two-way mirror with deletions and adoption, upload-only without
  deletions, download-only with deletions. The planner treats each path alone;
  the paths of a cycle meet in the guard and in the order of execution only.
  Three changes suffice for a base version, a change of it, and a change during
  the cycle. With four changes and two policies the same properties hold (4.5
  million states; not part of the runs because of its length).
- *Resumable upload*: two attempts, two parts, two workers, two file ids, two
  contents that differ in every part (so that no mixture is a content), one new
  stamp. Two attempts are enough for one to leave a record and late parts to the
  other, or to run beside it; two file ids for one restart. Not a video
  (`Video` FALSE), and parts do not expire while an attempt adds to them
  (`ExpireInUse` FALSE): both only shorten the run, and the theorem covers the
  other values.

Deadlock is not checked where the bounds on ids, files, sessions or messages end
a behaviour in which the program would go on, or where every call ends.

### Fairness

Five liveness properties need fairness; it is stated in the group modules, each
conjunct for the member in focus.

- `ResultEventuallySaved`: strong fairness of the scheduler turns that save a
  result. The loop of `transfer_engine.rs` wakes at least once a second until
  shutdown and tries every unsaved result in each turn, before it looks at the
  account or the connection. That the disk does not fail for ever is an
  assumption about the environment.
- `WaitsEnd`: weak fairness of the clock and of each transfer's polls; `Pacer::wait`
  polls again after at most 250 ms. A lane that ends up paused is excepted in the
  property.
- `IdleVaultLocks`: weak fairness of the supervisor task, strong fairness of its
  locking step, because `select!` picks at random between a deadline and a change
  that are both ready.
- `RestartsEnd`: weak fairness of each command and each server thread, and of the
  end of a server that was asked to stop.
- `DeletionsNoticed`: the background loop reads, audits and announces (weak
  fairness); an audit that is due finds room again and again in the budget all
  folders share, a number of batches per minute (strong fairness of `AuditBatch`); the beginning of a background read is strongly fair, because a
  read that finds another under way waits for it and tries again; and Telegram
  refuses reads only finitely often, which is an assumption about the environment.

## 4. Proofs

Eight modules hold proofs, checked by TLAPS for all values of the constants that
satisfy the assumptions named in the modules. These say that bounds are natural
numbers (`BandwidthAssumption`, `UploadAssumption`, `LimitsAssumption`,
`VersionAssumption`, `MaxCommandsAssumption`, `MaxEditsAssumption`,
`PhoneAssumption`, `SizesAssumption`, `AttemptsAssumption`, `MaxOpenAssumption`,
`RestartsAssumption`, `InventoryAssumption`, `ProtectedAssumption`), or lengths
that are not zero (`MediaStreamAssumption`, `PacerAssumption`), that the names which
stand for "nobody", "no path" and the like are not among the real ones
(`AccountAssumption`, `AccountNames`, `TagsAssumption`, `SupporterAssumption`,
`NoJobAssumption`), that a channel has a holder (`HolderAssumption`), that there
is something to work on (`SyncConstants`: some path and some policy, finitely
many paths; `VaultAssumption`, `TranscodeAssumption`), that protected downloads
have a known size (`DownloadAssumption`), that the protected files of a pack are
among its files (`PackAssumption`), and that the finitely many names a
WebDAV folder begins with fit into the bound on messages
(`DavBoundsAssumption`).

**`ServicesProofs`**, four components. *Quota*: the inductive invariant is
`BandwidthInv`: `TypeOK` with `MemoryNotBehindDisk`, `QuietMeansDurable` and
`UnreadAdmitsNothing`. None of the three is inductive alone: a commit writes memory
over the file, which is safe only if memory is not behind; a manager that failed to
read the file knows nothing, and is kept from writing because it holds no
reservation. The argument follows the code: `Persist` and `Prepare` are described by
lemmas (`PersistOK`, `PrepareOK`, `PersistAfterPrepare`), `NoLess` is a preorder,
and each action is `Prepare` followed by at most one `Persist`. `ChargesFit` bounds
a sum over the reservations. The prover has no induction over data, so `Held` is not
a fold but the number of the bytes held, pairs of a hold and a number up to its
size; that one hold taken out of the sum takes away its own bytes (`HeldSplit`) is
then a fact about the cardinality of a disjoint union. Inductive it becomes with
`IInv` and that the ids of the holds were handed out (`QuotaSound`), because a new
hold must not replace one; what a reload brings in fits because a manager that had
not read its file has no holds. *Pacer*: `NoBurst` compares two grants of one lane,
so that the invariant (`PaceSound`) has to say how long ago each ticket joined and
the cursor was set: tickets are drawn in order (`PlacesDrawn`), the ticket at the
head of a lane joined no later than its cursor was set (`HeadWaited`), and the
cursor was set no earlier than the last grant. *Servers*: a thread that was not
answered yet belongs to a command that waits for it, one that serves is the
installed one, and when a newer generation has been drawn the command that drew it
has still to take the handle; commands are counted against the versions of the
settings and the generations. *Sessions*: an open vault holds the key of its
session. Sessions are numbered upwards, so what a worker was given before a lock or
an opening names neither the open session nor none (`SessionsSound`); each check of
a handle or of a key compares with these and therefore refuses it. Theorems:
`BandwidthInvariant`, `ChargesAlwaysFit`, `UseNeverLost` (the action property
`RecordedUseNeverLost`), `PacedWithoutBurst` (`NoBurst`), `ServerInvariant`,
`SessionsInvariant`, and with these `ServicesInvariant` (`ServicesInv`).

**`TransferEngineProofs`.** The invariant is `TypeOK` and, for each id,
`Sound(id)`, a relation between its record, row, unsaved result, task, tombstone
and supervisor: `Agree` (the row is never ahead, and a completed row has a
completed record), `Runs` (an active record has a task and an active row, and
no completed record runs), `Waits` (an unsaved result and its record agree in
revision, status and owner, and nothing runs), `Gone` (a tombstoned id is
nowhere, and a task without a record was removed or supervised), `Source`,
`Call` and `Answered`. The strengthenings that the stated invariants lack:
*no completed record runs* (otherwise a late result could overwrite a completed
row), *a task without a record is tombstoned* (otherwise its late result would
insert a row again), *an unused supervised id has no row*. Because no action ties
the records of two ids together, almost every action is proved by showing what
it does to one id (`CommittedOK`, `RemovedOK`, `OutsideOK`); only the scheduler's
turn needs an intermediate state, the records after the retried saves
(`HalfwayOK`). Three further invariants rest on it. `PlacedInv`: memory, database and
unsaved result give an id one position (`Placed`), what is completed was
published (`Earned`), and so was what a task or a supervisor says Ok of
(`Claimed`). `SpentInv`: an id whose operation answered Ok is about to report
it, is completed, or was removed for good (`Spent`), and an id that a supervisor
asked for is not taken for another call (`Taken`). `FiniteInv`: the queue is a
finite set, without which the number of records before a given one means
nothing; the slots then follow from `RankBound`, that at most n elements of a
finite set have fewer than n before them.
Theorems: `TransferInvariant` (`QueueInv`), `CompletedFinal`,
`WithdrawnNotStarted`, `OwnAccount`, `SupervisedInvariant` (`SupervisedInv`),
`SucceededNotRepeated` (`NoRepeat`), `SlotsKept` (`SlotsRespected`).

**`ResumableUploadProofs`.** The invariant `IInv` says more than the properties
about records and attempts alike (`Trusted`): a *settled* session that has the
present stamp implies that the stamp is no longer young and that all Telegram
holds, *or may still receive*, under its file id is the present source (`Pure`).
A change of the source therefore never meets a settled session of the new
fingerprint, and a session resumed by fingerprint inherits purity from the
record (`LoadOK`, `ModifyOK`). `Answers` and `Window` relate the confirmed parts to
what is read, in flight and acknowledged; with them, an attempt that ends
without failure has all parts confirmed (`EndSendOK`). `WireOK` makes the request
for a part unique, so that an answer is taken for the part it belongs to
(`DeliverOK`). The prefix of `NewPrefix` exists by the least-element principle
(`NewPrefixOK`). Steps that leave Telegram alone are reduced to the attempt that
moves (`OneMoves`), the others to keeping what is pure (`KeepsPure`, `Together`).
Theorem: `UploadInvariant` (`UploadInv`).

**`AccountProofs`.** `AccountInv` numbers what the program makes: session files,
connections and generations are given out in order (`Numbered`), so a connection
is known by the file it opened and the generation it was born in. `OneWriter`, no
two live connections with the same pair, rests on `RegistrySound`: a live
connection to the present file of the present generation is known to the
registry, so the next connect finds it. `EnsureSound` and `LoginSound` carry what
a connect and a login in progress have established over each of their awaits,
`SignedOutFile` that the session file after a sign-out is nobody's.
`GuardsEnd` and `SignedOutStays` follow. Theorems:
`AccountInvariant`; `LoginOpensOwn` (the action property
`LoginOpensOwnWorkspace`), for which the login's own generation and the
confirmed owner have to be related to the registry at the moment of completion.

**`FolderSyncProofs`.** `SyncInv` is inductive after a strengthening that follows
a cycle. Messages are never moved or posted again, and an edit shows (`Grows`): a
message with the fingerprint a scan saw has the version it had then. A version is
*covered* when the Synced Tree has recorded it or a user gave it up (`Covered`,
`Accounted`). `StoreSound` says what a row vouches for, `ScanSound` the same of
the two scanned trees, `PositionSound` where the engine is, `PlanSound` that what
the plan will overwrite or delete is covered, and `CheckSound` what the operation
under way has established by its last look at the side it changes. The three
action properties are corollaries, action by action. Theorems:
`SyncInvariant` (`SyncInv`), `UnrecordedSafe` (`UnrecordedKept`), `PolicyKept`
(`PolicyHeld`), `ConflictsWait` (`ConflictStays`).

**`IdentityProofs`**, five components that share no state.
*Settings backup*: `LastBackupKept` is not inductive, as an upload deletes a set it
listed long before. `SettingsInv` adds that what an upload is about to delete is
older than the last accepted backup (`DeletesOlder`), strictly so once its own
message was accepted, and that no backup is newer than the last one. *Supporter*:
which of the three stores names the claim, the purchase and the secret at each
step of a task (`ClaimKept`, `PurchaseKept`, `TaskSound`). *Phone login*: attempts
are drawn from one counter (`AttemptsDrawn`) and two commands never hold the same
(`AttemptsApart`), so an answer that finds its number stored is the current one.
*Layouts*: what a folder scan read belongs to the account it began with
(`ScanSound`), and after each step of a swap one of the two places still has the
layout (`SwapSound`). *Vault*: the ticket of an operation is the revision it saw,
so a published operation found nothing changed; and the mutex has one holder, so
only that operation's file steps can be half done. Theorems:
`LastBackupNeverDeleted`, `SupporterInvariant`, `PhoneInvariant`,
`LayoutInvariant`, `VaultInvariant`, `LockingWins` (`LockWins`), `VaultKept`
(`VaultNeverLost`).

**`LibraryProofs`**, four components. *Grace period*: `GraceInv` says what the
command in progress knows at each of its stages: a message fetched as absent stays
absent, a claimed removal is `deleting` until its command ends, and a removal is
scheduled only while nothing was deleted by this application. From it,
`RestorableNeverDeleted` and `DeletedOnlyWhenGone`; and step simulation,
`GraceKeepsPromise`: the initial state maps to the promise's, and each action to one
step of `RemovalPromise` or to none. Where the invariant is needed: a removal
scheduled again maps to `Offer`, which requires that the file was not destroyed; a
changed file met by a retried deletion maps to `Spare`, which requires the same; the
record of the end maps to `GiveUp`, which requires that the message is gone.
*Downloads*: what a download has is the remote file's beginning, in order, in a
partial file of its own (`ReceivedInOrder`); `NothingErased` then needs that the
move looks at the name in the very step that takes it. *Folder scans*: while a scan
is the active one its tag is on exactly the rows it wrote (`TagsKept`, `RowsSound`),
a deletion that was applied is known to every scan that could still write the row
(`DeletionsKnown`), because its revision ticket is spent when the revision moves,
and the shared and exclusive locks are held as the stages say (`LocksHeld`).
*Inventory*: a row that is behind an announced change is of a dirty id; a read whose
generation is still the current one has seen every change announced before it, or
has it among the ids it still verifies; it walks down from the newest message,
messages are sent in order, and a walk that was cut short, by the limit on files or
by a refusal, is not complete. Theorems: `GraceInvariant`, `RestorableNeverDeleted`,
`DeletedOnlyWhenGone`, `GraceKeepsPromise` (`KeepsPromise`), `DownloadInvariant`,
`NothingIsErased`, `ScanInvariant`, `CompletionExact` (`CompleteIsListing`),
`InventoryInvariant` (`InventoryInv`).

**`ContentProofs`**, six components. *Conversions*: a live job is the one that its
output's entry names, and a worker that still writes is live (`LeaseSound`), so two
writers of one output would be one job. *WebDAV*: message ids are never given twice,
so what is known of the session a file belongs to stays true of its id; the shared
index only moves on to newer sessions (`IndexSound`), and a request checks its
session after reading it, so that what it then uses is its own; whatever `gone`
blames for a disappearance has `Reached` Telegram. *Uploads from a URL*: the
temporary file, also one that a crash left, has at each place that place's chunk, of
a version seen since the file was begun (`TempSound`), and what the response still
delivers goes on where the file ends and, unless a leftover is continued, is of the
file's own version (`FileOf`, `StreamSound`); so a mixture needs a leftover and a
change of the resource, the size check leaves only the declared length, and each
chunk was admitted before it was written (`AdmittedHeld`). *Offline packs*: a run is
launched only into an empty entry of `JOBS`, and its launcher has the entry until
the run does (`LaunchSound`); what a run fetched whole is in the directory unless it
expired or was removed (`FetchedSound`); so a record that says complete is right
whoever wrote it last (`PackSound`). *Protected uploads*: all that Telegram has or
may still receive under the recorded file id is of the recorded envelope, and every
block that the record or the attempt counts as sent is there (`ProgressFits`,
`Sends`); an attempt that reaches the message therefore leaves the whole envelope it
names, whose slot was wrapped with its passphrase (`RunFits`). That it opens has two
further arguments. Of an attempt that drew the file id, every part under that id is
its own. Of a source that did not change, a settled record with its stamp, and all
that may still arrive under it, is of the present versions, because a change draws a
new stamp unless the stamp is young, and a young stamp gives no settled record.
*Media responses*: while there is something left to take, the source's position and
what it still skips add up to the next byte wanted (`SourceFits`, from `TakenIs`,
what one chunk contributes); of protected media the body holds exactly the part of
the range that lies in the records before the next one (`RecordsFit`), for which
division by the record length is characterised once (`DivIs`, `DivUnique`,
`TimesGrows`). Theorems: `TranscodeInvariant` (`TranscodeInv`), `FilesKept`
(`LiveFilesKept`), `DavInvariant` (`DavInv`), `OwnSessionKept` (`OwnSessionOnly`),
`UrlInvariant` (`UrlInv`), `PackInvariant` (`PackInv`), `CancelledStays`
(`CancelStays`), `ProtectedInvariant` (`ProtectedInv`), `MediaInvariant`
(`MediaInv`), and with these `PublishedInvariant` (`PublishedInv`) and
`ServedInvariant` (`ServedInv`).

What the proofs changed in the models: `FolderSync` is checked with the inductive
`SyncInv`; the bound of `WebDav` requires that the folder's first messages fit,
without which its initial state need not exist; `UrlUpload` names the missing
temporary file by a value that is no content; `Pacer` keeps no position that
nothing reads, and assumes that one policy is the slowest; `MediaStream`
chooses the range in the order of the code's returns. One change was a mistake of
the model that TLC's instance was too small to show: `FileInventory` took a walk
that the limit on files had cut short for complete, where the code
(`file_inventory.rs`) had already said that it is not. With three messages and
room for one file, TLC then finds the file that was passed over.

**Only model-checked**: the five liveness properties, since fairness and ENABLED are
out of the prover's reach. `OneContentPerEnvelope` and the other
properties of the violation runs are false.

## 5. What could follow

1. Compositions: `FolderSync` over supervised transfers, with an abstract
   transfer (asked, published at most once per answer, answered) that
   `TransferEngine` is shown to implement; `Account` guards over transfers.
2. Leases of the asset caches, the catalog of the REST API.

Findings that are fixed in the code turn their violation run into a passing one;
the property stays.

## 6. Not modelled

Byte-level work (ciphers, key derivation, media parsing, transcoding), asset and
thumbnail caches, network proxies and probes, HTTP request parsing, the REST
catalog and share links, the local search index, database migrations,
translations, logging, the components of the user interface and the end-to-end
harness. The reasons are in `components` of `PROJECT.json`. SQLite transactions
are taken as atomic, a file replaced by rename as replaced whole or not at all,
and Telegram as a service that accepts or refuses a request and whose answer may
be lost.
