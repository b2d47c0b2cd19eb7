------------------------------ MODULE Download ------------------------------
(***************************************************************************)
(* A queued download from its reserved name to the file under that name:   *)
(* commands/download_destination.rs and the download commands of           *)
(* commands/fs.rs.  The directory belongs to every program; downloads run  *)
(* side by side and take the publication lock one at a time.  A name is    *)
(* the sequence of the numbers added to the base name: <<>> is "f",        *)
(* <<1>> is "f (1)", and <<1, 1>> is "f (1) (1)".                          *)
(***************************************************************************)
EXTENDS Naturals, Sequences

CONSTANTS Downloads,      \* queued downloads of one file name
          Protected,      \* those whose remote file is an envelope
          Sized,          \* those whose media declares its size
          Chunks,         \* chunks of the remote file
          Retries,        \* NetworkConfig::retry_attempts
          MaxNames,       \* MAX_NAMES
          MaxVault        \* bound: vault sessions opened

ASSUME DownloadAssumption ==
  /\ Protected \subseteq Sized /\ Sized \subseteq Downloads
  /\ {Chunks, MaxNames} \subseteq Nat \ {0} /\ {Retries, MaxVault} \subseteq Nat

VARIABLES
  folder,       \* Name -> the file there: "none", "other" or a download
  dl,           \* Download -> its queue record and, while it runs, its task
  partial,      \* downloads whose private .tdpart file exists
  downloadCancelled,    \* TelegramState::cancelled_transfers
  publication,  \* PUBLICATION: the download that holds it, or "free"
  vaultId,      \* the vault's session, 0 while it is locked
  vaults,       \* vault sessions opened so far
  downloadAccount,      \* the guard of the account validates
  envelope      \* Download -> the registry's row for its remote file

downloadVars == <<folder, dl, partial, downloadCancelled, publication, vaultId, vaults, downloadAccount, envelope>>

Policies == {"keepBoth", "skip", "replace"}
Numbers == 1 .. (MaxNames - 1)
Sibling(name, i) == IF i = 0 THEN name ELSE Append(name, i)
BaseNames == {Sibling(<<>>, i) : i \in 0 .. (MaxNames - 1)}
FileNames == BaseNames \cup {Sibling(n, i) : n \in BaseNames, i \in Numbers}

Unqueued == [pc |-> "new", policy |-> "keepBoth", path |-> <<>>, written |-> <<>>,
             next |-> 1, budget |-> Retries, session |-> 0, seen |-> {}, index |-> 0]

DownloadInit ==
  /\ folder \in {[n \in FileNames |-> "none"], [n \in FileNames |-> IF n = <<>> THEN "other" ELSE "none"]}
  /\ dl = [d \in Downloads |-> Unqueued]
  /\ partial = {} /\ downloadCancelled = {} /\ publication = "free"
  /\ vaultId = 0 /\ vaults = 0 /\ downloadAccount = TRUE
  /\ envelope = [d \in Downloads |-> "none"]

Existing == {n \in FileNames : folder[n] # "none"}
Ended == {"done", "skipped"}
Reserved == {dl[d].path : d \in {e \in Downloads : dl[e].pc \notin Ended \cup {"new"}}}

\* reserve_destination: the first sibling no other record holds and, when both
\* files are to be kept, no file has.
Reservable(policy) ==
  {n \in BaseNames : n \notin Reserved /\ (policy = "keepBoth" => n \notin Existing)}
NumberOf(n) == IF n = <<>> THEN 0 ELSE n[Len(n)]

Queue(d, policy) ==
  /\ dl[d].pc = "new" /\ downloadAccount
  /\ \E n \in Reservable(policy) :
       /\ \A o \in Reservable(policy) : NumberOf(n) <= NumberOf(o)
       /\ dl' = [dl EXCEPT ![d].pc = "queued", ![d].policy = policy, ![d].path = n]
  /\ UNCHANGED <<folder, partial, downloadCancelled, publication, vaultId, vaults, downloadAccount, envelope>>

\* The command's error paths: the guard of the partial file removes it, a
\* publication lock is dropped with its scope.  The record keeps its name and
\* waits to be run again, by the engine's retry or by the user.
Fail(d) ==
  /\ dl' = [dl EXCEPT ![d] = [Unqueued EXCEPT !.pc = "queued", !.policy = dl[d].policy, !.path = dl[d].path]]
  /\ partial' = partial \ {d}
  /\ publication' = IF publication = d THEN "free" ELSE publication

\* skip_existing_download, before anything is fetched.
SkipExisting(d) ==
  /\ dl[d].pc = "queued" /\ downloadAccount /\ publication = "free"
  /\ dl[d].policy = "skip" /\ dl[d].path \in Existing
  /\ dl' = [dl EXCEPT ![d].pc = "skipped"]
  /\ UNCHANGED <<folder, partial, downloadCancelled, publication, vaultId, vaults, downloadAccount, envelope>>

\* A private file beside the destination, under a name of its own.
CreatePartial(d) == partial' = partial \cup {d}

\* The peer, the message and its envelope are read; a protected file is refused
\* while the vault is locked, a plain one gets its partial file.
OpenStream(d) ==
  /\ dl[d].pc = "queued" /\ downloadAccount /\ publication = "free"
  /\ dl[d].policy = "skip" => dl[d].path \notin Existing
  /\ d \in Protected => vaultId # 0
  /\ dl' = [dl EXCEPT ![d].pc = IF d \in Protected THEN "open" ELSE "stream"]
  /\ IF d \in Protected THEN UNCHANGED partial ELSE CreatePartial(d)
  /\ downloadCancelled' = downloadCancelled \ {d}
  /\ UNCHANGED <<folder, publication, vaultId, vaults, downloadAccount, envelope>>

\* The message is read once more; then the credential of the vault is taken,
\* which may have been locked, or opened anew, since it was looked at.
OpenProtected(d) ==
  /\ dl[d].pc = "open" /\ downloadAccount
  /\ dl' = [dl EXCEPT ![d].pc = "stream", ![d].session = vaultId]
  /\ UNCHANGED <<folder, partial, downloadCancelled, publication, vaultId, vaults, downloadAccount, envelope>>

\* A chunk arrives in order and is paced; the first of an envelope holds its
\* header, which is recorded before it is authenticated.
ReceiveChunk(d) ==
  /\ dl[d].pc = "stream" /\ d \notin downloadCancelled /\ downloadAccount
  /\ dl[d].next <= Chunks
  /\ dl' = [dl EXCEPT ![d].written = Append(@, dl[d].next), ![d].next = @ + 1, ![d].budget = Retries,
                      ![d].pc = IF d \in Protected /\ dl[d].next = 1 THEN "header" ELSE "stream"]
  /\ envelope' = IF dl'[d].pc = "header" THEN [envelope EXCEPT ![d] = "probed"] ELSE envelope
  /\ UNCHANGED <<folder, partial, downloadCancelled, publication, vaultId, vaults, downloadAccount>>

\* Without a key no slot opens.  The key derivation runs off the worker: the
\* account, the vault session that gave the key and the cancellation are
\* checked again after it.
HeaderAuthenticated(d) ==
  /\ dl[d].pc = "header" /\ downloadAccount /\ d \notin downloadCancelled
  /\ dl[d].session # 0 /\ vaultId = dl[d].session
  /\ dl' = [dl EXCEPT ![d].pc = "stream"]
  /\ envelope' \in {envelope, [envelope EXCEPT ![d] = "authenticated"]}
  /\ CreatePartial(d)
  /\ UNCHANGED <<folder, downloadCancelled, publication, vaultId, vaults, downloadAccount>>

HeaderRefused(d) ==
  /\ dl[d].pc = "header" /\ Fail(d)
  /\ UNCHANGED <<folder, downloadCancelled, vaultId, vaults, downloadAccount, envelope>>

\* The iterator is spent after an error: a new one skips what was received.
ResumeAtLast(j) == IF j.written = <<>> THEN 1 ELSE Len(j.written)
ResumeAt(j) == Len(j.written) + 1

ChunkFails(d) ==
  /\ dl[d].pc = "stream" /\ d \notin downloadCancelled /\ dl[d].next <= Chunks
  /\ \/ /\ dl[d].budget > 0
        /\ dl' = [dl EXCEPT ![d].budget = @ - 1, ![d].next = ResumeAt(dl[d])]
        /\ UNCHANGED <<partial, publication>>
     \/ dl[d].budget = 0 /\ Fail(d)
  /\ UNCHANGED <<folder, downloadCancelled, vaultId, vaults, downloadAccount, envelope>>

\* Seen at the next chunk or while pacing.
Cancelled(d) ==
  /\ dl[d].pc = "stream" /\ d \in downloadCancelled /\ Fail(d)
  /\ downloadCancelled' \in {downloadCancelled, downloadCancelled \ {d}}
  /\ UNCHANGED <<folder, vaultId, vaults, downloadAccount, envelope>>

\* The stream ends, early if the connection says so: something was written,
\* all of it when the size is known, every record authentic.
WholeEnough(d) ==
  /\ dl[d].written # <<>>
  /\ d \in Sized => Len(dl[d].written) = Chunks
  /\ d \in Protected => \A i \in DOMAIN dl[d].written : dl[d].written[i] = i

\* Any other error of the command: a size that does not match, the disk, the
\* account's guard, Telegram.
Errs(d) ==
  /\ dl[d].pc \in {"open", "stream", "publish"} /\ Fail(d)
  /\ UNCHANGED <<folder, downloadCancelled, vaultId, vaults, downloadAccount, envelope>>

(***************************************************************************)
(* A file that was flushed, synced and measured is published:              *)
(* publish_with_move reads the names once, under the lock.                 *)
(***************************************************************************)
PublishBegins(d) ==
  /\ dl[d].pc = "stream" /\ WholeEnough(d) /\ publication = "free" /\ downloadAccount
  /\ publication' = d
  /\ dl' = [dl EXCEPT ![d].pc = "publish", ![d].seen = Existing, ![d].index = 0]
  /\ UNCHANGED <<folder, partial, downloadCancelled, vaultId, vaults, downloadAccount, envelope>>

Candidate(j) == Sibling(j.path, j.index)
\* rename_without_replace tests and moves in one operation of the file system;
\* an explicit Replace may overwrite.
MovesBySnapshot(j) == j.policy = "replace" \/ Candidate(j) \notin j.seen
Moves(j) ==
  \/ j.policy = "replace"
  \/ Candidate(j) \notin j.seen /\ Candidate(j) \notin Existing

\* Saved: the partial file is the file now, and its guard is disarmed.  The
\* file is registered for external opening, whose failure is only logged.
PublishMoves(d) ==
  /\ dl[d].pc = "publish" /\ downloadAccount /\ Moves(dl[d])
  /\ folder' = [folder EXCEPT ![Candidate(dl[d])] = d]
  /\ dl' = [dl EXCEPT ![d].pc = "done", ![d].path = Candidate(dl[d]), ![d].seen = {}, ![d].index = 0]
  /\ partial' = partial \ {d} /\ publication' = "free"
  /\ UNCHANGED <<downloadCancelled, vaultId, vaults, downloadAccount, envelope>>

\* The name is taken: skipped, or the next sibling is tried.
PublishCollides(d) ==
  /\ dl[d].pc = "publish" /\ ~Moves(dl[d])
  /\ \/ /\ dl[d].policy = "skip"
        /\ dl' = [dl EXCEPT ![d].pc = "skipped", ![d].seen = {}]
        /\ partial' = partial \ {d} /\ publication' = "free"
     \/ /\ dl[d].policy = "keepBoth" /\ dl[d].index + 1 < MaxNames
        /\ dl' = [dl EXCEPT ![d].index = @ + 1]
        /\ UNCHANGED <<partial, publication>>
     \/ dl[d].policy = "keepBoth" /\ dl[d].index + 1 = MaxNames /\ Fail(d)
  /\ UNCHANGED <<folder, downloadCancelled, vaultId, vaults, downloadAccount, envelope>>

(***************************************************************************)
(* The rest of the world.                                                  *)
(***************************************************************************)
\* cmd_cancel_transfer.
CancelDownload(d) ==
  /\ dl[d].pc \in {"open", "stream", "header"}
  /\ downloadCancelled' = downloadCancelled \cup {d}
  /\ UNCHANGED <<folder, dl, partial, publication, vaultId, vaults, downloadAccount, envelope>>

OtherProgramWrites(n) ==
  /\ folder[n] = "none" /\ folder' = [folder EXCEPT ![n] = "other"]
  /\ UNCHANGED <<dl, partial, downloadCancelled, publication, vaultId, vaults, downloadAccount, envelope>>

UnlockVault ==
  /\ vaultId = 0 /\ vaults < MaxVault
  /\ vaults' = vaults + 1 /\ vaultId' = vaults + 1
  /\ UNCHANGED <<folder, dl, partial, downloadCancelled, publication, downloadAccount, envelope>>

LockVault ==
  /\ vaultId # 0 /\ vaultId' = 0
  /\ UNCHANGED <<folder, dl, partial, downloadCancelled, publication, vaults, downloadAccount, envelope>>

LeaveAccount ==
  /\ downloadAccount /\ downloadAccount' = FALSE
  /\ UNCHANGED <<folder, dl, partial, downloadCancelled, publication, vaultId, vaults, envelope>>

DownloadNext ==
  \/ \E d \in Downloads :
       \/ \E p \in Policies : Queue(d, p)
       \/ SkipExisting(d) \/ OpenStream(d) \/ OpenProtected(d) \/ ReceiveChunk(d)
       \/ HeaderAuthenticated(d) \/ HeaderRefused(d) \/ ChunkFails(d) \/ Cancelled(d) \/ Errs(d)
       \/ PublishBegins(d) \/ PublishMoves(d) \/ PublishCollides(d)
       \/ CancelDownload(d)
  \/ \E n \in BaseNames : OtherProgramWrites(n)
  \/ UnlockVault \/ LockVault \/ LeaveAccount

DownloadSpec == DownloadInit /\ [][DownloadNext]_downloadVars

-----------------------------------------------------------------------------
DownloadTypeOK ==
  /\ folder \in [FileNames -> Downloads \cup {"none", "other"}]
  /\ dl \in [Downloads -> [pc : {"new", "queued", "skipped", "open", "stream", "header", "publish", "done"},
                           policy : Policies, path : FileNames, written : Seq(1 .. Chunks), next : Nat,
                           budget : 0 .. Retries, session : 0 .. MaxVault, seen : SUBSET FileNames,
                           index : 0 .. (MaxNames - 1)]]
  /\ partial \subseteq Downloads /\ downloadCancelled \subseteq Downloads
  /\ publication \in Downloads \cup {"free"} /\ downloadAccount \in BOOLEAN
  /\ vaults \in 0 .. MaxVault /\ vaultId \in 0 .. vaults
  /\ envelope \in [Downloads -> {"none", "probed", "authenticated"}]

(***************************************************************************)
(* "Publication never unlinks a destination, and only an explicit Replace  *)
(* may overwrite one" (download_destination.rs:1): whatever other programs *)
(* write between the reading of the names and the move.                    *)
(***************************************************************************)
NothingErased ==
  [][\A n \in FileNames :
       folder[n] # "none" /\ folder'[n] # folder[n] =>
         \E d \in Downloads : folder'[n] = d /\ dl[d].policy = "replace" /\ dl[d].path = n]_downloadVars

(***************************************************************************)
(* A file under its final name holds the remote file's chunks in order,    *)
(* all of them when the size is known: retries neither repeat nor drop a   *)
(* chunk, and no partial file is left beside it (PartialFileGuard).        *)
(***************************************************************************)
SavedIsWhole ==
  \A d \in Downloads :
    /\ dl[d].pc = "done" =>
         /\ \A i \in DOMAIN dl[d].written : dl[d].written[i] = i
         /\ d \in Sized => Len(dl[d].written) = Chunks
    /\ dl[d].pc \in Ended \cup {"queued", "new"} => d \notin partial

\* What was received is the beginning of the remote file, and the next chunk
\* continues it; a file that is being published is whole, and a number is only
\* added to the name where both files are to be kept.
ReceivedInOrder ==
  \A d \in Downloads :
    /\ dl[d].next = Len(dl[d].written) + 1
    /\ \A i \in DOMAIN dl[d].written : dl[d].written[i] = i
    /\ dl[d].pc = "publish" /\ d \in Sized => Len(dl[d].written) = Chunks
    /\ dl[d].pc # "done" => dl[d].path \in BaseNames
    /\ dl[d].index # 0 => dl[d].policy = "keepBoth" /\ dl[d].pc = "publish"

(* What a download saved, whatever failed and was tried again on the way.  *)
DownloadInv == DownloadTypeOK /\ SavedIsWhole /\ ReceivedInOrder
=============================================================================
