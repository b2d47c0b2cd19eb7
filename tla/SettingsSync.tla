---------------------------- MODULE SettingsSync ----------------------------
(***************************************************************************)
(* Encrypted settings backups in Saved Messages (commands/settings_sync.rs)*)
(* Devices of one account upload and download with no lock between them:   *)
(* an upload lists the backups it will supersede, sends its own message    *)
(* and then deletes the listed ones.  Message ids grow; a listing sees the *)
(* newest ScanLimit messages of the chat only.                             *)
(***************************************************************************)
EXTENDS Naturals, FiniteSets

CONSTANTS Devices,     \* devices of the account
          SyncSecrets,     \* sync passphrases of at least twelve characters
          ScanLimit,   \* MESSAGE_SCAN_LIMIT
          MaxMessages  \* bound: messages sent to the chat

ASSUME LimitsAssumption == ScanLimit \in Nat /\ MaxMessages \in Nat

VARIABLES
  backups,   \* settings messages in the chat: set of ids
  sealedBy,  \* id -> the passphrase it was encrypted with
  chatter,   \* other messages in the chat
  newestId,  \* the last id Telegram gave
  lastSent,  \* history: the last backup Telegram accepted, 0 for none
  upload,    \* Device -> cmd_upload_settings_sync
  applied    \* Device -> the backup last downloaded and decrypted, 0 for none

settingsVars == <<backups, sealedBy, chatter, newestId, lastSent, upload, applied>>

MessageIds == 1..MaxMessages
NoUpload == [pc |-> "idle", secret |-> "none", old |-> {}]

SettingsInit ==
  /\ backups = {} /\ sealedBy = [i \in MessageIds |-> "none"] /\ chatter = {} /\ newestId = 0 /\ lastSent = 0
  /\ upload = [d \in Devices |-> NoUpload] /\ applied = [d \in Devices |-> 0]

\* settings_messages: the backups among the newest messages.
Listed == {i \in backups : Cardinality({j \in backups \cup chatter : j >= i}) <= ScanLimit}

Newest(S) == {i \in S : \A j \in S : j <= i}

\* Settings that are not eligible, a short passphrase or a message that would
\* be too long end the command before this.
EncryptSettings(d, secret) ==
  /\ upload[d].pc = "idle"
  /\ upload' = [upload EXCEPT ![d] = [pc |-> "list", secret |-> secret, old |-> {}]]
  /\ UNCHANGED <<backups, sealedBy, chatter, newestId, lastSent, applied>>

ListOld(d) ==
  /\ upload[d].pc = "list"
  /\ upload' = [upload EXCEPT ![d].pc = "send", ![d].old = Listed]
  /\ UNCHANGED <<backups, sealedBy, chatter, newestId, lastSent, applied>>

\* The slip of listing what to delete after the new backup is there.
SendThenList(d) ==
  /\ upload[d].pc = "send" /\ newestId < MaxMessages
  /\ newestId' = newestId + 1 /\ backups' = backups \cup {newestId'} /\ lastSent' = newestId'
  /\ sealedBy' = [sealedBy EXCEPT ![newestId'] = upload[d].secret]
  /\ upload' = [upload EXCEPT ![d].pc = "delete", ![d].old = backups']
  /\ UNCHANGED <<chatter, applied>>

SendBackup(d) ==
  /\ upload[d].pc = "send" /\ newestId < MaxMessages
  /\ newestId' = newestId + 1 /\ backups' = backups \cup {newestId'} /\ lastSent' = newestId'
  /\ sealedBy' = [sealedBy EXCEPT ![newestId'] = upload[d].secret]
  /\ upload' = [upload EXCEPT ![d].pc = "delete"]
  /\ UNCHANGED <<chatter, applied>>

\* Telegram has the message but the command sees an error.
SendAnsweredLate(d) ==
  /\ upload[d].pc = "send" /\ newestId < MaxMessages
  /\ newestId' = newestId + 1 /\ backups' = backups \cup {newestId'} /\ lastSent' = newestId'
  /\ sealedBy' = [sealedBy EXCEPT ![newestId'] = upload[d].secret]
  /\ upload' = [upload EXCEPT ![d] = NoUpload]
  /\ UNCHANGED <<chatter, applied>>

\* Batches that fail are only logged.
DeleteOld(d) ==
  /\ upload[d].pc = "delete"
  /\ \E S \in SUBSET upload[d].old : backups' = backups \ S
  /\ upload' = [upload EXCEPT ![d] = NoUpload]
  /\ UNCHANGED <<sealedBy, chatter, newestId, lastSent, applied>>

\* An error before the message is sent, or the end of the process at any point.
UploadStops(d) ==
  /\ upload[d].pc # "idle" /\ upload' = [upload EXCEPT ![d] = NoUpload]
  /\ UNCHANGED <<backups, sealedBy, chatter, newestId, lastSent, applied>>

\* The newest listed backup, if the passphrase opens it.
DownloadSettings(d, secret) ==
  /\ \E i \in Newest(Listed) :
       applied' = [applied EXCEPT ![d] = IF sealedBy[i] = secret THEN i ELSE applied[d]]
  /\ UNCHANGED <<backups, sealedBy, chatter, newestId, lastSent, upload>>

OtherMessage ==
  /\ newestId < MaxMessages /\ newestId' = newestId + 1 /\ chatter' = chatter \cup {newestId'}
  /\ UNCHANGED <<backups, sealedBy, lastSent, upload, applied>>

SettingsNext ==
  \/ \E d \in Devices :
       \/ \E s \in SyncSecrets : EncryptSettings(d, s) \/ DownloadSettings(d, s)
       \/ ListOld(d) \/ SendBackup(d) \/ SendAnsweredLate(d) \/ DeleteOld(d) \/ UploadStops(d)
  \/ OtherMessage

SettingsSpec == SettingsInit /\ [][SettingsNext]_settingsVars

SettingsTypeOK ==
  /\ newestId \in 0..MaxMessages /\ lastSent \in 0..newestId
  /\ backups \subseteq 1..newestId /\ chatter \subseteq 1..newestId
  /\ sealedBy \in [MessageIds -> SyncSecrets \cup {"none"}]
  /\ upload \in [Devices -> [pc : {"idle", "list", "send", "delete"}, secret : SyncSecrets \cup {"none"}, old : SUBSET (1..newestId)]]
  /\ applied \in [Devices -> 0..newestId]

(* The last backup Telegram accepted is never deleted, whatever uploads    *)
(* of other devices run beside it and wherever one of them stops: it is    *)
(* still at Telegram, though other messages of the chat may push it out of *)
(* the ScanLimit newest that a download lists (cmd_upload_settings_sync).  *)
LastBackupKept == lastSent # 0 => lastSent \in backups

\* Why: what an upload is about to delete is older than some backup accepted since.
DeletesOlder ==
  \A d \in Devices : /\ upload[d].pc = "send" => \A i \in upload[d].old : i <= lastSent
                     /\ upload[d].pc = "delete" => \A i \in upload[d].old : i < lastSent
BackupsAccepted == \A i \in backups : i <= lastSent

SettingsInv == SettingsTypeOK /\ LastBackupKept /\ DeletesOlder /\ BackupsAccepted
=============================================================================
