--------------------------- MODULE IdentityProofs ---------------------------
(***************************************************************************)
(* Proofs about what belongs to one user or account besides the session:   *)
(* the settings backup, the supporter licence, the login prompts, the      *)
(* folder layouts and the vault, each for any value of its constants.  The *)
(* five share no state.                                                    *)
(***************************************************************************)
EXTENDS SettingsSync, Supporter, PhoneLogin, FolderLayout, Vault, TLAPS

(***************************************************************************)
(* The settings backup.  LastBackupKept is not inductive: DeletesOlder     *)
(* says why no upload under way can delete the last backup, and            *)
(* BackupsAccepted why what it lists is no newer than that backup.         *)
(***************************************************************************)
\* A listing contains only backups that are there.
LEMMA ListedAreBackups == Listed \subseteq backups
BY DEF Listed

\* Initially there is no message and no upload.
LEMMA SettingsInitInv == SettingsInit => SettingsInv
BY LimitsAssumption DEF SettingsInit, SettingsInv, SettingsTypeOK, LastBackupKept, DeletesOlder, BackupsAccepted,
   MessageIds, NoUpload

\* The three ways a backup is accepted keep the invariant: the new backup is the
\* last one and everything listed before is older.
LEMMA SendKeeps ==
  ASSUME SettingsInv, NEW d \in Devices, SendBackup(d) \/ SendAnsweredLate(d)
  PROVE  SettingsInv'
<1> USE LimitsAssumption DEF SettingsInv, SettingsTypeOK, MessageIds, NoUpload
<1>1. /\ newestId' = newestId + 1 /\ newestId' \in 1..MaxMessages /\ lastSent' = newestId'
      /\ backups' = backups \cup {newestId'} /\ chatter' = chatter /\ applied' = applied
  BY DEF SendBackup, SendAnsweredLate
<1>2. upload[d].pc = "send" /\ upload[d].secret \in SyncSecrets \cup {"none"}
  BY DEF SendBackup, SendAnsweredLate
<1>3. \A e \in Devices : upload'[e].old \subseteq upload[e].old
                         /\ (upload'[e].pc = "send" => upload[e].pc = "send")
                         /\ (upload'[e].pc = "delete" => upload[e].pc \in {"send", "delete"})
  <2> SUFFICES ASSUME NEW e \in Devices
               PROVE  /\ upload'[e].old \subseteq upload[e].old
                      /\ (upload'[e].pc = "send" => upload[e].pc = "send")
                      /\ (upload'[e].pc = "delete" => upload[e].pc \in {"send", "delete"})
    OBVIOUS
  <2>1. CASE SendBackup(d)
    <3>1. upload'[e] = IF e = d THEN [upload[d] EXCEPT !.pc = "delete"] ELSE upload[e]
      BY <2>1 DEF SendBackup
    <3> QED BY <3>1, <1>2
  <2>2. CASE SendAnsweredLate(d)
    <3>1. upload'[e] = IF e = d THEN NoUpload ELSE upload[e]
      BY <2>2 DEF SendAnsweredLate
    <3> QED BY <3>1, <1>2
  <2> QED BY <2>1, <2>2
<1>4. SettingsTypeOK'
  <2>1. sealedBy' \in [1..MaxMessages -> SyncSecrets \cup {"none"}]
    BY <1>1, <1>2 DEF SendBackup, SendAnsweredLate
  <2>2. upload' \in [Devices -> [pc : {"idle", "list", "send", "delete"}, secret : SyncSecrets \cup {"none"},
                                 old : SUBSET (1..newestId')]]
    <3>1. SUBSET (1..newestId) \subseteq SUBSET (1..newestId')
      BY <1>1
    <3>2. upload \in [Devices -> [pc : {"idle", "list", "send", "delete"}, secret : SyncSecrets \cup {"none"},
                                  old : SUBSET (1..newestId')]]
      BY <3>1
    <3>3. CASE SendBackup(d)
      BY <3>2, <3>3 DEF SendBackup
    <3>4. CASE SendAnsweredLate(d)
      BY <3>2, <3>4 DEF SendAnsweredLate
    <3> QED BY <3>3, <3>4
  <2> QED BY <1>1, <2>1, <2>2
<1>5. LastBackupKept'
  BY <1>1 DEF LastBackupKept
<1>6. BackupsAccepted'
  BY <1>1 DEF BackupsAccepted
<1>7. DeletesOlder'
  <2> SUFFICES ASSUME NEW e \in Devices
               PROVE  /\ upload'[e].pc = "send" => \A i \in upload'[e].old : i <= lastSent'
                      /\ upload'[e].pc = "delete" => \A i \in upload'[e].old : i < lastSent'
    BY DEF DeletesOlder
  <2>1. \A i \in upload[e].old : i \in 1..newestId
    OBVIOUS
  <2> QED BY <1>1, <1>3, <2>1
<1> QED BY <1>4, <1>5, <1>6, <1>7

\* Listing takes ids no newer than the last accepted backup.
LEMMA ListKeeps ==
  ASSUME SettingsInv, NEW d \in Devices, ListOld(d)
  PROVE  SettingsInv'
<1> USE LimitsAssumption DEF SettingsInv, SettingsTypeOK, ListOld
<1>1. Listed \in SUBSET (1..newestId)
  BY ListedAreBackups
<1>2. SettingsTypeOK'
  <2> DEFINE Uploads == [pc : {"idle", "list", "send", "delete"}, secret : SyncSecrets \cup {"none"},
                         old : SUBSET (1..newestId)]
  <2>1. upload[d] \in Uploads
    OBVIOUS
  <2>2. [upload[d] EXCEPT !.pc = "send", !.old = Listed] \in Uploads
    BY <1>1, <2>1
  <2>3. upload' = [upload EXCEPT ![d] = [upload[d] EXCEPT !.pc = "send", !.old = Listed]]
    OBVIOUS
  <2>4. upload' \in [Devices -> Uploads]
    BY <2>2, <2>3
  <2> QED BY <2>4
<1>3. DeletesOlder'
  <2>1. \A i \in Listed : i <= lastSent
    BY ListedAreBackups DEF BackupsAccepted
  <2> QED BY <2>1 DEF DeletesOlder
<1> QED BY <1>2, <1>3 DEF LastBackupKept, BackupsAccepted

\* Deleting keeps the last backup, because what was listed is older.
LEMMA DeleteKeeps ==
  ASSUME SettingsInv, NEW d \in Devices, DeleteOld(d)
  PROVE  SettingsInv'
<1> USE LimitsAssumption DEF SettingsInv, SettingsTypeOK, DeleteOld, NoUpload
<1> PICK S \in SUBSET upload[d].old : backups' = backups \ S
  OBVIOUS
<1>1. SettingsTypeOK'
  OBVIOUS
<1>2. lastSent \notin S
  BY DEF DeletesOlder
<1>3. LastBackupKept'
  BY <1>2 DEF LastBackupKept
<1>4. DeletesOlder'
  BY DEF DeletesOlder
<1> QED BY <1>1, <1>3, <1>4 DEF BackupsAccepted

\* A stopped upload deletes nothing.
LEMMA StopKeeps ==
  ASSUME SettingsInv, NEW d \in Devices, UploadStops(d)
  PROVE  SettingsInv'
BY DEF UploadStops, SettingsInv, SettingsTypeOK, NoUpload, LastBackupKept, DeletesOlder, BackupsAccepted

\* The remaining steps delete nothing and list nothing.
LEMMA OtherKeeps ==
  ASSUME SettingsInv, NEW d \in Devices, NEW s \in SyncSecrets,
         EncryptSettings(d, s) \/ DownloadSettings(d, s)
  PROVE  SettingsInv'
<1> USE LimitsAssumption DEF SettingsInv, SettingsTypeOK, NoUpload
<1>1. CASE EncryptSettings(d, s)
  BY <1>1 DEF EncryptSettings, LastBackupKept, DeletesOlder, BackupsAccepted
<1>2. CASE DownloadSettings(d, s)
  <2>1. Newest(Listed) \subseteq 1..newestId
    BY ListedAreBackups DEF Newest
  <2>2. applied' \in [Devices -> 0..newestId]
    BY <1>2, <2>1 DEF DownloadSettings
  <2> QED BY <1>2, <2>2 DEF DownloadSettings, LastBackupKept, DeletesOlder, BackupsAccepted
<1> QED BY <1>1, <1>2

\* One step of the specification keeps the invariant.
LEMMA SettingsStepInv == SettingsInv /\ [SettingsNext]_settingsVars => SettingsInv'
<1> SUFFICES ASSUME SettingsInv, [SettingsNext]_settingsVars PROVE SettingsInv'
  OBVIOUS
<1>1. CASE UNCHANGED settingsVars
  BY <1>1 DEF settingsVars, SettingsInv, SettingsTypeOK, LastBackupKept, DeletesOlder, BackupsAccepted
<1>2. CASE OtherMessage
  <2> USE <1>2 DEF OtherMessage, SettingsInv, SettingsTypeOK
  <2>1. newestId' = newestId + 1 /\ newestId' \in 0..MaxMessages
    BY LimitsAssumption
  <2>2. SUBSET (1..newestId) \subseteq SUBSET (1..newestId')
    BY <2>1
  <2>3. SettingsTypeOK'
    BY <2>1, <2>2
  <2> QED BY <2>3 DEF LastBackupKept, DeletesOlder, BackupsAccepted
<1>3. CASE \E d \in Devices : SendBackup(d) \/ SendAnsweredLate(d)
  BY <1>3, SendKeeps
<1>4. CASE \E d \in Devices : ListOld(d)
  BY <1>4, ListKeeps
<1>5. CASE \E d \in Devices : DeleteOld(d)
  BY <1>5, DeleteKeeps
<1>6. CASE \E d \in Devices : UploadStops(d)
  BY <1>6, StopKeeps
<1>7. CASE \E d \in Devices, s \in SyncSecrets : EncryptSettings(d, s) \/ DownloadSettings(d, s)
  BY <1>7, OtherKeeps
<1> QED BY <1>1, <1>2, <1>3, <1>4, <1>5, <1>6, <1>7 DEF SettingsNext

(* Whatever the devices, the passphrases and the scan limit: the last      *)
(* backup Telegram accepted is never deleted by an upload                  *)
(* (cmd_upload_settings_sync lists before it sends).                       *)
THEOREM LastBackupNeverDeleted == SettingsSpec => []LastBackupKept
<1>1. SettingsInv => LastBackupKept
  BY DEF SettingsInv
<1> QED BY SettingsInitInv, SettingsStepInv, <1>1, PTL DEF SettingsSpec

-----------------------------------------------------------------------------
(***************************************************************************)
(* The supporter licence.  NeverPaysTwice and PaymentNotForgotten need to  *)
(* know what is still to come of every link the customer has: ClaimKept,   *)
(* and TaskSound for a command between two of its stores.                  *)
(***************************************************************************)
\* The values of the command that runs.
TaskPcs == {"idle", "saveSecret", "saveClaim", "saveCode", "saveLicence", "clearSecret", "status",
            "dropSecret", "activateCode", "activateLicence"}
Tasks == [pc : TaskPcs, order : Purchases \cup {0}, code : BOOLEAN]

LEMMA StepValues ==
  ASSUME NEW p \in TaskPcs, NEW o \in Purchases \cup {0}, NEW b \in BOOLEAN
  PROVE  Step(p, o, b) \in Tasks /\ Step(p, o, b).pc = p /\ Step(p, o, b).order = o
<1>1. Step(p, o, b) \in Tasks
  BY Zenon DEF Tasks, Step
<1> QED BY <1>1 DEF Step

LEMMA IdleTask == NoTask \in Tasks /\ NoTask.pc = "idle" /\ NoTask.order = 0
<1>1. "idle" \in TaskPcs
  BY DEF TaskPcs
<1> QED BY <1>1, StepValues, Zenon DEF NoTask

\* What is left of the type when the task is set apart.
RestTypeOK ==
  /\ licence \in [token : Purchases \cup {0}, claim : Orders \cup {0}, revoked : BOOLEAN]
  /\ keyring \in [recovery : Purchases \cup {0}, secret : Orders \cup {0}]
  /\ order \in [Orders -> {"none", "open", "paid", "closed"}]
  /\ shown \subseteq Orders /\ delivered \subseteq Orders /\ adFree \in BOOLEAN

LEMMA TypeSplit == SupporterTypeOK <=> RestTypeOK /\ task \in Tasks
BY DEF SupporterTypeOK, RestTypeOK, Tasks, TaskPcs

LEMMA SupporterStarts == SupporterInit => SupporterInv
<1> SUFFICES ASSUME SupporterInit PROVE SupporterInv
  OBVIOUS
<1>1. licence.claim = 0 /\ licence.token = 0 /\ keyring.recovery = 0 /\ task.pc = "idle"
  BY IdleTask DEF SupporterInit
<1>2. RestTypeOK
  <2>1. licence \in [token : Purchases \cup {0}, claim : Orders \cup {0}, revoked : BOOLEAN]
    BY Zenon DEF SupporterInit
  <2> QED BY <2>1 DEF SupporterInit, RestTypeOK
<1>3. SupporterTypeOK
  BY <1>2, TypeSplit, IdleTask DEF SupporterInit
<1> QED
  BY <1>1, <1>3 DEF SupporterInit, SupporterInv, NeverPaysTwice, PaymentNotForgotten, ClaimKept, PurchaseKept,
     TaskSound

\* The customer and the service.
LEMMA OrderMoves ==
  ASSUME SupporterInv, NEW o \in Orders, Pay(o) \/ CloseOrder(o)
  PROVE  SupporterInv'
<1> USE SupporterAssumption DEF SupporterInv
<1>1. /\ order[o] = "open" /\ order' \in [Orders -> {"none", "open", "paid", "closed"}]
      /\ order'[o] \in {"paid", "closed"} /\ (order'[o] = "paid" => o \in shown)
      /\ \A p \in Orders : p # o => order'[p] = order[p]
      /\ UNCHANGED <<licence, keyring, shown, delivered, adFree, task>>
  BY DEF Pay, CloseOrder, SupporterTypeOK
<1>2. SupporterTypeOK' /\ PurchaseKept'
  BY <1>1 DEF SupporterTypeOK, PurchaseKept
<1>3. shown \subseteq Orders
  BY DEF SupporterTypeOK
<1>4. ClaimKept' /\ PaymentNotForgotten'
  BY <1>1, <1>3 DEF ClaimKept, PaymentNotForgotten
<1>5. NeverPaysTwice'
  BY <1>1, <1>3 DEF NeverPaysTwice
<1>6. TaskSound'
  BY <1>1, <1>3 DEF TaskSound
<1> QED BY <1>2, <1>4, <1>5, <1>6

\* A new checkout begins only when every earlier link is closed.
LEMMA CheckoutBegins ==
  ASSUME SupporterInv, NEW o \in Orders, BeginCheckout(o)
  PROVE  SupporterInv'
<1> USE SupporterAssumption DEF SupporterInv
<1>1. /\ task.pc = "idle" /\ licence.claim = 0 /\ licence.token = 0 /\ keyring.recovery = 0
      /\ order[o] = "none" /\ order' = [order EXCEPT ![o] = "open"]
      /\ task' \in {NoTask, Step("saveSecret", o, FALSE)}
      /\ UNCHANGED <<licence, keyring, shown, delivered, adFree>>
  BY DEF BeginCheckout, NewCheckoutAllowed, Idle
<1>2. /\ order' \in [Orders -> {"none", "open", "paid", "closed"}] /\ order'[o] = "open"
      /\ \A p \in Orders : p # o => order'[p] = order[p]
      /\ shown \subseteq Orders
  BY <1>1 DEF SupporterTypeOK
<1>3. \A p \in shown : order[p] = "closed" /\ p # o
  <2>1. delivered = {}
    BY <1>1 DEF PurchaseKept
  <2>2. \A p \in shown : order[p] \in {"open", "paid", "closed"} /\ p # 0
    BY <1>2 DEF ClaimKept, SupporterTypeOK
  <2> QED BY <1>1, <1>2, <2>1, <2>2 DEF ClaimKept, PaymentNotForgotten
<1>7. task' \in Tasks /\ task'.pc \in {"idle", "saveSecret"} /\ (task'.pc = "saveSecret" => task'.order = o)
  <2>1. "saveSecret" \in TaskPcs /\ o \in Purchases /\ FALSE \in BOOLEAN
    BY DEF TaskPcs, Purchases
  <2>2. CASE task' = NoTask
    BY <2>2, IdleTask
  <2>3. CASE task' = Step("saveSecret", o, FALSE)
    BY <2>1, <2>3, StepValues, Zenon
  <2> QED BY <1>1, <2>2, <2>3
<1>4. SupporterTypeOK' /\ PurchaseKept'
  <2>1. RestTypeOK'
    BY <1>1, <1>2, TypeSplit DEF RestTypeOK
  <2>2. SupporterTypeOK'
    BY <2>1, <1>7 DEF RestTypeOK, SupporterTypeOK, Tasks, TaskPcs
  <2> QED BY <1>1, <2>2 DEF PurchaseKept
<1>5. ClaimKept' /\ PaymentNotForgotten' /\ NeverPaysTwice'
  BY <1>1, <1>2, <1>3 DEF ClaimKept, PaymentNotForgotten, NeverPaysTwice
<1>6. TaskSound'
  BY <1>1, <1>2, <1>3, <1>7 DEF TaskSound
<1> QED BY <1>4, <1>5, <1>6

\* Commands that leave every store as it is, or only show again the link of
\* the claim that is kept.
LEMMA NothingStored ==
  ASSUME SupporterInv, UNCHANGED <<licence, keyring, order, delivered>>, shown' = shown,
         adFree' \in BOOLEAN, task' \in Tasks, TaskSound'
  PROVE  SupporterInv'
<1>1. SupporterTypeOK'
  BY DEF SupporterInv, SupporterTypeOK, Tasks, TaskPcs
<1> QED BY <1>1 DEF SupporterInv, NeverPaysTwice, PaymentNotForgotten, ClaimKept, PurchaseKept

LEMMA ReadingCommands ==
  ASSUME SupporterInv,
         \/ GetStatus \/ ContinueCheckout \/ PollCompleted \/ Report \/ Interrupted
         \/ \E p \in Purchases : Activate(p)
  PROVE  SupporterInv'
<1> USE SupporterAssumption DEF SupporterInv
<1>0. task \in Tasks /\ adFree \in BOOLEAN /\ delivered \subseteq Orders /\ \A l \in {licence} : StatusFromState(l) \subseteq BOOLEAN
  BY DEF SupporterTypeOK, Tasks, TaskPcs, StatusFromState
<1>1. CASE GetStatus \/ ContinueCheckout
  <2>1. shown' = shown /\ adFree' \in BOOLEAN /\ UNCHANGED <<licence, keyring, order, delivered, task>>
    BY <1>0, <1>1 DEF GetStatus, ContinueCheckout, ClaimKept
  <2>2. TaskSound'
    BY <2>1 DEF TaskSound
  <2> QED BY <1>0, <2>1, <2>2, NothingStored
<1>2. CASE Report \/ Interrupted
  <2>1. /\ shown' = shown /\ adFree' \in BOOLEAN /\ UNCHANGED <<licence, keyring, order, delivered>>
        /\ task' = NoTask
    BY <1>0, <1>2 DEF Report, Interrupted, Finish
  <2>2. TaskSound'
    BY <2>1, IdleTask DEF TaskSound
  <2> QED BY <2>1, <2>2, IdleTask, NothingStored
<1>3. CASE PollCompleted
  <2>1. /\ shown' = shown /\ adFree' \in BOOLEAN /\ UNCHANGED <<licence, keyring, order, delivered>>
        /\ licence.claim \in Orders /\ order[licence.claim] = "paid"
    BY <1>0, <1>3 DEF PollCompleted, SupporterTypeOK
  <2>2. PICK o \in Orders : o = licence.claim
    BY <2>1
  <2>3. task' \in {Step("saveCode", o, TRUE), Step("saveLicence", o, FALSE)}
    BY <1>3, <2>2, Zenon DEF PollCompleted
  <2>4. {"saveCode", "saveLicence"} \subseteq TaskPcs /\ o \in Purchases
    BY DEF TaskPcs, Purchases
  <2>5. task' \in Tasks /\ task'.pc \in {"saveCode", "saveLicence"} /\ task'.order = o
    <3>1. "saveCode" \in TaskPcs /\ "saveLicence" \in TaskPcs /\ o \in Purchases \cup {0} /\ TRUE \in BOOLEAN
          /\ FALSE \in BOOLEAN
      BY <2>4
    <3>2. CASE task' = Step("saveCode", o, TRUE)
      BY <3>1, <3>2, StepValues, Zenon
    <3>3. CASE task' = Step("saveLicence", o, FALSE)
      BY <3>1, <3>3, StepValues, Zenon
    <3> QED BY <2>3, <3>2, <3>3
  <2>6. TaskSound'
    BY <2>1, <2>2, <2>5 DEF TaskSound
  <2> QED BY <2>1, <2>5, <2>6, NothingStored
<1>4. ASSUME NEW p \in Purchases, Activate(p) PROVE SupporterInv'
  <2>1. /\ shown' = shown /\ adFree' \in BOOLEAN /\ UNCHANGED <<licence, keyring, order, delivered>>
        /\ task' = Step("activateCode", p, TRUE)
    BY <1>0, <1>4 DEF Activate
  <2>2. "activateCode" \in TaskPcs /\ p # 0
    BY DEF TaskPcs, Purchases
  <2>3. task' \in Tasks /\ task'.pc = "activateCode" /\ task'.order = p
    BY <2>1, <2>2, StepValues, Zenon
  <2>4. TaskSound'
    BY <2>2, <2>3 DEF TaskSound
  <2> QED BY <2>1, <2>3, <2>4, NothingStored
<1> QED BY <1>1, <1>2, <1>3, <1>4

\* A command between two of its stores.
LEMMA CommandMoves ==
  ASSUME SupporterInv,
         \/ SaveCheckoutSecret \/ SaveClaim \/ SaveRecoveryCode \/ SaveLicence
         \/ ClearCheckoutSecret \/ PollUnpaid \/ DropSecret \/ ActivateSaveCode
         \/ ActivateSaveLicence \/ Refresh
  PROVE  SupporterInv'
<1> USE SupporterAssumption DEF SupporterInv
<1>0. task \in Tasks
  BY TypeSplit
<1>1. CASE SaveCheckoutSecret \/ SaveRecoveryCode \/ SaveLicence \/ ActivateSaveCode \/ ActivateSaveLicence
  <2> USE DEF SupporterTypeOK, Purchases
  <2>1. CASE SaveCheckoutSecret
    BY <2>1 DEF SaveCheckoutSecret, NeverPaysTwice, PaymentNotForgotten, ClaimKept, PurchaseKept, TaskSound
  <2>2. CASE SaveRecoveryCode
    BY <2>2 DEF SaveRecoveryCode, NeverPaysTwice, PaymentNotForgotten, ClaimKept, PurchaseKept, TaskSound
  <2>3. CASE SaveLicence
    BY <2>3 DEF SaveLicence, NeverPaysTwice, PaymentNotForgotten, ClaimKept, PurchaseKept, TaskSound
  <2>4. CASE ActivateSaveCode
    BY <2>4 DEF ActivateSaveCode, NeverPaysTwice, PaymentNotForgotten, ClaimKept, PurchaseKept, TaskSound
  <2>5. CASE ActivateSaveLicence
    BY <2>5 DEF ActivateSaveLicence, NeverPaysTwice, PaymentNotForgotten, ClaimKept, PurchaseKept, TaskSound
  <2> QED BY <1>1, <2>1, <2>2, <2>3, <2>4, <2>5
<1>2. CASE SaveClaim
  <2>1. /\ licence' = [licence EXCEPT !.claim = task.order] /\ shown' = shown \cup {task.order}
        /\ task' \in Tasks /\ task'.pc = "idle" /\ task.pc = "saveClaim"
        /\ UNCHANGED <<keyring, order, delivered, adFree>>
    BY <1>2, IdleTask DEF SaveClaim, Finish
  <2>2. task.order \in Orders
    BY <2>1 DEF TaskSound
  <2>3. SupporterTypeOK'
    BY <2>1, <2>2 DEF SupporterTypeOK, Tasks, TaskPcs
  <2> QED
    BY <2>1, <2>2, <2>3 DEF SupporterTypeOK, NeverPaysTwice, PaymentNotForgotten, ClaimKept, PurchaseKept, TaskSound
<1>3. CASE ClearCheckoutSecret \/ DropSecret
  <2>1. /\ keyring' \in {keyring, [keyring EXCEPT !.secret = 0]} /\ licence.claim = 0
        /\ UNCHANGED <<licence, order, shown, delivered, adFree>>
    BY <1>3 DEF ClearCheckoutSecret, DropSecret, TaskSound
  <2>2. task' \in Tasks /\ task'.pc \in {"idle", "status"}
    <3>1. CASE DropSecret
      BY <3>1, IdleTask DEF DropSecret, Finish
    <3>2. CASE ClearCheckoutSecret
      BY <3>2, <1>0 DEF ClearCheckoutSecret, Tasks, TaskPcs
    <3> QED BY <1>3, <3>1, <3>2
  <2>3. SupporterTypeOK'
    BY <2>1, <2>2 DEF SupporterTypeOK, Tasks, TaskPcs
  <2> QED
    BY <2>1, <2>2, <2>3 DEF SupporterTypeOK, NeverPaysTwice, PaymentNotForgotten, ClaimKept, PurchaseKept, TaskSound
<1>4. CASE PollUnpaid
  <2>1. /\ licence' = [licence EXCEPT !.claim = 0] /\ licence.claim # 0 /\ order[licence.claim] = "closed"
        /\ UNCHANGED <<keyring, order, shown, delivered, adFree>>
    BY <1>4 DEF PollUnpaid, ConfirmedUnpaid
  <2>2. task' \in Tasks /\ task'.pc = "dropSecret"
    <3>1. "dropSecret" \in TaskPcs /\ FALSE \in BOOLEAN
      BY DEF TaskPcs
    <3> QED BY <3>1, <1>4, StepValues, Zenon DEF PollUnpaid
  <2>3. SupporterTypeOK'
    BY <2>1, <2>2 DEF SupporterTypeOK, Tasks, TaskPcs
  <2> QED
    BY <2>1, <2>2, <2>3 DEF SupporterTypeOK, NeverPaysTwice, PaymentNotForgotten, ClaimKept, PurchaseKept, TaskSound
<1>5. CASE Refresh
  <2>1. /\ licence' \in {licence, [licence EXCEPT !.revoked = TRUE]}
        /\ UNCHANGED <<keyring, order, shown, delivered>>
    BY <1>5, Zenon DEF Refresh
  <2>2. task' \in Tasks /\ (task' = task \/ task'.pc = "status") /\ adFree' \in BOOLEAN
    <3>1. "status" \in TaskPcs /\ FALSE \in BOOLEAN
      BY DEF TaskPcs
    <3>2. Step("status", 0, FALSE) \in Tasks /\ Step("status", 0, FALSE).pc = "status"
      BY <3>1, StepValues, Zenon
    <3>3. adFree \in BOOLEAN
      BY DEF SupporterTypeOK
    <3> QED BY <3>2, <3>3, <1>0, <1>5, Zenon DEF Refresh
  <2>3. /\ licence'.claim = licence.claim /\ licence'.token = licence.token
        /\ licence' \in [token : Purchases \cup {0}, claim : Orders \cup {0}, revoked : BOOLEAN]
    BY <2>1 DEF SupporterTypeOK
  <2>4. SupporterTypeOK'
    BY <2>1, <2>2, <2>3 DEF SupporterTypeOK, Tasks, TaskPcs
  <2> QED
    BY <2>1, <2>2, <2>3, <2>4 DEF NeverPaysTwice, PaymentNotForgotten, ClaimKept, PurchaseKept, TaskSound
<1> QED BY <1>1, <1>2, <1>3, <1>4, <1>5

(***************************************************************************)
(* "do not pay again", and no payment is forgotten, for any number of      *)
(* orders: whatever answer is lost and whichever of the three stores       *)
(* refuses (commands/supporter.rs).                                        *)
(***************************************************************************)
THEOREM SupporterInvariant == SupporterSpec => []SupporterInv
<1>1. SupporterInv /\ [SupporterNext]_supporterVars => SupporterInv'
  <2> SUFFICES ASSUME SupporterInv, [SupporterNext]_supporterVars PROVE SupporterInv'
    OBVIOUS
  <2>1. CASE UNCHANGED supporterVars
    BY <2>1 DEF supporterVars, SupporterInv, SupporterTypeOK, NeverPaysTwice, PaymentNotForgotten, ClaimKept,
       PurchaseKept, TaskSound
  <2> QED BY <2>1, OrderMoves, CheckoutBegins, ReadingCommands, CommandMoves DEF SupporterNext
<1> QED BY <1>1, SupporterStarts, PTL DEF SupporterSpec

-----------------------------------------------------------------------------
(***************************************************************************)
(* The login prompts.  Every call works with the attempt it began with:    *)
(* the counter gives each request its own, and a stored login lets one     *)
(* resend in at a time (AttemptsApart).                                    *)
(***************************************************************************)
CallValues ==
  [pc : {"idle", "forgetLogin", "forgetChallenge", "asking", "check", "store"},
   kind : {"none", "request", "resend", "cancel", "qr", "signin", "password"},
   attempt : 0..MaxAttempt,
   answer : {"none", "code", "success", "signup", "payment"}]
LoginValues == [attempt : 0..MaxAttempt, busy : BOOLEAN]

\* A call that is asking for a code.
Asks(r) == r.pc # "idle" /\ r.kind \in {"request", "resend"}

LEMMA NoValues ==
  /\ NoCall \in CallValues /\ NoPhoneLogin \in LoginValues
  /\ ~Asks(NoCall) /\ NoCall.attempt = 0 /\ NoCall.pc = "idle"
  /\ NoPhoneLogin.attempt = 0 /\ ~NoPhoneLogin.busy
<1>1. NoPhoneLogin \in LoginValues
  <2>1. 0 \in 0..MaxAttempt
    BY PhoneAssumption
  <2> QED BY <2>1, Zenon DEF NoPhoneLogin, LoginValues
<1>2. ~NoPhoneLogin.busy
  BY Zenon DEF NoPhoneLogin
<1> QED BY <1>1, <1>2, PhoneAssumption DEF NoCall, NoPhoneLogin, CallValues, Asks

\* Numbering: the only stored login without an attempt is none at all.
LEMMA NoAttemptNoLogin ==
  ASSUME PhoneInv, phoneLogin.attempt = 0
  PROVE  phoneLogin = NoPhoneLogin
<1>1. phoneLogin \in [attempt : 0..MaxAttempt, busy : BOOLEAN] /\ ~phoneLogin.busy
  BY DEF PhoneInv, PhoneTypeOK, AttemptsDrawn
<1>2. phoneLogin = [attempt |-> phoneLogin.attempt, busy |-> phoneLogin.busy]
  BY <1>1
<1>3. phoneLogin.busy = FALSE
  BY <1>1, Zenon
<1> QED BY <1>2, <1>3, Zenon DEF NoPhoneLogin

\* One call moves to r, and the stored login to l.
LEMMA CallMoves ==
  ASSUME PhoneInv, NEW c \in Calls, NEW r \in CallValues, NEW l \in LoginValues,
         call' = [call EXCEPT ![c] = r], phoneLogin' = l,
         attempts' \in 0..MaxAttempt, attempts <= attempts',
         challenge' \in BOOLEAN, signedIn' \in BOOLEAN,
         r.attempt <= attempts', Asks(r) => r.attempt # 0,
         r.pc \in {"check", "store"} => Asks(r),
         l.attempt <= attempts', l.attempt = 0 => ~l.busy,
         \A d \in Calls \ {c} : Asks(call[d]) =>
           /\ Asks(r) => r.attempt # call[d].attempt
           /\ call[d].attempt = l.attempt => call[d].kind = "resend" /\ l.busy,
         Asks(r) /\ r.attempt = l.attempt => r.kind = "resend" /\ l.busy
  PROVE  PhoneInv'
<1>1. /\ attempts \in Nat /\ call \in [Calls -> CallValues]
      /\ \A d \in Calls : call[d].attempt \in Nat
  BY PhoneAssumption DEF PhoneInv, PhoneTypeOK, CallValues
<1>2. /\ call'[c] = r /\ \A d \in Calls \ {c} : call'[d] = call[d]
      /\ call' \in [Calls -> CallValues]
  BY <1>1
<1>3. PhoneTypeOK'
  BY <1>2 DEF PhoneTypeOK, CallValues, LoginValues
<1>4. AttemptsDrawn'
  BY <1>1, <1>2 DEF PhoneInv, AttemptsDrawn, Asks, AskingCode
<1>5. AttemptsApart'
  <2>1. ASSUME NEW e \in Calls, NEW d \in Calls, e # d, AskingCode(e)', AskingCode(d)'
        PROVE  call'[e].attempt # call'[d].attempt
    BY <1>2, <2>1 DEF PhoneInv, AttemptsApart, Asks, AskingCode
  <2>2. ASSUME NEW d \in Calls, AskingCode(d)', call'[d].attempt = phoneLogin'.attempt
        PROVE  call'[d].kind = "resend" /\ phoneLogin'.busy
    BY <1>2, <2>2 DEF Asks, AskingCode
  <2> QED BY <2>1, <2>2 DEF AttemptsApart
<1>6. OneResend'
  <2>1. ASSUME NEW e \in Calls, NEW d \in Calls, e # d, {call'[e].kind, call'[d].kind} = {"resend"},
               {call'[e].pc, call'[d].pc} = {"asking"}
        PROVE  call'[e].attempt # call'[d].attempt
    <3>1. /\ call'[e].kind = "resend" /\ call'[d].kind = "resend"
          /\ call'[e].pc = "asking" /\ call'[d].pc = "asking"
      BY <2>1
    <3> QED BY <2>1, <3>1, <1>5 DEF AttemptsApart, AskingCode
  <2> QED BY <2>1 DEF OneResend
<1> QED BY <1>3, <1>4, <1>5, <1>6 DEF PhoneInv

\* What is known of the calls before a step.
LEMMA CallsBefore ==
  ASSUME PhoneInv, NEW c \in Calls
  PROVE  /\ call[c] \in CallValues /\ phoneLogin \in LoginValues
         /\ attempts \in 0..MaxAttempt /\ attempts <= attempts /\ challenge \in BOOLEAN /\ signedIn \in BOOLEAN
         /\ call[c].attempt <= attempts /\ (Asks(call[c]) => call[c].attempt # 0)
         /\ (call[c].pc \in {"check", "store"} => Asks(call[c]))
         /\ phoneLogin.attempt <= attempts /\ (phoneLogin.attempt = 0 => ~phoneLogin.busy)
         /\ \A d \in Calls \ {c} : Asks(call[d]) =>
              /\ Asks(call[c]) => call[c].attempt # call[d].attempt
              /\ call[d].attempt = phoneLogin.attempt => call[d].kind = "resend" /\ phoneLogin.busy
         /\ Asks(call[c]) /\ call[c].attempt = phoneLogin.attempt => call[c].kind = "resend" /\ phoneLogin.busy
BY DEF PhoneInv, PhoneTypeOK, AttemptsDrawn, AttemptsApart, AskingCode, Asks, CallValues, LoginValues

\* A call returns and leaves a stored login it does not share with another.
LEMMA CallReturns ==
  ASSUME PhoneInv, NEW c \in Calls, Return(c), UNCHANGED attempts,
         challenge' \in BOOLEAN, signedIn' \in BOOLEAN,
         \/ phoneLogin' = phoneLogin
         \/ phoneLogin' = NoPhoneLogin
         \/ /\ Asks(call[c]) /\ phoneLogin' \in LoginValues
            /\ phoneLogin'.attempt = call[c].attempt
  PROVE  PhoneInv'
<1> DEFINE l == phoneLogin'
<1>1. /\ l \in LoginValues /\ l.attempt <= attempts /\ (l.attempt = 0 => ~l.busy)
      /\ \A d \in Calls \ {c} : Asks(call[d]) =>
           (call[d].attempt = l.attempt => call[d].kind = "resend" /\ l.busy)
  <2>1. CASE l = phoneLogin
    BY <2>1, CallsBefore
  <2>2. CASE l = NoPhoneLogin
    BY <2>2, CallsBefore, NoValues
  <2>3. CASE Asks(call[c]) /\ l \in LoginValues /\ l.attempt = call[c].attempt
    BY <2>3, CallsBefore
  <2> QED BY <2>1, <2>2, <2>3
<1>2. PICK r \in CallValues : r = NoCall
  BY NoValues
<1>3. /\ call' = [call EXCEPT ![c] = r] /\ ~Asks(r) /\ r.attempt = 0 /\ r.pc = "idle"
  BY <1>2, NoValues DEF Return
<1>4. attempts' \in 0..MaxAttempt /\ attempts <= attempts' /\ 0 <= attempts'
  BY CallsBefore, PhoneAssumption
<1>5. PICK k \in LoginValues : k = l
  BY <1>1
<1> QED BY <1>1, <1>3, <1>4, <1>5, CallMoves

\* A call begins, as r.
LEMMA CallBegins ==
  ASSUME PhoneInv, NEW c \in Calls, NEW kind, NEW pc, NEW n \in 0..MaxAttempt,
         kind \in {"request", "resend", "cancel", "qr", "signin", "password"},
         pc \in {"forgetLogin", "forgetChallenge", "asking"},
         Begin(c, kind, pc, n)
  PROVE  \E r \in CallValues :
           /\ call' = [call EXCEPT ![c] = r] /\ r.pc = pc /\ r.kind = kind /\ r.attempt = n
           /\ r.pc \notin {"check", "store"} /\ (Asks(r) <=> kind \in {"request", "resend"})
<1> DEFINE r == [pc |-> pc, kind |-> kind, attempt |-> n, answer |-> "none"]
<1>1. r \in CallValues
  BY DEF CallValues
<1>2. call' = [call EXCEPT ![c] = r]
  BY DEF Begin
<1> QED BY <1>1, <1>2 DEF Asks

LEMMA PhoneBegins ==
  ASSUME PhoneInv, NEW c \in Calls,
         \/ \E k \in {"request", "cancel", "qr"} : NewAttempt(c, k)
         \/ ResendBegin(c) \/ SignInBegin(c) \/ PasswordBegin(c)
  PROVE  PhoneInv'
<1>0. attempts \in Nat /\ phoneLogin.attempt \in 0..MaxAttempt /\ MaxAttempt \in Nat
  BY CallsBefore, PhoneAssumption DEF LoginValues
<1>1. ASSUME NEW k \in {"request", "cancel", "qr"}, NewAttempt(c, k) PROVE PhoneInv'
  <2>1. /\ attempts' = attempts + 1 /\ attempts' \in 0..MaxAttempt /\ attempts <= attempts'
        /\ UNCHANGED <<phoneLogin, challenge, signedIn>>
    BY <1>0, <1>1 DEF NewAttempt
  <2>2. PICK n \in 0..MaxAttempt : n = attempts + 1
    BY <2>1
  <2>3. PICK pc \in {"forgetLogin", "forgetChallenge"} : Begin(c, k, pc, n)
    BY <1>1, <2>2 DEF NewAttempt
  <2>4. PICK r \in CallValues :
           /\ call' = [call EXCEPT ![c] = r] /\ r.kind = k /\ r.attempt = n
           /\ r.pc \notin {"check", "store"}
    BY <2>3, CallBegins
  <2>5. PICK l \in LoginValues : l = phoneLogin
    BY CallsBefore
  <2>6. \A d \in Calls : call[d].attempt <= attempts /\ call[d].attempt \in Nat
    BY CallsBefore DEF CallValues
  <2>7. /\ r.attempt # l.attempt /\ r.attempt # 0 /\ r.attempt <= attempts' /\ l.attempt <= attempts'
        /\ \A d \in Calls : r.attempt # call[d].attempt
    BY <1>0, <2>1, <2>2, <2>4, <2>5, <2>6, CallsBefore
  <2>8. /\ call' = [call EXCEPT ![c] = r] /\ phoneLogin' = l
        /\ attempts' \in 0..MaxAttempt /\ attempts <= attempts'
        /\ challenge' \in BOOLEAN /\ signedIn' \in BOOLEAN
        /\ r.attempt <= attempts' /\ (Asks(r) => r.attempt # 0)
        /\ (r.pc \in {"check", "store"} => Asks(r))
        /\ l.attempt <= attempts' /\ (l.attempt = 0 => ~l.busy)
    BY <2>1, <2>4, <2>5, <2>7, CallsBefore
  <2>9. /\ \A d \in Calls \ {c} : Asks(call[d]) =>
             /\ Asks(r) => r.attempt # call[d].attempt
             /\ call[d].attempt = l.attempt => call[d].kind = "resend" /\ l.busy
        /\ Asks(r) /\ r.attempt = l.attempt => r.kind = "resend" /\ l.busy
    BY <2>4, <2>5, <2>7, CallsBefore
  <2> QED BY <2>8, <2>9, CallMoves
<1>2. CASE ResendBegin(c)
  <2>1. /\ phoneLogin # NoPhoneLogin /\ ~phoneLogin.busy
        /\ phoneLogin' = [phoneLogin EXCEPT !.busy = TRUE]
        /\ UNCHANGED <<attempts, challenge, signedIn>>
    BY <1>2 DEF ResendBegin
  <2>2. PICK n \in 0..MaxAttempt : n = phoneLogin.attempt
    BY <1>0
  <2>3. PICK r \in CallValues :
           /\ call' = [call EXCEPT ![c] = r] /\ r.kind = "resend" /\ r.attempt = n
           /\ r.pc \notin {"check", "store"}
    BY <1>2, <2>2, CallBegins DEF ResendBegin
  <2>4. phoneLogin' \in LoginValues /\ phoneLogin'.attempt = n /\ phoneLogin'.busy
    BY <2>1, <2>2, CallsBefore DEF LoginValues
  <2>5. PICK l \in LoginValues : l = phoneLogin'
    BY <2>4
  <2>6. n # 0
    BY <2>1, <2>2, NoAttemptNoLogin
  <2>7. \A d \in Calls \ {c} : Asks(call[d]) => call[d].attempt # n
    BY <2>1, <2>2, CallsBefore
  <2>8. n <= attempts /\ attempts' \in 0..MaxAttempt /\ attempts <= attempts' /\ challenge' \in BOOLEAN /\ signedIn' \in BOOLEAN
    BY <2>1, <2>2, CallsBefore
  <2>9. /\ call' = [call EXCEPT ![c] = r] /\ phoneLogin' = l
        /\ attempts' \in 0..MaxAttempt /\ attempts <= attempts'
        /\ challenge' \in BOOLEAN /\ signedIn' \in BOOLEAN
        /\ r.attempt <= attempts' /\ (Asks(r) => r.attempt # 0)
        /\ (r.pc \in {"check", "store"} => Asks(r))
        /\ l.attempt <= attempts' /\ (l.attempt = 0 => ~l.busy)
    BY <2>1, <2>3, <2>4, <2>5, <2>6, <2>8, CallsBefore
  <2>10. /\ \A d \in Calls \ {c} : Asks(call[d]) =>
              /\ Asks(r) => r.attempt # call[d].attempt
              /\ call[d].attempt = l.attempt => call[d].kind = "resend" /\ l.busy
         /\ Asks(r) /\ r.attempt = l.attempt => r.kind = "resend" /\ l.busy
    BY <2>3, <2>4, <2>5, <2>7, CallsBefore
  <2> QED BY <2>9, <2>10, CallMoves
<1>3. CASE SignInBegin(c) \/ PasswordBegin(c)
  <2>1. attempts' = attempts /\ phoneLogin' = phoneLogin /\ challenge' \in BOOLEAN /\ signedIn' \in BOOLEAN
    BY <1>3, CallsBefore DEF SignInBegin, PasswordBegin
  <2>2. \E n \in 0..attempts, k \in {"signin", "password"} : n \in 0..MaxAttempt /\ Begin(c, k, "asking", n)
    BY <1>0, <1>3, CallsBefore DEF SignInBegin, PasswordBegin
  <2>3. PICK n \in 0..attempts, k \in {"signin", "password"} : n \in 0..MaxAttempt /\ Begin(c, k, "asking", n)
    BY <2>2
  <2>4. PICK r \in CallValues :
           /\ call' = [call EXCEPT ![c] = r] /\ r.attempt = n /\ ~Asks(r)
           /\ r.pc \notin {"check", "store"}
    BY <2>3, CallBegins
  <2>5. PICK l \in LoginValues : l = phoneLogin
    BY CallsBefore
  <2>6. attempts' \in 0..MaxAttempt /\ attempts <= attempts' /\ r.attempt <= attempts'
    BY <1>0, <2>1, <2>3, <2>4, CallsBefore
  <2>7. /\ call' = [call EXCEPT ![c] = r] /\ phoneLogin' = l
        /\ attempts' \in 0..MaxAttempt /\ attempts <= attempts'
        /\ challenge' \in BOOLEAN /\ signedIn' \in BOOLEAN
        /\ r.attempt <= attempts' /\ (Asks(r) => r.attempt # 0)
        /\ (r.pc \in {"check", "store"} => Asks(r))
        /\ l.attempt <= attempts' /\ (l.attempt = 0 => ~l.busy)
    BY <2>1, <2>4, <2>5, <2>6, CallsBefore
  <2>8. /\ \A d \in Calls \ {c} : Asks(call[d]) =>
             /\ Asks(r) => r.attempt # call[d].attempt
             /\ call[d].attempt = l.attempt => call[d].kind = "resend" /\ l.busy
        /\ Asks(r) /\ r.attempt = l.attempt => r.kind = "resend" /\ l.busy
    BY <2>4, <2>5, CallsBefore
  <2> QED BY <2>7, <2>8, CallMoves
<1> QED BY <1>1, <1>2, <1>3

\* A call that goes on, with the attempt it has.
LEMMA PhoneGoesOn ==
  ASSUME PhoneInv, NEW c \in Calls,
         \/ Answered(c)
         \/ ~Return(c) /\ (ForgetLogin(c) \/ ForgetChallenge(c) \/ StoreCheck(c))
  PROVE  PhoneInv'
<1>1. \E r \in CallValues :
        /\ call' = [call EXCEPT ![c] = r] /\ r.attempt = call[c].attempt /\ r.kind = call[c].kind
        /\ (r.pc \in {"check", "store"} => Asks(r)) /\ (Asks(r) => Asks(call[c]))
  <2>1. call[c] \in CallValues /\ call \in [Calls -> CallValues]
    BY CallsBefore DEF PhoneInv, PhoneTypeOK, CallValues
  <2>2. CASE Answered(c)
    <3>1. PICK a \in {"code", "success", "signup", "payment"} :
            call' = [call EXCEPT ![c].pc = "check", ![c].answer = a]
      BY <2>2 DEF Answered
    <3> DEFINE r == [call[c] EXCEPT !.pc = "check", !.answer = a]
    <3>2. r \in CallValues /\ r.attempt = call[c].attempt /\ r.kind = call[c].kind /\ r.pc = "check"
      BY <2>1 DEF CallValues
    <3>3. call' = [call EXCEPT ![c] = r]
      BY <2>1, <3>1
    <3> QED BY <2>2, <3>2, <3>3 DEF Answered, Asks
  <2>3. CASE ~Return(c) /\ (ForgetLogin(c) \/ ForgetChallenge(c) \/ StoreCheck(c))
    <3>1. PICK p \in {"forgetChallenge", "forgetLogin", "asking", "store"} :
            To(c, p) /\ (p = "store" => call[c].pc = "check") /\ call[c].pc # "idle"
      BY <2>3 DEF ForgetLogin, ForgetChallenge, StoreCheck
    <3> DEFINE r == [call[c] EXCEPT !.pc = p]
    <3>2. r \in CallValues /\ r.attempt = call[c].attempt /\ r.kind = call[c].kind /\ r.pc = p
      BY <2>1 DEF CallValues
    <3>3. call' = [call EXCEPT ![c] = r]
      BY <2>1, <3>1 DEF To
    <3> QED BY <3>1, <3>2, <3>3, CallsBefore DEF Asks
  <2> QED BY <2>2, <2>3
<1>2. PICK r \in CallValues :
        /\ call' = [call EXCEPT ![c] = r] /\ r.attempt = call[c].attempt /\ r.kind = call[c].kind
        /\ (r.pc \in {"check", "store"} => Asks(r)) /\ (Asks(r) => Asks(call[c]))
  BY <1>1
<1>3. /\ attempts' = attempts /\ signedIn' = signedIn /\ challenge' \in BOOLEAN
      /\ phoneLogin' = phoneLogin \/ phoneLogin' = NoPhoneLogin
  BY CallsBefore DEF ForgetLogin, ForgetChallenge, Answered, StoreCheck
<1>4. PICK l \in LoginValues : l = phoneLogin'
  BY <1>3, NoValues, CallsBefore
<1>5. CASE l = phoneLogin
  <2>1. /\ call' = [call EXCEPT ![c] = r] /\ phoneLogin' = l
        /\ attempts' \in 0..MaxAttempt /\ attempts <= attempts'
        /\ challenge' \in BOOLEAN /\ signedIn' \in BOOLEAN
        /\ r.attempt <= attempts' /\ (Asks(r) => r.attempt # 0)
        /\ (r.pc \in {"check", "store"} => Asks(r))
        /\ l.attempt <= attempts' /\ (l.attempt = 0 => ~l.busy)
    BY <1>2, <1>3, <1>4, <1>5, CallsBefore
  <2>2. /\ \A d \in Calls \ {c} : Asks(call[d]) =>
             /\ Asks(r) => r.attempt # call[d].attempt
             /\ call[d].attempt = l.attempt => call[d].kind = "resend" /\ l.busy
        /\ Asks(r) /\ r.attempt = l.attempt => r.kind = "resend" /\ l.busy
    BY <1>2, <1>4, <1>5, CallsBefore
  <2> QED BY <2>1, <2>2, CallMoves
<1>6. CASE l = NoPhoneLogin
  <2>1. 0 <= attempts' /\ l.attempt = 0 /\ ~l.busy
    BY <1>3, <1>6, NoValues, CallsBefore, PhoneAssumption
  <2>2. /\ call' = [call EXCEPT ![c] = r] /\ phoneLogin' = l
        /\ attempts' \in 0..MaxAttempt /\ attempts <= attempts'
        /\ challenge' \in BOOLEAN /\ signedIn' \in BOOLEAN
        /\ r.attempt <= attempts' /\ (Asks(r) => r.attempt # 0)
        /\ (r.pc \in {"check", "store"} => Asks(r))
        /\ l.attempt <= attempts' /\ (l.attempt = 0 => ~l.busy)
    BY <1>2, <1>3, <1>4, <2>1, CallsBefore
  <2>3. /\ \A d \in Calls \ {c} : Asks(call[d]) =>
             /\ Asks(r) => r.attempt # call[d].attempt
             /\ call[d].attempt = l.attempt => call[d].kind = "resend" /\ l.busy
        /\ Asks(r) /\ r.attempt = l.attempt => r.kind = "resend" /\ l.busy
    BY <1>2, <1>4, <2>1, CallsBefore
  <2> QED BY <2>2, <2>3, CallMoves
<1> QED BY <1>3, <1>4, <1>5, <1>6

\* A call that ends.
LEMMA PhoneEnds ==
  ASSUME PhoneInv, NEW c \in Calls, Return(c),
         \/ ForgetLogin(c) \/ ForgetChallenge(c) \/ AskFails(c) \/ StoreCheck(c) \/ StoreSentCode(c)
         \/ SignInAccepted(c) \/ PasswordNeeded(c) \/ PasswordAccepted(c)
         \/ PasswordRefused(c) \/ QrExported(c)
  PROVE  PhoneInv'
<1>1. CASE \/ ForgetLogin(c) \/ ForgetChallenge(c) \/ StoreCheck(c) \/ SignInAccepted(c)
           \/ PasswordNeeded(c) \/ PasswordAccepted(c) \/ PasswordRefused(c) \/ QrExported(c)
  <2>1. /\ UNCHANGED attempts /\ challenge' \in BOOLEAN /\ signedIn' \in BOOLEAN
        /\ phoneLogin' = phoneLogin \/ phoneLogin' = NoPhoneLogin
    BY <1>1, CallsBefore DEF ForgetLogin, ForgetChallenge, StoreCheck, SignInAccepted, PasswordNeeded,
       PasswordAccepted, PasswordRefused, QrExported
  <2> QED BY <2>1, CallReturns
<1>2. CASE AskFails(c)
  <2>1. UNCHANGED <<attempts, challenge, signedIn>> /\ call[c].pc = "asking"
    BY <1>2 DEF AskFails
  <2>2. CASE phoneLogin' = phoneLogin
    BY <2>1, <2>2, CallsBefore, CallReturns
  <2>3. CASE phoneLogin' # phoneLogin
    <3>1. /\ call[c].kind = "resend" /\ phoneLogin.attempt = call[c].attempt
          /\ phoneLogin' = [phoneLogin EXCEPT !.busy = FALSE]
      BY <1>2, <2>3, Zenon DEF AskFails
    <3>2. phoneLogin' \in LoginValues /\ phoneLogin'.attempt = call[c].attempt
      <4>1. ASSUME NEW b \in BOOLEAN, phoneLogin' = [phoneLogin EXCEPT !.busy = b]
            PROVE  phoneLogin' \in LoginValues /\ phoneLogin'.attempt = phoneLogin.attempt
        BY <4>1, CallsBefore DEF LoginValues
      <4> QED BY <3>1, <4>1, Zenon
    <3>3. Asks(call[c])
      BY <2>1, <3>1 DEF Asks
    <3> QED BY <2>1, <3>2, <3>3, CallsBefore, CallReturns
  <2> QED BY <2>2, <2>3
<1>3. CASE StoreSentCode(c)
  <2>1. /\ UNCHANGED <<attempts, challenge>> /\ signedIn' \in BOOLEAN /\ Asks(call[c])
        /\ call[c].attempt \in 0..MaxAttempt
    BY <1>3, CallsBefore DEF StoreSentCode, CallValues
  <2>2. \/ phoneLogin' = phoneLogin \/ phoneLogin' = NoPhoneLogin
        \/ phoneLogin' = SentCode(call[c].attempt)
    BY <1>3, Zenon DEF StoreSentCode
  <2>3. ASSUME NEW n \in 0..MaxAttempt PROVE SentCode(n) \in LoginValues /\ SentCode(n).attempt = n
    <3>1. SentCode(n) \in LoginValues
      BY Zenon DEF SentCode, LoginValues
    <3> QED BY <3>1 DEF SentCode
  <2> QED BY <2>1, <2>2, <2>3, CallsBefore, CallReturns
<1> QED BY <1>1, <1>2, <1>3

LEMMA PhonePolls ==
  ASSUME PhoneInv, QrPoll
  PROVE  PhoneInv'
<1>1. /\ phoneLogin' = NoPhoneLogin /\ signedIn' \in BOOLEAN /\ UNCHANGED <<attempts, challenge, call>>
  BY DEF QrPoll
<1>2. PhoneTypeOK'
  BY <1>1, NoValues DEF PhoneInv, PhoneTypeOK, LoginValues
<1> QED
  BY <1>1, <1>2, NoValues, PhoneAssumption
     DEF PhoneInv, PhoneTypeOK, OneResend, AttemptsDrawn, AttemptsApart, AskingCode

(***************************************************************************)
(* One resend at a time, for any number of calls and of attempts           *)
(* (commands/auth.rs, request_in_flight and attempt_id).                   *)
(***************************************************************************)
THEOREM PhoneInvariant == PhoneSpec => []PhoneInv
<1>1. PhoneInit => PhoneInv
  <2> SUFFICES ASSUME PhoneInit PROVE PhoneInv
    OBVIOUS
  <2>1. PhoneTypeOK
    BY NoValues, PhoneAssumption DEF PhoneInit, PhoneTypeOK, CallValues, LoginValues
  <2>2. \A c \in Calls : call[c] = NoCall
    BY DEF PhoneInit
  <2> QED
    BY <2>1, <2>2, NoValues, PhoneAssumption
       DEF PhoneInit, PhoneInv, OneResend, AttemptsDrawn, AttemptsApart, AskingCode, Asks
<1>2. PhoneInv /\ [PhoneNext]_phoneVars => PhoneInv'
  <2> SUFFICES ASSUME PhoneInv, [PhoneNext]_phoneVars PROVE PhoneInv'
    OBVIOUS
  <2>1. CASE UNCHANGED phoneVars
    BY <2>1 DEF phoneVars, PhoneInv, PhoneTypeOK, OneResend, AttemptsDrawn, AttemptsApart, AskingCode
  <2>2. ASSUME NEW c \in Calls, CallStep(c) PROVE PhoneInv'
    <3>1. CASE Return(c)
      BY <2>2, <3>1, PhoneBegins, PhoneEnds, PhoneGoesOn DEF CallStep
    <3>2. CASE ~Return(c)
      BY <2>2, <3>2, PhoneBegins, PhoneGoesOn
         DEF CallStep, AskFails, StoreSentCode, SignInAccepted, PasswordNeeded, PasswordAccepted,
             PasswordRefused, QrExported
    <3> QED BY <3>1, <3>2
  <2> QED BY <2>1, <2>2, PhonePolls DEF PhoneNext
<1> QED BY <1>1, <1>2, PTL DEF PhoneSpec

-----------------------------------------------------------------------------
(***************************************************************************)
(* The folder layouts.  A swap writes three things in turn, and a crash or *)
(* an error may end it after any of them: SwapSound says what each step    *)
(* has left behind.                                                        *)
(***************************************************************************)
LEMMA LayoutStarts == LayoutInit => LayoutInv
<1> SUFFICES ASSUME LayoutInit PROVE LayoutInv
  OBVIOUS
<1>1. IsLayout(EmptyLayout)
  BY DEF IsLayout, EmptyLayout
<1>2. IsLayout(shared)
  <2>1. PICK a \in LayoutAccounts : shared =
       [groups |-> <<>>, rows |-> [c \in {c \in Channels : HolderOf[c] = a /\ remote[c] = 1} |-> NewRow(c, <<>>)]]
    BY DEF LayoutInit
  <2> QED BY <2>1 DEF IsLayout
<1>3. NoSwap.step = "none" /\ NoSwap.to = NoAccount /\ NoSwap.for = "none"
  BY DEF NoSwap
<1>4. LayoutTypeOK
  <2>1. remote \in [Channels -> 0..2] /\ 0 \in 0..MaxEdits
    BY MaxEditsAssumption DEF LayoutInit
  <2> QED BY <1>1, <1>2, <2>1 DEF LayoutInit, LayoutTypeOK, NoSwap
<1>5. ScanSound
  BY <1>3 DEF LayoutInit, ScanSound, NoScan
<1> QED BY <1>3, <1>4, <1>5, AccountNames DEF LayoutInit, LayoutInv, SwapSound, LayoutKept

\* Steps that leave the tables, their marker and the stores alone.
LEMMA TablesSame ==
  ASSUME LayoutInv, UNCHANGED <<owner_marker, shared, saved, left>>, SwapSound', ScanSound',
         layoutSession' \in LayoutAccounts \cup {NoAccount}, leaving' \in LayoutAccounts \cup {NoAccount},
         remote' \in [Channels -> 0..2], edits' \in 0..MaxEdits,
         pending' \subseteq [kind : {"create", "delete", "rename", "visibility"}, channel : Channels, title : 0..2],
         reader' \in LayoutAccounts \cup {NoAccount, "idle"},
         swap' \in [step : {"none", "disown", "replace", "own", "ready", "prune"},
                    to : LayoutAccounts \cup {NoAccount}, for : {"none", "list", "known", "merge", "logout"}]
  PROVE  LayoutInv'
<1>1. LayoutTypeOK'
  BY DEF LayoutInv, LayoutTypeOK, IsLayout
<1> QED BY <1>1 DEF LayoutInv, LayoutKept

\* The tables change while no swap is in the middle of replacing them.
LEMMA TablesChange ==
  ASSUME LayoutInv, NEW t, SetTables(t), IsLayout(t), ScanSound',
         swap.step \in {"none", "ready", "prune"},
         swap' \in {swap, NoSwap} \/ (swap.step # "none" /\ swap' = [swap EXCEPT !.step = "prune"]),
         UNCHANGED <<owner_marker, saved, layoutSession, remote>>,
         leaving' \in {leaving, NoAccount}, edits' \in 0..MaxEdits, pending' \subseteq pending,
         reader' \in {reader, "idle"}
  PROVE  LayoutInv'
<1>1. /\ shared' = t /\ left' = [a \in LayoutAccounts |-> IF a = owner_marker THEN t ELSE left[a]]
  BY AccountNames DEF SetTables, LayoutInv, LayoutTypeOK
<1>2. LayoutKept'
  BY <1>1 DEF LayoutInv, LayoutKept
<1>3. SwapSound'
  <2>1. /\ swap'.step \in {"none", "ready", "prune"}
        /\ swap'.step # "none" => swap'.for = swap.for /\ swap'.to = swap.to /\ swap.step # "none"
    BY DEF LayoutInv, NoSwap, LayoutTypeOK
  <2> QED BY <2>1 DEF LayoutInv, SwapSound
<1>4. LayoutTypeOK'
  <2>1. \A a \in LayoutAccounts : IsLayout(left[a]) /\ IsLayout(saved[a])
    BY DEF LayoutInv, LayoutTypeOK
  <2>2. \A a \in LayoutAccounts : IsLayout(left'[a])
    BY <1>1, <2>1
  <2>3. swap' \in [step : {"none", "disown", "replace", "own", "ready", "prune"},
                    to : LayoutAccounts \cup {NoAccount}, for : {"none", "list", "known", "merge", "logout"}]
    BY DEF LayoutInv, LayoutTypeOK, NoSwap
  <2> QED BY <1>1, <2>1, <2>2, <2>3 DEF LayoutInv, LayoutTypeOK, IsLayout
<1> QED BY <1>2, <1>3, <1>4 DEF LayoutInv

\* The states before a step, in the parts that most proofs need.
SwapValues ==
  [step : {"none", "disown", "replace", "own", "ready", "prune"},
   to : LayoutAccounts \cup {NoAccount}, for : {"none", "list", "known", "merge", "logout"}]
Changes == [kind : {"create", "delete", "rename", "visibility"}, channel : Channels, title : 0..2]

LEMMA NoValue ==
  /\ NoSwap \in SwapValues /\ NoSwap.step = "none" /\ NoSwap.for = "none"
  /\ NoScan.pc = "idle" /\ NoScan.owner = NoAccount /\ NoScan.known = {} /\ DOMAIN NoScan.found = {}
  /\ NoScan = [pc |-> NoScan.pc, owner |-> NoScan.owner, known |-> NoScan.known, found |-> NoScan.found]
BY DEF NoSwap, NoScan, SwapValues

\* Sessions, and what happens at Telegram.
LEMMA SessionMoves ==
  ASSUME LayoutInv,
         \/ \E a \in LayoutAccounts : SignIn(a)
         \/ Logout \/ LayoutScope \/ ScanFolders \/ IterDialogs \/ LayoutCrash
         \/ \E c \in Channels : CreateFolder(c) \/ DeleteFolder(c) \/ RenameFolder(c) \/ ToggleVisibility(c)
  PROVE  LayoutInv'
<1>1. UNCHANGED <<owner_marker, shared, saved, left>>
  BY DEF SignIn, Logout, LayoutScope, ScanFolders, IterDialogs, LayoutCrash, CreateFolder, DeleteFolder,
     RenameFolder, ToggleVisibility, AtTelegram
<1>2. layoutSession' \in LayoutAccounts \cup {NoAccount} /\ leaving' \in LayoutAccounts \cup {NoAccount}
  BY DEF LayoutInv, LayoutTypeOK, SignIn, Logout, LayoutScope, ScanFolders, IterDialogs, LayoutCrash, CreateFolder,
     DeleteFolder, RenameFolder, ToggleVisibility, AtTelegram
<1>3. reader' \in LayoutAccounts \cup {NoAccount, "idle"} /\ swap' \in {swap, NoSwap} /\ swap' \in SwapValues
  BY NoValue DEF LayoutInv, LayoutTypeOK, SwapValues, SignIn, Logout, LayoutScope, ScanFolders, IterDialogs, LayoutCrash,
     CreateFolder, DeleteFolder, RenameFolder, ToggleVisibility, AtTelegram
<1>4. remote' \in [Channels -> 0..2] /\ edits' \in 0..MaxEdits /\ pending' \subseteq Changes
  <2>1. ASSUME NEW c \in Channels, NEW k \in {"create", "delete", "rename", "visibility"}, AtTelegram(k, c)
        PROVE  remote' \in [Channels -> 0..2] /\ edits' \in 0..MaxEdits /\ pending' \subseteq Changes
    <3>1. remote' \in [Channels -> 0..2]
      BY <2>1 DEF AtTelegram, LayoutInv, LayoutTypeOK
    <3>2. edits' \in 0..MaxEdits
      BY <2>1, MaxEditsAssumption DEF AtTelegram, Edit, LayoutInv, LayoutTypeOK
    <3>3. pending' = pending \cup {[kind |-> k, channel |-> c, title |-> remote'[c]]}
      BY <2>1 DEF AtTelegram
    <3> QED BY <3>1, <3>2, <3>3 DEF Changes, LayoutInv, LayoutTypeOK
  <2>2. CASE UNCHANGED <<remote, edits>> /\ pending' \subseteq pending
    BY <2>2 DEF Changes, LayoutInv, LayoutTypeOK
  <2> QED BY <2>1, <2>2 DEF SignIn, Logout, LayoutScope, ScanFolders, IterDialogs, LayoutCrash, CreateFolder,
          DeleteFolder, RenameFolder, ToggleVisibility
<1>5. SwapSound'
  BY <1>1, <1>3, NoValue DEF LayoutInv, SwapSound
<1>6. ScanSound'
  <2>1. CASE UNCHANGED <<scan, swap>>
    BY <2>1 DEF LayoutInv, ScanSound
  <2>2. CASE LayoutCrash
    BY <2>2, NoValue DEF LayoutCrash, ScanSound
  <2>3. CASE ScanFolders
    <3>1. /\ scan' = [NoScan EXCEPT !.pc = "known", !.owner = layoutSession] /\ scan.pc = "idle"
          /\ layoutSession \in LayoutAccounts \cup {NoAccount} /\ layoutSession # NoAccount /\ swap' = swap
      BY <2>3 DEF ScanFolders, LayoutInv, LayoutTypeOK
    <3>2. scan' = [pc |-> "known", owner |-> layoutSession, known |-> {}, found |-> <<>>]
      BY <3>1 DEF NoScan
    <3>3. /\ scan'.pc = "known" /\ scan'.owner = layoutSession /\ scan'.known = {} /\ DOMAIN scan'.found = {}
          /\ scan' = [pc |-> scan'.pc, owner |-> scan'.owner, known |-> scan'.known, found |-> scan'.found]
      BY <3>2
    <3>4. swap'.for \notin {"known", "merge"}
      BY <3>1 DEF LayoutInv, ScanSound
    <3> QED BY <3>1, <3>3, <3>4 DEF ScanSound
  <2>4. CASE IterDialogs
    <3>1. scan.pc = "dialogs" /\ UNCHANGED swap
      BY <2>4 DEF IterDialogs
    <3>2. CASE scan' = NoScan
      BY <3>1, <3>2, NoValue DEF LayoutInv, ScanSound
    <3>3. CASE scan' # NoScan
      <4>1. PICK f : scan' = [scan EXCEPT !.pc = "merge", !.found = f] /\ DOMAIN f \subseteq Channels
        <5> DEFINE live == {c \in Channels : HolderOf[c] = scan.owner /\ remote[c] # 0}
                   sure == {c \in live : c \notin AboutOnly \/ c \in scan.known}
        <5>1. PICK S \in SUBSET (live \ sure) :
                scan' = [scan EXCEPT !.pc = "merge", !.found = [c \in sure \cup S |-> remote[c]]]
          BY <2>4, <3>3 DEF IterDialogs
        <5>2. PICK D \in SUBSET Channels : D = sure \cup S
          OBVIOUS
        <5> HIDE DEF live, sure
        <5>3. scan' = [scan EXCEPT !.pc = "merge", !.found = [c \in D |-> remote[c]]]
          BY <5>1, <5>2
        <5> DEFINE g == [c \in D |-> remote[c]]
        <5>4. scan' = [scan EXCEPT !.pc = "merge", !.found = g] /\ DOMAIN g \subseteq Channels
          BY <5>2, <5>3
        <5> HIDE DEF g
        <5> QED BY <5>4
      <4> QED BY <3>1, <4>1 DEF LayoutInv, ScanSound
    <3> QED BY <3>2, <3>3
  <2> QED BY <2>1, <2>2, <2>3, <2>4 DEF SignIn, Logout, LayoutScope, CreateFolder, DeleteFolder, RenameFolder,
          ToggleVisibility, AtTelegram
<1> QED BY <1>1, <1>2, <1>3, <1>4, <1>5, <1>6, TablesSame DEF SwapValues, Changes

\* A layout goes into its account's store, and its marker is still there.
LEMMA SwapBegins ==
  ASSUME LayoutInv, NEW to \in LayoutAccounts, NEW for \in {"list", "known", "merge"}, ActivateStep(to, for),
         ConnectionFree, for \in {"known", "merge"} => scan.pc = for,
         UNCHANGED <<layoutSession, leaving, shared, remote, reader, pending, scan, edits>>
  PROVE  LayoutInv'
<1>1. /\ swap' \in SwapValues /\ swap'.to = to /\ swap'.for = for /\ swap'.step \in {"ready", "disown"}
  BY DEF ActivateStep, SwapValues
<1>2. ScanSound'
  BY <1>1 DEF LayoutInv, ScanSound
<1>3. CASE owner_marker = to
  <2>1. UNCHANGED <<owner_marker, saved, left>> /\ swap'.step = "ready"
    BY <1>3, AccountNames DEF ActivateStep
  <2>2. LayoutTypeOK' /\ LayoutKept'
    BY <1>1, <2>1 DEF LayoutInv, LayoutTypeOK, LayoutKept, IsLayout, SwapValues
  <2>3. SwapSound'
    BY <1>1, <2>1 DEF SwapSound
  <2> QED BY <1>2, <2>2, <2>3 DEF LayoutInv
<1>4. CASE owner_marker = Unmarked
  <2>1. /\ owner_marker' = to /\ left' = [left EXCEPT ![to] = shared] /\ UNCHANGED saved
        /\ swap'.step = "ready"
    BY <1>4, AccountNames DEF ActivateStep
  <2>2. left' = [a \in LayoutAccounts |-> IF a = to THEN shared ELSE left[a]]
    BY <2>1 DEF LayoutInv, LayoutTypeOK
  <2>3. LayoutKept'
    BY <1>4, <2>1, <2>2, AccountNames DEF LayoutInv, LayoutKept
  <2>4. LayoutTypeOK'
    BY <1>1, <2>1, <2>2 DEF LayoutInv, LayoutTypeOK, IsLayout, SwapValues
  <2>5. SwapSound'
    BY <1>1, <2>1 DEF SwapSound
  <2> QED BY <1>2, <2>3, <2>4, <2>5 DEF LayoutInv
<1>5. CASE owner_marker \notin {to, Unmarked}
  <2>1. /\ saved' = IF owner_marker \in LayoutAccounts THEN [saved EXCEPT ![owner_marker] = shared] ELSE saved
        /\ UNCHANGED <<owner_marker, left>> /\ swap'.step = "disown"
    BY <1>5 DEF ActivateStep, NeedsSave, SavedFor
  <2>2. saved' = [a \in LayoutAccounts |-> IF a = owner_marker THEN shared ELSE saved[a]]
    BY <2>1 DEF LayoutInv, LayoutTypeOK
  <2>3. LayoutKept'
    BY <2>1, <2>2 DEF LayoutInv, LayoutKept
  <2>4. LayoutTypeOK'
    BY <1>1, <2>1, <2>2 DEF LayoutInv, LayoutTypeOK, IsLayout, SwapValues
  <2>5. SwapSound'
    BY <1>1, <2>1, <2>2 DEF SwapSound
  <2> QED BY <1>2, <2>3, <2>4, <2>5 DEF LayoutInv
<1> QED BY <1>3, <1>4, <1>5

\* Listing the folders, scanning, and signing out each begin a swap.
LEMMA SwapsBegin ==
  ASSUME LayoutInv, PrepareLayout \/ Deactivate \/ \E s \in {"known", "merge"} : ScanPrepares(s)
  PROVE  LayoutInv'
<1>1. CASE PrepareLayout
  <2>1. CASE reader = NoAccount
    <3>1. /\ UNCHANGED <<owner_marker, shared, saved, left, scan, swap, layoutSession, leaving, remote, edits, pending>>
          /\ reader' = "idle"
      BY <1>1, <2>1 DEF PrepareLayout
    <3>2. SwapSound' /\ ScanSound'
      BY <3>1 DEF LayoutInv, SwapSound, ScanSound
    <3> QED BY <3>1, <3>2, TablesSame DEF LayoutInv, LayoutTypeOK
  <2>2. CASE reader # NoAccount
    <3>1. reader \in LayoutAccounts
      BY <1>1, <2>2 DEF PrepareLayout, LayoutInv, LayoutTypeOK
    <3> QED BY <1>1, <2>2, <3>1, SwapBegins DEF PrepareLayout
  <2> QED BY <2>1, <2>2
<1>2. ASSUME NEW s \in {"known", "merge"}, ScanPrepares(s) PROVE LayoutInv'
  <2>1. CASE layoutSession = scan.owner
    <3>1. scan.owner \in LayoutAccounts /\ scan.pc = s
      BY <1>2 DEF ScanPrepares, LayoutInv, ScanSound
    <3> QED BY <1>2, <2>1, <3>1, SwapBegins DEF ScanPrepares
  <2>2. CASE layoutSession # scan.owner
    <3>1. /\ UNCHANGED <<owner_marker, shared, saved, left, swap, layoutSession, leaving, remote, edits, pending, reader>>
          /\ scan' = NoScan /\ swap = NoSwap
      BY <1>2, <2>2 DEF ScanPrepares, ConnectionFree
    <3>2. SwapSound' /\ ScanSound'
      BY <3>1, NoValue DEF LayoutInv, SwapSound, ScanSound
    <3> QED BY <3>1, <3>2, TablesSame DEF LayoutInv, LayoutTypeOK
  <2> QED BY <2>1, <2>2
<1>3. CASE Deactivate
  <2> DEFINE owner == IF owner_marker = Unmarked THEN leaving ELSE owner_marker
  <2>1. /\ saved' = IF owner # NoAccount THEN [saved EXCEPT ![owner] = shared] ELSE saved
        /\ left' = IF owner_marker = Unmarked THEN [left EXCEPT ![owner] = shared] ELSE left
        /\ swap' = [step |-> "disown", to |-> NoAccount, for |-> "logout"]
        /\ UNCHANGED <<layoutSession, leaving, owner_marker, shared, remote, reader, pending, scan, edits>>
    BY <1>3 DEF Deactivate
  <2>2. owner \in LayoutAccounts \cup {NoAccount} /\ (owner_marker = Unmarked => owner \in LayoutAccounts)
        /\ (owner_marker # Unmarked => owner = owner_marker)
    BY <1>3 DEF Deactivate, LayoutInv, LayoutTypeOK
  <2> HIDE DEF owner
  <2>3. /\ saved' = [a \in LayoutAccounts |-> IF a = owner THEN shared ELSE saved[a]]
        /\ left' = [a \in LayoutAccounts |-> IF a = owner /\ owner_marker = Unmarked THEN shared ELSE left[a]]
    BY <2>1, <2>2, AccountNames DEF LayoutInv, LayoutTypeOK
  <2>4. LayoutKept'
    BY <2>1, <2>2, <2>3, AccountNames DEF LayoutInv, LayoutKept
  <2>5. LayoutTypeOK'
    BY <2>1, <2>3 DEF LayoutInv, LayoutTypeOK, IsLayout
  <2>6. SwapSound' /\ ScanSound'
    BY <2>1, <2>2, <2>3, AccountNames DEF LayoutInv, SwapSound, ScanSound
  <2> QED BY <2>4, <2>5, <2>6 DEF LayoutInv
<1> QED BY <1>1, <1>2, <1>3

\* The steps of a swap, whose command may fail at any of them.
LEMMA SwapMoves ==
  ASSUME LayoutInv, Disown \/ ReplaceTables \/ OwnTables
  PROVE  LayoutInv'
<1>1. CASE Disown
  <2>1. /\ owner_marker' = NoAccount /\ swap' = [swap EXCEPT !.step = "replace"] /\ swap.step = "disown"
        /\ UNCHANGED <<layoutSession, leaving, shared, saved, left, remote, reader, pending, scan, edits>>
    BY <1>1 DEF Disown
  <2>2. LayoutTypeOK'
    BY <2>1 DEF LayoutInv, LayoutTypeOK, IsLayout
  <2>3. LayoutKept'
    BY <2>1, AccountNames DEF LayoutInv, LayoutKept, SwapSound
  <2>4. SwapSound' /\ ScanSound'
    BY <2>1 DEF LayoutInv, LayoutTypeOK, SwapSound, ScanSound
  <2> QED BY <2>2, <2>3, <2>4 DEF LayoutInv
<1>2. CASE ReplaceTables
  <2>1. /\ shared' = IF swap.to = NoAccount THEN EmptyLayout ELSE saved[swap.to]
        /\ swap' = [swap EXCEPT !.step = "own"] /\ swap.step = "replace"
        /\ UNCHANGED <<layoutSession, leaving, owner_marker, saved, left, remote, reader, pending, scan, edits>>
    BY <1>2 DEF ReplaceTables
  <2>2. LayoutTypeOK'
    <3>1. IsLayout(EmptyLayout)
      BY DEF IsLayout, EmptyLayout
    <3> QED BY <2>1, <3>1 DEF LayoutInv, LayoutTypeOK, IsLayout
  <2>3. LayoutKept'
    BY <2>1, AccountNames DEF LayoutInv, LayoutKept, SwapSound
  <2>4. SwapSound' /\ ScanSound'
    BY <2>1, AccountNames DEF LayoutInv, LayoutTypeOK, SwapSound, ScanSound
  <2> QED BY <2>2, <2>3, <2>4 DEF LayoutInv
<1>3. CASE OwnTables
  <2>1. /\ swap.step = "own" /\ swap.for # "logout" /\ owner_marker' = swap.to
        /\ swap' = [swap EXCEPT !.step = "ready"]
        /\ UNCHANGED <<layoutSession, leaving, shared, saved, left, remote, reader, pending, scan, edits>>
    BY <1>3 DEF OwnTables
  <2>2. LayoutTypeOK'
    BY <2>1 DEF LayoutInv, LayoutTypeOK, IsLayout
  <2>3. LayoutKept'
    BY <2>1, AccountNames DEF LayoutInv, LayoutKept, SwapSound
  <2>4. SwapSound' /\ ScanSound'
    BY <2>1 DEF LayoutInv, LayoutTypeOK, SwapSound, ScanSound
  <2> QED BY <2>2, <2>3, <2>4 DEF LayoutInv
<1> QED BY <1>1, <1>2, <1>3

LEMMA SwapEnds ==
  ASSUME LayoutInv, SwapFails \/ LogoutDone \/ EnrichedFolders \/ KnownFolders
  PROVE  LayoutInv'
<1>1. /\ UNCHANGED <<owner_marker, shared, saved, left, layoutSession, remote, edits, pending>>
      /\ swap' = NoSwap /\ leaving' \in {leaving, NoAccount} /\ reader' \in {reader, "idle"}
  BY DEF SwapFails, LogoutDone, EnrichedFolders, KnownFolders, Abandoned
<1>2. SwapSound'
  BY <1>1, NoValue DEF SwapSound
<1>3. ScanSound'
  <2>1. CASE scan' \in {scan, NoScan}
    BY <1>1, <2>1, NoValue DEF LayoutInv, ScanSound
  <2>2. CASE KnownFolders
    BY <1>1, <2>2, NoValue DEF KnownFolders, Folders, LayoutInv, LayoutTypeOK, IsLayout, ScanSound
  <2> QED BY <2>1, <2>2 DEF SwapFails, LogoutDone, EnrichedFolders, Abandoned
<1> QED BY <1>1, <1>2, <1>3, NoValue, TablesSame DEF LayoutInv, LayoutTypeOK, SwapValues

\* What a command writes is again a layout.
LEMMA RowsChange ==
  ASSUME LayoutInv, NEW rows, DOMAIN rows \subseteq Channels
  PROVE  IsLayout([shared EXCEPT !.rows = rows])
BY DEF LayoutInv, LayoutTypeOK, IsLayout

LEMMA ScanWrites ==
  ASSUME LayoutInv, MergeFolders \/ PruneFolders
  PROVE  LayoutInv'
<1>1. \E rows : SetTables([shared EXCEPT !.rows = rows]) /\ DOMAIN rows \subseteq Channels
  <2>1. CASE MergeFolders
    <3> DEFINE new == DOMAIN scan.found \ Folders
               merged == [c \in Folders \cup new |->
                      IF c \in new THEN [group |-> 0, order |-> NextOrder(shared.rows), title |-> scan.found[c]]
                      ELSE IF c \in DOMAIN scan.found THEN [shared.rows[c] EXCEPT !.title = scan.found[c]]
                      ELSE shared.rows[c]]
    <3>1. SetTables([shared EXCEPT !.rows = merged])
      BY <2>1, Zenon DEF MergeFolders
    <3>2. Folders \cup new \subseteq Channels
      BY DEF LayoutInv, LayoutTypeOK, ScanSound, IsLayout, Folders
    <3>3. DOMAIN merged = Folders \cup new
      OBVIOUS
    <3>4. DOMAIN merged \subseteq Channels
      BY <3>2, <3>3
    <3> HIDE DEF merged
    <3> QED BY <3>1, <3>4
  <2>2. CASE PruneFolders
    <3> DEFINE rows == DropFolder(shared.rows, Folders \ DOMAIN scan.found)
    <3>1. SetTables([shared EXCEPT !.rows = rows])
      BY <2>2 DEF PruneFolders
    <3>2. DOMAIN rows \subseteq Channels
      BY DEF DropFolder, LayoutInv, LayoutTypeOK, IsLayout
    <3> HIDE DEF rows
    <3> QED BY <3>1, <3>2
  <2> QED BY <2>1, <2>2
<1>2. PICK rows : SetTables([shared EXCEPT !.rows = rows]) /\ DOMAIN rows \subseteq Channels
  BY <1>1
<1>3. PICK t : t = [shared EXCEPT !.rows = rows] /\ IsLayout(t) /\ SetTables(t)
  BY <1>2, RowsChange
<1>4. /\ swap.step \in {"ready", "prune"}
      /\ swap' = NoSwap \/ swap' = [swap EXCEPT !.step = "prune"]
      /\ UNCHANGED <<owner_marker, saved, layoutSession, remote, pending, edits>>
      /\ leaving' \in {leaving, NoAccount} /\ reader' \in {reader, "idle"}
      /\ scan' \in {scan, NoScan}
  BY DEF MergeFolders, PruneFolders, Abandoned
<1>5. ScanSound'
  <2>1. CASE swap' = NoSwap
    BY <1>4, <2>1, NoValue DEF LayoutInv, ScanSound
  <2>2. CASE MergeFolders
    BY <2>2 DEF MergeFolders, LayoutInv, LayoutTypeOK, ScanSound
  <2> QED BY <2>1, <2>2 DEF PruneFolders, Abandoned
<1>6. edits' \in 0..MaxEdits
  BY <1>4 DEF LayoutInv, LayoutTypeOK
<1> QED BY <1>3, <1>4, <1>5, <1>6, TablesChange

\* Commands on the tables.
LEMMA TableCommands ==
  ASSUME LayoutInv,
         \/ \E c \in Channels : UpdateFolderOrder(c) \/ \E g \in GroupIds \cup {0} : AssignFolderToGroup(c, g)
         \/ \E g \in GroupIds : CreateGroup(g) \/ UpdateGroup(g) \/ DeleteGroup(g)
         \/ \E p \in pending : RecordFolder(p)
  PROVE  LayoutInv'
<1>0. /\ shared = [groups |-> shared.groups, rows |-> shared.rows]
      /\ DOMAIN shared.groups \subseteq GroupIds /\ DOMAIN shared.rows \subseteq Channels
  BY DEF LayoutInv, LayoutTypeOK, IsLayout
<1>1. ASSUME NEW t, TableCommand(t), IsLayout(t) PROVE LayoutInv'
  <2>1. /\ SetTables(t) /\ swap = NoSwap /\ swap' = swap
        /\ UNCHANGED <<owner_marker, saved, layoutSession, remote, leaving, reader, scan, pending>>
    BY <1>1 DEF TableCommand, ConnectionFree
  <2>2. edits' \in 0..MaxEdits
    BY <1>1, MaxEditsAssumption DEF TableCommand, Edit, LayoutInv, LayoutTypeOK
  <2>3. ScanSound'
    BY <2>1 DEF LayoutInv, ScanSound
  <2> QED BY <1>1, <2>1, <2>2, <2>3, NoValue, TablesChange
<1>2. ASSUME NEW c \in Channels, UpdateFolderOrder(c) PROVE LayoutInv'
  BY <1>0, <1>1, <1>2 DEF UpdateFolderOrder, IsLayout
<1>3. ASSUME NEW c \in Channels, NEW g, AssignFolderToGroup(c, g) PROVE LayoutInv'
  BY <1>0, <1>1, <1>3 DEF AssignFolderToGroup, IsLayout
<1>4. ASSUME NEW g \in GroupIds, CreateGroup(g) \/ UpdateGroup(g) PROVE LayoutInv'
  BY <1>0, <1>1, <1>4 DEF CreateGroup, UpdateGroup, IsLayout, Put
<1>5. ASSUME NEW g \in GroupIds, DeleteGroup(g) PROVE LayoutInv'
  BY <1>0, <1>1, <1>5 DEF DeleteGroup, IsLayout, DropFolder, Folders
<1>6. ASSUME NEW p \in pending, RecordFolder(p) PROVE LayoutInv'
  <2>1. p.channel \in Channels
    BY DEF LayoutInv, LayoutTypeOK
  <2> DEFINE rows == RowsAfter(p, shared.rows)
  <2>2. DOMAIN rows \subseteq Channels
    BY <1>0, <2>1 DEF RowsAfter, Put, DropFolder
  <2> HIDE DEF rows
  <2>3. PICK t : t = [shared EXCEPT !.rows = rows] /\ IsLayout(t)
    BY <2>2, RowsChange
  <2>4. /\ SetTables(t) /\ swap = NoSwap /\ swap' = swap /\ pending' \subseteq pending
        /\ UNCHANGED <<owner_marker, saved, layoutSession, remote, leaving, reader, scan, edits>>
    BY <1>6, <2>3 DEF RecordFolder, ConnectionFree, rows
  <2>5. ScanSound' /\ edits' \in 0..MaxEdits
    BY <2>4 DEF LayoutInv, LayoutTypeOK, ScanSound
  <2> QED BY <2>3, <2>4, <2>5, NoValue, TablesChange
<1> QED BY <1>2, <1>3, <1>4, <1>5, <1>6

(***************************************************************************)
(* No layout is lost or taken for another account's, for any number of     *)
(* accounts, folders and groups, wherever the process ends and whichever   *)
(* step of a swap fails (folder_layout.rs activate, deactivate).           *)
(***************************************************************************)
THEOREM LayoutInvariant == LayoutSpec => []LayoutInv
<1>1. LayoutInv /\ [LayoutNext]_layoutVars => LayoutInv'
  <2> SUFFICES ASSUME LayoutInv, [LayoutNext]_layoutVars PROVE LayoutInv'
    OBVIOUS
  <2>1. CASE UNCHANGED layoutVars
    BY <2>1 DEF layoutVars, LayoutInv, LayoutTypeOK, IsLayout, ScanSound, SwapSound, LayoutKept
  <2>2. CASE LayoutNext
    BY <2>2, SessionMoves, SwapsBegin, SwapMoves, SwapEnds, ScanWrites, TableCommands
       DEF LayoutNext, FolderCommands
  <2> QED BY <2>1, <2>2
<1> QED BY <1>1, LayoutStarts, PTL DEF LayoutSpec

-----------------------------------------------------------------------------
(***************************************************************************)
(* The vault, for any operations, key material and passphrases.            *)
(***************************************************************************)
(* No stored vault is the empty file: key material is a positive number.   *)
LEMMA EmptyIsNoVault == Empty \notin Contents
  BY VaultAssumption DEF VaultAssumption, Empty, Contents

(* There is a vault to begin with.                                         *)
LEMMA FirstVaultIsVault == FirstVault \in Contents
<1>1. \E v \in Contents : TRUE
  <2>1. PICK m \in Materials, p \in Passphrases : TRUE
    BY VaultAssumption DEF VaultAssumption
  <2>2. [mat |-> m, pass |-> p] \in Contents
    BY <2>1 DEF Contents
  <2> QED
    BY <2>2
<1> QED
  BY <1>1 DEF FirstVault

(* An operation that ended is of the type of operations.                   *)
LEMMA IdleIsOperation == IdleOperation \in Operation
  BY VaultAssumption DEF VaultAssumption, IdleOperation, Operation, NoRequest, Asked, Kinds, Stored, Empty, Committing, Writing

(* Marking an operation that is not in flight changes nothing.             *)
LEMMA IdleStaysIdle == [IdleOperation EXCEPT !.crossed = FALSE] = IdleOperation
<1>1. \A p \in Operation : p.crossed = FALSE => [p EXCEPT !.crossed = FALSE] = p
  BY DEF Operation
<1>2. IdleOperation.crossed = FALSE
  BY DEF IdleOperation
<1> QED
  BY <1>1, <1>2, IdleIsOperation

(***************************************************************************)
(* What a step means for an operation it does not move.                    *)
(***************************************************************************)

(* An operation that ended, and does not hold the mutex, is sound.         *)
LEMMA EndedOK ==
  ASSUME NEW o, vop'[o] = IdleOperation, holder' # o
  PROVE  OperationSound(o)'
  BY DEF OperationSound, IdleOperation, Committing, Writing

(* While the state of the vault stays as it is, tickets stay sound.        *)
LEMMA StillOK ==
  ASSUME NEW o, OperationSound(o), vop'[o] = vop[o], holder # o, holder' # o,
         crypto' = crypto, sessionsOpened' = sessionsOpened
  PROVE  OperationSound(o)'
<1>1. vop[o].pc \notin Committing
  BY DEF OperationSound
<1> QED
  BY <1>1 DEF OperationSound, TicketSound, RequestSound, PreparedSound, RequiresUnlocked

(* What marking the operations in flight leaves alone.                     *)
LEMMA CrossedFields ==
  ASSUME VaultTypeOK, NEW o \in Operations, OperationSound(o)
  PROVE  /\ Crossed(vop)[o] \in Operation
         /\ Crossed(vop)[o].pc = vop[o].pc /\ Crossed(vop)[o].ask = vop[o].ask
         /\ Crossed(vop)[o].rev = vop[o].rev /\ Crossed(vop)[o].session = vop[o].session
         /\ Crossed(vop)[o].mem = vop[o].mem /\ Crossed(vop)[o].seen = vop[o].seen
         /\ vop[o].pc = "idle" => Crossed(vop)[o] = IdleOperation
<1>1. vop[o] \in Operation
  BY DEF VaultTypeOK
<1>2. PICK b \in BOOLEAN : b = (vop[o].pc # "idle")
  OBVIOUS
<1>3. Crossed(vop)[o] = [vop[o] EXCEPT !.crossed = b]
  BY <1>2, Zenon DEF Crossed
<1>4. /\ [vop[o] EXCEPT !.crossed = b] \in Operation
      /\ [vop[o] EXCEPT !.crossed = b].pc = vop[o].pc /\ [vop[o] EXCEPT !.crossed = b].ask = vop[o].ask
      /\ [vop[o] EXCEPT !.crossed = b].rev = vop[o].rev /\ [vop[o] EXCEPT !.crossed = b].session = vop[o].session
      /\ [vop[o] EXCEPT !.crossed = b].mem = vop[o].mem /\ [vop[o] EXCEPT !.crossed = b].seen = vop[o].seen
  BY <1>1 DEF Operation
<1>5. ASSUME vop[o].pc = "idle" PROVE Crossed(vop)[o] = IdleOperation
  <2>1. vop[o] = IdleOperation
    BY <1>5 DEF OperationSound
  <2>2. b = FALSE
    BY <1>2, <1>5
  <2>3. [IdleOperation EXCEPT !.crossed = FALSE] = IdleOperation
    BY IdleStaysIdle
  <2> QED
    BY <1>3, <2>1, <2>2, <2>3
<1> QED
  BY <1>3, <1>4, <1>5

(* When a revision begins, every ticket is void, and an operation that was *)
(* in preparation, or waits to be published, is sound whatever it holds.   *)
LEMMA VoidOK ==
  ASSUME NEW o, VaultTypeOK, OperationSound(o), o \in Operations,
         vop'[o] = vop[o] \/ vop'[o] = Crossed(vop)[o],
         holder # o, holder' # o, crypto'.rev = crypto.rev + 1
  PROVE  OperationSound(o)'
<1>1. vop[o].pc \notin Committing
  BY DEF OperationSound
<1>2. crypto.rev \in Nat /\ vop[o].rev \in Nat
  BY DEF VaultTypeOK, Operation
<1>3. CASE vop[o].pc = "idle"
  <2>1. vop[o] = IdleOperation
    BY <1>3 DEF OperationSound
  <2>2. vop'[o] = IdleOperation
    BY <1>3, <2>1, CrossedFields
  <2> QED
    BY <2>2, EndedOK
<1>4. CASE vop[o].pc # "idle"
  <2>1. /\ vop'[o].pc = vop[o].pc /\ vop'[o].ask = vop[o].ask /\ vop'[o].rev = vop[o].rev
        /\ vop'[o].mem = vop[o].mem /\ vop'[o].seen = vop[o].seen
    BY CrossedFields
  <2>2. vop[o].rev < crypto'.rev
    BY <1>2, <1>4 DEF OperationSound, TicketSound
  <2>3. TicketSound(vop[o])'
    BY <2>1, <2>2, <1>2 DEF TicketSound
  <2>4. vop[o].pc = "prepare" => RequestSound(vop[o])'
    BY <2>1, <2>2, <1>2 DEF OperationSound, RequestSound, RequiresUnlocked
  <2>5. vop[o].pc # "prepare" => PreparedSound(vop[o])'
    BY <2>1, <2>2, <1>2, <1>4 DEF OperationSound, PreparedSound
  <2> QED
    BY <1>1, <1>4, <2>1, <2>3, <2>4, <2>5 DEF OperationSound
<1> QED
  BY <1>3, <1>4

(***************************************************************************)
(* One step of each kind keeps the invariant.                              *)
(***************************************************************************)

(* With the mutex free nobody is writing, and the file is that of memory.  *)
LEMMA FreeMutex ==
  ASSUME VaultInv, MutexFree
  PROVE  /\ \A o \in Operations : holder # o /\ vop[o].pc \notin Committing
         /\ ~crypto.locked => Readable(vaultDisk) = crypto.mem
<1>1. \A o \in Operations : holder # o
  BY VaultAssumption DEF VaultAssumption, MutexFree, NoOperation
<1> QED
  BY <1>1 DEF VaultInv, OperationSound, OpenVaultMatchesFile

(* Memory, sessions and file stay: one operation moves outside the mutex.  *)
LEMMA PrivateStep ==
  ASSUME VaultInv, NEW o \in Operations, NEW x \in Operation,
         vop' = [vop EXCEPT ![o] = x], holder # o,
         x.pc \notin Committing, OperationSound(o)',
         UNCHANGED <<vaultDisk, crypto, holder, sessionsOpened>>,
         archives' \subseteq Contents, bundles' \subseteq Materials, overdue' \in BOOLEAN
  PROVE  VaultInv'
<1>1. vop \in [Operations -> Operation]
  BY DEF VaultInv, VaultTypeOK
<1>2. VaultTypeOK'
  BY <1>1 DEF VaultInv, VaultTypeOK
<1>3. vop[o].pc \notin Committing
  BY DEF VaultInv, OperationSound
<1>4. OpenVaultMatchesFile'
  BY DEF VaultInv, OpenVaultMatchesFile, MutexFree, Readable, SessionKey
<1>5. (\A q \in Operations : vop'[q].pc # "cleanup") => (\A q \in Operations : vop[q].pc # "cleanup")
  BY <1>1, <1>3 DEF Committing
<1>6. KeysInMemory'
  BY <1>5 DEF VaultInv, KeysInMemory, Readable, SessionKey
<1>7. ASSUME NEW q \in Operations PROVE OperationSound(q)'
  <2>1. CASE q = o
    BY <2>1
  <2>2. CASE q # o /\ holder # q
    <3>1. vop'[q] = vop[q]
      BY <1>1, <2>2
    <3> QED
      BY <2>2, <3>1, StillOK DEF VaultInv
  <2>3. CASE holder = q
    <3>1. vop'[q] = vop[q]
      BY <1>1, <2>3
    <3> QED
      BY <2>3, <3>1 DEF VaultInv, OperationSound, TicketSound, RequestSound, PreparedSound, CommitSound, RequiresUnlocked
  <2> QED
    BY <2>1, <2>2, <2>3
<1> QED
  BY <1>2, <1>4, <1>6, <1>7 DEF VaultInv

(* An update of the state's fields by values of their types is a state.    *)
LEMMA StateUpdate ==
  ASSUME NEW C, NEW Sessions, NEW c \in [rev : Nat, mem : Stored, cur : C, sessions : Sessions, locked : BOOLEAN],
         NEW r \in Nat, NEW m \in Stored, NEW k \in C, NEW s \in Sessions, NEW l \in BOOLEAN,
         NEW d, d = [c EXCEPT !.rev = r, !.mem = m, !.cur = k, !.sessions = s, !.locked = l]
  PROVE  /\ d \in [rev : Nat, mem : Stored, cur : C, sessions : Sessions, locked : BOOLEAN]
         /\ d.rev = r /\ d.mem = m /\ d.cur = k /\ d.sessions = s /\ d.locked = l
  OBVIOUS

(* The vault is locked, and every operation in flight with it.             *)
LEMMA LockStep ==
  ASSUME VaultInv, MutexFree, LockInner, holder' = holder,
         NEW S \in SUBSET Operations,
         vop' = [o \in Operations |-> IF o \in S THEN IdleOperation ELSE Crossed(vop)[o]],
         UNCHANGED <<vaultDisk, archives, bundles, sessionsOpened>>
  PROVE  VaultInv'
<1>1. /\ crypto'.rev = crypto.rev + 1 /\ crypto'.locked = TRUE /\ crypto'.cur = 0
      /\ crypto'.sessions = {} /\ crypto'.mem = Empty
      /\ crypto' \in [rev : Nat, mem : Stored, cur : 0..MaxSession,
                      sessions : SUBSET [id : 1..MaxSession, mat : Materials], locked : BOOLEAN]
  <2>1. crypto \in [rev : Nat, mem : Stored, cur : 0..MaxSession,
                    sessions : SUBSET [id : 1..MaxSession, mat : Materials], locked : BOOLEAN]
    BY DEF VaultInv, VaultTypeOK
  <2>2. /\ 0 \in 0..MaxSession /\ Empty \in Stored /\ crypto.rev + 1 \in Nat
        /\ {} \in SUBSET [id : 1..MaxSession, mat : Materials]
    BY <2>1, VaultAssumption DEF VaultAssumption, Stored
  <2>3. crypto' = [crypto EXCEPT !.rev = crypto.rev + 1, !.mem = Empty, !.cur = 0,
                                !.sessions = {}, !.locked = TRUE]
    BY DEF LockInner
  <2> QED
    BY <2>1, <2>2, <2>3, StateUpdate
<1>2. \A o \in Operations : Crossed(vop)[o] \in Operation
  BY CrossedFields DEF VaultInv
<1>3. VaultTypeOK'
  BY <1>1, <1>2, IdleIsOperation DEF VaultInv, VaultTypeOK, LockInner
<1>4. OpenVaultMatchesFile' /\ KeysInMemory'
  <2>1. 0 <= sessionsOpened'
    BY VaultAssumption DEF VaultInv, VaultTypeOK, VaultAssumption
  <2> QED
    BY <1>1, <2>1 DEF OpenVaultMatchesFile, KeysInMemory
<1>5. ASSUME NEW o \in Operations PROVE OperationSound(o)'
  <2>1. holder # o /\ holder' # o
    BY FreeMutex
  <2>2. CASE o \in S
    BY <2>1, <2>2, EndedOK
  <2>3. CASE o \notin S
    <3>1. vop'[o] = Crossed(vop)[o]
      BY <2>3
    <3> QED
      BY <1>1, <2>1, <3>1, VoidOK DEF VaultInv
  <2> QED
    BY <2>2, <2>3
<1> QED
  BY <1>3, <1>4, <1>5 DEF VaultInv

(* The holder of the mutex takes a step of atomic_write that leaves the    *)
(* readable vault as it is, or puts the new one in its place.              *)
LEMMA WriteStep ==
  ASSUME VaultInv, NEW o \in Operations, NEW x \in Operation,
         vop' = [vop EXCEPT ![o] = x], holder = o, holder' = o, x.pc \in Committing,
         vop[o].pc # "cleanup",
         vaultDisk' \in [primary : Stored, backup : Stored, part : Stored],
         x.pc # "cleanup" => Readable(vaultDisk') = Readable(vaultDisk),
         OperationSound(o)',
         UNCHANGED <<archives, bundles, crypto, overdue, sessionsOpened>>
  PROVE  VaultInv'
<1>1. vop \in [Operations -> Operation]
  BY DEF VaultInv, VaultTypeOK
<1>2. VaultTypeOK'
  BY <1>1 DEF VaultInv, VaultTypeOK
<1>3. ~MutexFree'
  BY VaultAssumption DEF VaultAssumption, MutexFree, NoOperation
<1>4. \A q \in Operations : vop[q].pc # "cleanup"
  BY DEF VaultInv, OperationSound, Committing
<1>5. vop'[o].pc = x.pc
  BY <1>1
<1>6. KeysInMemory'
  BY <1>4, <1>5 DEF VaultInv, KeysInMemory, Readable, SessionKey
<1>7. ASSUME NEW q \in Operations, q # o PROVE OperationSound(q)'
  BY <1>1, <1>7, StillOK DEF VaultInv
<1> QED
  BY <1>2, <1>3, <1>6, <1>7 DEF VaultInv, OpenVaultMatchesFile

(***************************************************************************)
(* The actions.                                                            *)
(***************************************************************************)

(* Any way of giving an operation up outside the mutex.                    *)
LEMMA GivesUp ==
  ASSUME VaultInv, NEW o \in Operations, holder # o,
         vop' = [vop EXCEPT ![o] = IdleOperation],
         UNCHANGED <<vaultDisk, archives, crypto, holder, sessionsOpened>>,
         bundles' \subseteq Materials, overdue' \in BOOLEAN
  PROVE  VaultInv'
<1>1. vop'[o] = IdleOperation
  BY DEF VaultInv, VaultTypeOK
<1>2. OperationSound(o)'
  BY <1>1, EndedOK
<1>3. IdleOperation.pc \notin Committing /\ archives' \subseteq Contents
  BY DEF IdleOperation, Committing, Writing, VaultInv, VaultTypeOK
<1> QED
  BY <1>2, <1>3, IdleIsOperation, PrivateStep

Ticket(r, v, k, m) ==
  [IdleOperation EXCEPT !.pc = "prepare", !.ask = r, !.rev = v, !.session = k, !.mem = m]

(* What a new ticket holds.                                                *)
LEMMA NewTicket ==
  ASSUME NEW r \in Asked, NEW v \in Nat, NEW k \in 0..MaxSession, NEW m \in Stored, NEW x,
         x = Ticket(r, v, k, m)
  PROVE  /\ x \in Operation /\ x.pc = "prepare" /\ x.ask = r /\ x.rev = v
         /\ x.session = k /\ x.mem = m /\ ~x.crossed
<1>1. PICK p \in Operation : p = IdleOperation /\ p.crossed = FALSE
  BY IdleIsOperation DEF IdleOperation
<1>2. x = [p EXCEPT !.pc = "prepare", !.ask = r, !.rev = v, !.session = k, !.mem = m]
  BY <1>1 DEF Ticket
<1>3. p.crossed = FALSE
  BY <1>1
<1>4. x.crossed = p.crossed
  BY <1>2 DEF Operation
<1>5. /\ x \in Operation /\ x.pc = "prepare" /\ x.ask = r /\ x.rev = v
      /\ x.session = k /\ x.mem = m
  BY <1>2 DEF Operation
<1> QED
  BY <1>3, <1>4, <1>5

(* A ticket copies the present state.                                      *)
LEMMA TakesTicket == ASSUME VaultInv, NEW o \in Operations, TakeTicket(o) PROVE VaultInv'
<1>1. PICK r \in Requests :
        /\ RequiresUnlocked(r) => ~crypto.locked
        /\ vop' = [vop EXCEPT ![o] =
             [IdleOperation EXCEPT !.pc = "prepare", !.ask = r, !.rev = crypto.rev,
                                   !.session = crypto.cur, !.mem = crypto.mem]]
  BY DEF TakeTicket
<1>0. PICK x : x = Ticket(r, crypto.rev, crypto.cur, crypto.mem)
  OBVIOUS
<1>2. r \in Asked
  <2>1. bundles \subseteq Materials
    BY DEF VaultInv, VaultTypeOK
  <2> QED
    BY <2>1 DEF Requests, Asked
<1>3. crypto.rev \in Nat /\ crypto.cur \in 0..MaxSession /\ crypto.mem \in Stored
  BY DEF VaultInv, VaultTypeOK
<1>4. /\ x \in Operation /\ x.pc = "prepare" /\ x.ask = r /\ x.rev = crypto.rev
      /\ x.session = crypto.cur /\ x.mem = crypto.mem /\ ~x.crossed
  BY <1>0, <1>2, <1>3, NewTicket
<1>5. vop' = [vop EXCEPT ![o] = x] /\ vop'[o] = x
  BY <1>1, <1>0 DEF VaultInv, VaultTypeOK, Ticket
<1>6. holder # o
  BY FreeMutex DEF TakeTicket
<1>7. TicketSound(x)' /\ RequestSound(x)'
  <2>1. /\ r.kind \in {"create", "unlock", "change"} => r.pass # 0
        /\ r.kind = "change" => r.next # 0
        /\ r.kind = "import" => r.bundle # 0
    BY DEF Requests, RecoveryAsked
  <2>2. UNCHANGED <<crypto, sessionsOpened>> /\ sessionsOpened < MaxSession
    BY DEF TakeTicket
  <2>3. ~crypto.locked => crypto.mem \in Contents
    BY DEF VaultInv, KeysInMemory
  <2> QED
    BY <1>1, <1>3, <1>4, <2>1, <2>2, <2>3 DEF TicketSound, RequestSound, RequiresUnlocked
<1>8. x.pc \notin Committing
  BY <1>4 DEF Committing, Writing
<1>9. OperationSound(o)'
  BY <1>4, <1>5, <1>6, <1>7, <1>8 DEF OperationSound, TakeTicket
<1> QED
  BY <1>4, <1>5, <1>6, <1>8, <1>9, PrivateStep DEF TakeTicket, VaultInv, VaultTypeOK

(* What a preparation can make: a vault with keys and passphrase, of the   *)
(* file when it unlocks, with the same keys when the passphrase changes.   *)
LEMMA OutcomeSound ==
  ASSUME NEW p \in Operation, RequestSound(p), bundles \subseteq Materials,
         NEW file \in Stored, NEW v \in Outcomes(p.ask, p.mem, file)
  PROVE  /\ v \in Contents
         /\ p.ask.kind = "unlock" => v = file
         /\ p.ask.kind = "change" => v.mat = p.mem.mat
<1>1. /\ p.ask.kind \in Kinds /\ p.ask.pass \in Passphrases \cup {0} /\ p.ask.next \in Passphrases \cup {0}
      /\ p.ask.bundle \in Materials \cup {0} /\ p.mem \in Stored
  BY DEF Operation, Asked
<1>2. \A u \in Stored : u # Empty => u \in Contents
  BY DEF Stored
<1>3. \A k \in Materials, w \in Passphrases : [mat |-> k, pass |-> w] \in Contents
  BY DEF Contents
<1>4. CASE p.ask.kind = "create"
  <2>1. v \in PrepareCreate(p.ask, file)
    BY <1>4 DEF Outcomes
  <2>2. p.ask.pass \in Passphrases
    BY <1>1, <1>4 DEF RequestSound
  <2>3. PICK k \in Materials : v = [mat |-> k, pass |-> p.ask.pass]
    BY <2>1 DEF PrepareCreate
  <2> QED
    BY <1>3, <1>4, <2>2, <2>3
<1>5. CASE p.ask.kind = "unlock"
  BY <1>2, <1>5 DEF Outcomes, PrepareUnlock
<1>6. CASE p.ask.kind = "change"
  <2>1. v \in PrepareChange(p.ask, p.mem, file)
    BY <1>6 DEF Outcomes
  <2>2. PICK u \in PrepareUnlock(p.ask, file) : u.mat = p.mem.mat /\ v = [u EXCEPT !.pass = p.ask.next]
    BY <2>1 DEF PrepareChange
  <2>3. u \in Contents
    BY <1>2 DEF PrepareUnlock
  <2>4. p.ask.next \in Passphrases
    BY <1>1, <1>6 DEF RequestSound
  <2> QED
    BY <1>6, <2>2, <2>3, <2>4 DEF Contents
<1>7. CASE p.ask.kind = "import"
  <2>1. v \in PrepareImport(p.ask, p.mem, file)
    BY <1>7 DEF Outcomes
  <2> DEFINE w == IF p.ask.next # 0 THEN p.ask.next ELSE p.mem.pass
  <2>2. w # 0 /\ v = [mat |-> p.ask.bundle, pass |-> w]
    BY <2>1 DEF PrepareImport
  <2>3. p.mem.pass \in Passphrases \cup {0}
    BY <1>1 DEF Stored, Contents, Empty
  <2>4. w \in Passphrases
    BY <1>1, <2>2, <2>3
  <2>5. p.ask.bundle \in Materials
    BY <1>1, <1>7 DEF RequestSound
  <2> QED
    BY <1>3, <1>7, <2>2, <2>4, <2>5
<1>8. CASE p.ask.kind \in {"export", "verify"}
  BY <1>8 DEF Outcomes, RequestSound, RequiresUnlocked
<1> QED
  BY <1>1, <1>4, <1>5, <1>6, <1>7, <1>8 DEF Kinds

(* A prepared operation keeps its ticket and what it read.                 *)
LEMMA Prepares == ASSUME VaultInv, NEW o \in Operations, Prepare(o) PROVE VaultInv'
<1>1. vop \in [Operations -> Operation] /\ vop[o] \in Operation
  BY DEF VaultInv, VaultTypeOK
<1>2. PICK v \in Outcomes(vop[o].ask, vop[o].mem, Readable(vaultDisk)) :
        vop' = [vop EXCEPT ![o].pc = "publish", ![o].mem = v,
                  ![o].seen = <<vaultDisk.primary, vaultDisk.backup>>,
                  ![o].ask = [NoRequest EXCEPT !.kind = vop[o].ask.kind, !.next = vop[o].ask.next]]
  BY DEF Prepare
<1>3. PICK a : a = [NoRequest EXCEPT !.kind = vop[o].ask.kind, !.next = vop[o].ask.next]
  OBVIOUS
<1>4. PICK s : s = <<vaultDisk.primary, vaultDisk.backup>>
  OBVIOUS
<1>5. PICK x : x = [vop[o] EXCEPT !.pc = "publish", !.mem = v, !.seen = s, !.ask = a]
  OBVIOUS
<1>6. vop' = [vop EXCEPT ![o] = x] /\ vop'[o] = x
  BY <1>1, <1>2, <1>3, <1>4, <1>5
<1>7. a \in Asked /\ a.kind = vop[o].ask.kind
  <2>1. vop[o].ask.kind \in Kinds /\ vop[o].ask.next \in Passphrases \cup {0}
    BY <1>1 DEF Operation, Asked
  <2>2. NoRequest \in Asked
    BY DEF NoRequest, Asked, Kinds
  <2> QED
    BY <1>3, <2>1, <2>2 DEF Asked
<1>8. /\ s \in Stored \X Stored /\ s[1] = vaultDisk.primary /\ s[2] = vaultDisk.backup
      /\ Readable(vaultDisk) \in Stored
  BY <1>4 DEF VaultInv, VaultTypeOK, Readable
<1>9. RequestSound(vop[o]) /\ TicketSound(vop[o]) /\ bundles \subseteq Materials
  BY DEF Prepare, VaultInv, VaultTypeOK, OperationSound
<1>10. /\ v \in Contents
       /\ vop[o].ask.kind = "unlock" => v = Readable(vaultDisk)
       /\ vop[o].ask.kind = "change" => v.mat = vop[o].mem.mat
  BY <1>1, <1>8, <1>9, OutcomeSound
<1>11. v \in Stored
  BY <1>10 DEF Stored
<1>12. /\ x \in Operation /\ x.pc = "publish" /\ x.ask = a /\ x.rev = vop[o].rev /\ x.session = vop[o].session
       /\ x.mem = v /\ x.seen = s /\ x.crossed = vop[o].crossed
  BY <1>1, <1>5, <1>7, <1>8, <1>11 DEF Operation
<1>13. UNCHANGED <<vaultDisk, archives, bundles, crypto, overdue, holder, sessionsOpened>> /\ MutexFree
  BY DEF Prepare
<1>14. TicketSound(x)'
  <2>1. x.crossed => vop[o].crossed
    BY <1>12
  <2>2. x.rev = vop[o].rev /\ x.session = vop[o].session /\ x.ask.kind = vop[o].ask.kind
    BY <1>7, <1>12
  <2>3. x.ask.next = vop[o].ask.next
    BY <1>1, <1>3, <1>12 DEF NoRequest, Operation
  <2> QED
    BY <1>9, <1>13, <2>1, <2>2, <2>3 DEF TicketSound, RequiresUnlocked
<1>15. PreparedSound(x)'
  <2>1. x.rev = crypto.rev => vop[o].mem = crypto.mem
    BY <1>9, <1>12 DEF RequestSound
  <2> QED
    BY <1>7, <1>8, <1>10, <1>12, <1>13, <2>1 DEF PreparedSound, Readable
<1>16. holder # o /\ x.pc \notin Committing
  BY <1>12, <1>13, FreeMutex DEF Committing, Writing
<1>17. OperationSound(o)'
  BY <1>6, <1>12, <1>13, <1>14, <1>15, <1>16 DEF OperationSound
<1> QED
  BY <1>6, <1>12, <1>13, <1>16, <1>17, PrivateStep DEF VaultInv, VaultTypeOK

(* A replacement of the vault file begins with the new file beside it.     *)
LEMMA StartsCommit == ASSUME VaultInv, NEW o \in Operations, CommitStarts(o) PROVE VaultInv'
<1>1. vop \in [Operations -> Operation] /\ vop[o] \in Operation
  BY DEF VaultInv, VaultTypeOK
<1>2. /\ MutexFree /\ vop[o].pc = "publish" /\ TicketHolds(vop[o])
      /\ vop[o].ask.kind \in {"create", "change", "import"} /\ holder' = o
      /\ UNCHANGED <<bundles, crypto, overdue, sessionsOpened>>
  BY DEF CommitStarts, MayPublish
<1>3. PreparedSound(vop[o]) /\ TicketSound(vop[o]) /\ vop[o].rev = crypto.rev
  BY <1>2 DEF VaultInv, OperationSound, TicketHolds
<1>4. PICK x : x = [vop[o] EXCEPT !.pc = "dropBackup"]
  OBVIOUS
<1>5. /\ x \in Operation /\ x.pc = "dropBackup" /\ x.ask = vop[o].ask /\ x.rev = vop[o].rev
      /\ x.session = vop[o].session /\ x.mem = vop[o].mem /\ x.seen = vop[o].seen
      /\ x.crossed = vop[o].crossed
  BY <1>1, <1>4 DEF Operation, Committing, Writing
<1>6. vop' = [vop EXCEPT ![o] = x] /\ vop'[o] = x
  BY <1>1, <1>4 DEF CommitStarts
<1>7. vop[o].mem \in Stored /\ vop[o].mem \in Contents
  BY <1>3 DEF PreparedSound, Stored
<1>8. vaultDisk \in [primary : Stored, backup : Stored, part : Stored]
  BY DEF VaultInv, VaultTypeOK
<1>9. /\ vaultDisk' \in [primary : Stored, backup : Stored, part : Stored]
      /\ vaultDisk'.part = vop[o].mem /\ Readable(vaultDisk') = Readable(vaultDisk)
  <2>1. vaultDisk' = [vaultDisk EXCEPT !.part = vop[o].mem]
    BY DEF CommitStarts
  <2> QED
    BY <1>7, <1>8, <2>1 DEF Readable
<1>10. archives' \subseteq Contents
  <2>1. FileExists(vaultDisk) => Readable(vaultDisk) \in Contents
    BY <1>8 DEF FileExists, Readable, Stored
  <2> QED
    BY <2>1 DEF CommitStarts, VaultInv, VaultTypeOK
<1>11. VaultTypeOK'
  BY <1>2, <1>5, <1>6, <1>9, <1>10, <1>1 DEF VaultInv, VaultTypeOK
<1>12. OpenVaultMatchesFile'
  BY <1>2, VaultAssumption DEF VaultAssumption, OpenVaultMatchesFile, MutexFree, NoOperation
<1>13. KeysInMemory'
  BY <1>2, <1>9, FreeMutex DEF VaultInv, KeysInMemory, SessionKey
<1>14. OperationSound(o)'
  <2>1. (x.crossed => vop[o].crossed) /\ RequiresUnlocked(x.ask) = RequiresUnlocked(vop[o].ask)
    BY <1>5
  <2>2. TicketSound(x)'
    BY <1>2, <1>3, <1>5, <2>1 DEF TicketSound, RequiresUnlocked
  <2>3. PreparedSound(x)' /\ CommitSound(x)'
    BY <1>2, <1>3, <1>5, <1>9 DEF PreparedSound, CommitSound
  <2> QED
    BY <1>2, <1>5, <1>6, <2>2, <2>3 DEF OperationSound, Committing, Writing
<1>15. ASSUME NEW q \in Operations, q # o PROVE OperationSound(q)'
  <2>1. vop'[q] = vop[q] /\ holder # q
    BY <1>1, <1>2, <1>6, <1>15, FreeMutex
  <2> QED
    BY <1>2, <1>15, <2>1, StillOK DEF VaultInv
<1> QED
  BY <1>11, <1>12, <1>13, <1>14, <1>15 DEF VaultInv

(* Where the holder of the mutex is when it takes a step of atomic_write.  *)
LEMMA HolderStep ==
  ASSUME VaultInv, NEW o \in Operations, holder = o, NEW to \in Committing,
         vop' = [vop EXCEPT ![o].pc = to], vop[o].pc \in Writing,
         vaultDisk' \in [primary : Stored, backup : Stored, part : Stored],
         to # "cleanup" => Readable(vaultDisk') = Readable(vaultDisk) /\ vaultDisk'.part = vaultDisk.part,
         to = "cleanup" => vaultDisk'.primary = vaultDisk.part,
         UNCHANGED <<archives, bundles, crypto, overdue, holder, sessionsOpened>>
  PROVE  VaultInv'
<1>1. vop \in [Operations -> Operation] /\ vop[o] \in Operation
  BY DEF VaultInv, VaultTypeOK
<1>2. PICK x : x = [vop[o] EXCEPT !.pc = to]
  OBVIOUS
<1>3. /\ x \in Operation /\ x.pc = to /\ x.ask = vop[o].ask /\ x.rev = vop[o].rev
      /\ x.session = vop[o].session /\ x.mem = vop[o].mem /\ x.seen = vop[o].seen
      /\ x.crossed = vop[o].crossed
  BY <1>1, <1>2 DEF Operation
<1>4. vop' = [vop EXCEPT ![o] = x] /\ vop'[o] = x
  BY <1>1, <1>2
<1>5. TicketSound(vop[o]) /\ PreparedSound(vop[o]) /\ CommitSound(vop[o])
  BY DEF VaultInv, OperationSound, Committing, Writing
<1>6. (x.crossed => vop[o].crossed) /\ vop[o].pc # "cleanup"
  BY <1>3 DEF Writing
<1>7. TicketSound(x)'
  BY <1>3, <1>5, <1>6 DEF TicketSound, RequiresUnlocked
<1>8. PreparedSound(x)' /\ CommitSound(x)'
  BY <1>3, <1>5 DEF PreparedSound, CommitSound, Committing, Writing
<1>9. OperationSound(o)'
  BY <1>3, <1>4, <1>7, <1>8 DEF OperationSound, Committing, Writing
<1> QED
  BY <1>3, <1>4, <1>6, <1>9, WriteStep

(* The three renames of atomic_write.                                      *)
LEMMA DropsBackup == ASSUME VaultInv, NEW o \in Operations, DropBackup(o) PROVE VaultInv'
<1>1. vaultDisk \in [primary : Stored, backup : Stored, part : Stored] /\ Empty \in Stored
  BY DEF VaultInv, VaultTypeOK, Stored
<1>2. /\ vaultDisk' \in [primary : Stored, backup : Stored, part : Stored]
      /\ Readable(vaultDisk') = Readable(vaultDisk) /\ vaultDisk'.part = vaultDisk.part
  BY <1>1 DEF DropBackup, Readable
<1>3. holder = o /\ vop[o].pc \in Writing /\ "setAside" \in Committing
  BY DEF DropBackup, Writing, Committing
<1> QED
  BY <1>2, <1>3, HolderStep DEF DropBackup

LEMMA SetsAside == ASSUME VaultInv, NEW o \in Operations, SetAside(o) PROVE VaultInv'
<1>1. vaultDisk \in [primary : Stored, backup : Stored, part : Stored] /\ Empty \in Stored
  BY DEF VaultInv, VaultTypeOK, Stored
<1>2. /\ vaultDisk' \in [primary : Stored, backup : Stored, part : Stored]
      /\ Readable(vaultDisk') = Readable(vaultDisk) /\ vaultDisk'.part = vaultDisk.part
  BY <1>1 DEF SetAside, Readable
<1>3. holder = o /\ vop[o].pc \in Writing /\ "replace" \in Committing
  BY DEF SetAside, Writing, Committing
<1> QED
  BY <1>2, <1>3, HolderStep DEF SetAside

LEMMA Replaces == ASSUME VaultInv, NEW o \in Operations, Replace(o) PROVE VaultInv'
<1>1. vaultDisk \in [primary : Stored, backup : Stored, part : Stored] /\ Empty \in Stored
  BY DEF VaultInv, VaultTypeOK, Stored
<1>2. /\ vaultDisk' \in [primary : Stored, backup : Stored, part : Stored]
      /\ vaultDisk'.primary = vaultDisk.part
  BY <1>1 DEF Replace
<1>3. holder = o /\ vop[o].pc \in Writing /\ "cleanup" \in Committing
  BY DEF Replace, Writing, Committing
<1> QED
  BY <1>2, <1>3, HolderStep DEF Replace

(* A replacement that fails puts the old file back and frees the mutex.    *)
LEMMA FailsCommit == ASSUME VaultInv, NEW o \in Operations, CommitFails(o) PROVE VaultInv'
<1>1. vop \in [Operations -> Operation]
  BY DEF VaultInv, VaultTypeOK
<1>2. /\ holder = o /\ vop[o].pc # "cleanup" /\ holder' = NoOperation
      /\ vop' = [vop EXCEPT ![o] = IdleOperation]
      /\ UNCHANGED <<archives, bundles, crypto, overdue, sessionsOpened>>
  BY DEF CommitFails
<1>3. vaultDisk \in [primary : Stored, backup : Stored, part : Stored] /\ Empty \in Stored
  BY DEF VaultInv, VaultTypeOK, Stored
<1>4. /\ vaultDisk' \in [primary : Stored, backup : Stored, part : Stored]
      /\ Readable(vaultDisk') = Readable(vaultDisk)
  BY <1>3 DEF CommitFails, Readable
<1>5. VaultTypeOK'
  BY <1>1, <1>2, <1>4, IdleIsOperation DEF VaultInv, VaultTypeOK
<1>6. \A q \in Operations : vop[q].pc # "cleanup"
  BY <1>2 DEF VaultInv, OperationSound, Committing
<1>7. KeysInMemory'
  BY <1>2, <1>4, <1>6 DEF VaultInv, KeysInMemory, SessionKey
<1>8. OpenVaultMatchesFile'
  BY <1>2, <1>4, <1>6, EmptyIsNoVault DEF VaultInv, KeysInMemory, OpenVaultMatchesFile, SessionKey
<1>9. ASSUME NEW q \in Operations PROVE OperationSound(q)'
  <2>1. holder' # q
    BY <1>2, VaultAssumption DEF VaultAssumption, NoOperation
  <2>2. CASE q = o
    BY <1>1, <1>2, <2>1, <2>2, EndedOK
  <2>3. CASE q # o
    <3>1. vop'[q] = vop[q] /\ holder # q
      BY <1>1, <1>2, <2>3
    <3> QED
      BY <1>2, <2>1, <3>1, StillOK DEF VaultInv
  <2> QED
    BY <2>2, <2>3
<1> QED
  BY <1>5, <1>7, <1>8, <1>9 DEF VaultInv

(* The operation is published: memory becomes what the file on disk holds. *)
LEMMA Publishes ==
  ASSUME VaultInv, NEW o \in Operations, Published(o),
         vop[o].pc \in {"publish", "cleanup"}, vop[o].rev = crypto.rev,
         \A q \in Operations : q # o => holder # q,
         vaultDisk' \in [primary : Stored, backup : Stored, part : Stored],
         Readable(vaultDisk') = vop[o].mem, UNCHANGED <<archives, bundles>>
  PROVE  VaultInv'
<1>1. vop \in [Operations -> Operation] /\ vop[o] \in Operation
  BY DEF VaultInv, VaultTypeOK
<1>2. PreparedSound(vop[o]) /\ TicketSound(vop[o])
  BY DEF VaultInv, OperationSound
<1>3. vop[o].mem \in Contents /\ vop[o].mem \in Stored /\ vop[o].mem # Empty /\ vop[o].mem.mat \in Materials
  BY <1>2, EmptyIsNoVault DEF PreparedSound, Stored, Contents
<1> DEFINE Sessions == SUBSET [id : 1..MaxSession, mat : Materials]
<1>4. crypto \in [rev : Nat, mem : Stored, cur : 0..MaxSession, sessions : Sessions, locked : BOOLEAN]
  BY DEF VaultInv, VaultTypeOK, Sessions
<1> HIDE DEF Sessions
<1>5. sessionsOpened \in 0..MaxSession /\ MaxSession \in Nat
  BY VaultAssumption DEF VaultInv, VaultTypeOK, VaultAssumption
<1>6. /\ overdue' = FALSE /\ holder' = NoOperation /\ vop' = [vop EXCEPT ![o] = IdleOperation]
  BY DEF Published
<1>7. /\ crypto' \in [rev : Nat, mem : Stored, cur : 0..MaxSession, sessions : Sessions, locked : BOOLEAN]
      /\ sessionsOpened' \in 0..MaxSession
      /\ crypto'.rev = crypto.rev + 1 /\ crypto'.mem = vop[o].mem /\ ~crypto'.locked /\ crypto'.cur # 0
      /\ crypto'.cur <= sessionsOpened' /\ \A x \in crypto'.sessions : x.id <= sessionsOpened'
      /\ SessionKey(crypto.cur)' = {vop[o].mem.mat}
  <2>1. CASE vop[o].ask.kind = "change"
    <3>1. crypto' = [crypto EXCEPT !.mem = vop[o].mem, !.rev = crypto.rev + 1] /\ sessionsOpened' = sessionsOpened
      BY <2>1 DEF Published
    <3>2. /\ crypto' \in [rev : Nat, mem : Stored, cur : 0..MaxSession, sessions : Sessions, locked : BOOLEAN]
          /\ crypto'.rev = crypto.rev + 1 /\ crypto'.mem = vop[o].mem /\ crypto'.cur = crypto.cur
          /\ crypto'.sessions = crypto.sessions
      <4>1. crypto.rev + 1 \in Nat
        BY <1>4
      <4> QED
        BY <1>3, <1>4, <3>1, <4>1
    <3>3. crypto'.locked <=> crypto.locked
      BY <1>4, <3>1
    <3>4. ~crypto.locked
      BY <1>2, <2>1 DEF TicketSound, RequiresUnlocked
    <3>5. crypto.cur # 0
      BY <3>4 DEF VaultInv, VaultTypeOK
    <3>6. SessionKey(crypto.cur) = {vop[o].mem.mat}
      BY <1>2, <2>1, <3>4 DEF VaultInv, KeysInMemory, PreparedSound
    <3>7. SessionKey(crypto.cur)' = {vop[o].mem.mat}
      BY <3>2, <3>6 DEF SessionKey
    <3>8. crypto.cur <= sessionsOpened /\ \A x \in crypto.sessions : x.id <= sessionsOpened
      BY DEF VaultInv, KeysInMemory
    <3> QED
      BY <1>5, <3>1, <3>2, <3>3, <3>4, <3>5, <3>7, <3>8
  <2>2. CASE vop[o].ask.kind # "change"
    <3>1. PICK id : id = sessionsOpened + 1
      OBVIOUS
    <3>2. PICK s : s = (IF vop[o].ask.kind = "import" THEN {} ELSE crypto.sessions)
                          \cup {[id |-> id, mat |-> vop[o].mem.mat]}
      OBVIOUS
    <3>3. /\ sessionsOpened' = id
          /\ crypto' = [crypto EXCEPT !.rev = crypto.rev + 1, !.mem = vop[o].mem, !.locked = FALSE,
                                      !.cur = id, !.sessions = s]
      BY <2>2, <3>1, <3>2 DEF Published, Opened
    <3>4. id \in 1..MaxSession
      BY <1>2, <1>5, <3>1 DEF TicketSound
    <3>5. \A x \in crypto.sessions : x.id <= sessionsOpened
      BY DEF VaultInv, KeysInMemory
    <3>6. s \in Sessions
      <4>1. [id |-> id, mat |-> vop[o].mem.mat] \in [id : 1..MaxSession, mat : Materials]
        BY <1>3, <3>4
      <4> QED
        BY <1>4, <3>2, <4>1 DEF Sessions
    <3>7. /\ crypto' \in [rev : Nat, mem : Stored, cur : 0..MaxSession, sessions : Sessions, locked : BOOLEAN]
          /\ crypto'.rev = crypto.rev + 1 /\ crypto'.mem = vop[o].mem /\ crypto'.cur = id
          /\ crypto'.sessions = s
      <4>1. crypto.rev + 1 \in Nat /\ id \in 0..MaxSession
        BY <1>4, <3>4
      <4> QED
        BY <1>3, <1>4, <3>3, <3>6, <4>1, StateUpdate
    <3>8. ~crypto'.locked
      BY <1>4, <3>3
    <3>9. {y \in s : y.id = id} = {[id |-> id, mat |-> vop[o].mem.mat]}
      BY <1>4, <1>5, <3>1, <3>2, <3>5 DEF Sessions
    <3>10. SessionKey(crypto.cur)' = {vop[o].mem.mat}
      <4>1. SessionKey(crypto.cur)' = {x.mat : x \in {y \in s : y.id = id}}
        BY <3>7 DEF SessionKey
      <4>2. [id |-> id, mat |-> vop[o].mem.mat].mat = vop[o].mem.mat
        OBVIOUS
      <4> QED
        BY <3>9, <4>1, <4>2
    <3>11. \A x \in s : x.id <= id
      BY <1>4, <1>5, <3>1, <3>2, <3>5 DEF Sessions
    <3> QED
      BY <3>3, <3>4, <3>7, <3>8, <3>10, <3>11
  <2> QED
    BY <2>1, <2>2
<1>8. VaultTypeOK'
  BY <1>1, <1>6, <1>7, IdleIsOperation DEF Sessions, VaultInv, VaultTypeOK
<1>9. OpenVaultMatchesFile' /\ KeysInMemory'
  BY <1>3, <1>7 DEF OpenVaultMatchesFile, KeysInMemory
<1>10. ASSUME NEW q \in Operations PROVE OperationSound(q)'
  <2>1. holder' # q
    BY <1>6, VaultAssumption DEF VaultAssumption, NoOperation
  <2>2. CASE q = o
    BY <1>1, <1>6, <2>1, <2>2, EndedOK
  <2>3. CASE q # o
    <3>1. vop'[q] = vop[q] /\ holder # q
      BY <1>1, <1>6, <2>3
    <3> QED
      BY <1>7, <2>1, <3>1, VoidOK DEF VaultInv
  <2> QED
    BY <2>2, <2>3
<1> QED
  BY <1>8, <1>9, <1>10 DEF VaultInv

LEMMA UnlockPublishes == ASSUME VaultInv, NEW o \in Operations, PublishUnlock(o) PROVE VaultInv'
<1>1. /\ MutexFree /\ vop[o].pc = "publish" /\ vop[o].ask.kind = "unlock" /\ vop[o].rev = crypto.rev
      /\ vop[o].seen = <<vaultDisk.primary, vaultDisk.backup>> /\ Published(o)
      /\ UNCHANGED <<vaultDisk, archives, bundles>>
  BY DEF PublishUnlock, MayPublish, TicketHolds, FilesUnchanged
<1>2. PreparedSound(vop[o])
  BY <1>1 DEF VaultInv, OperationSound
<1>3. Readable(vaultDisk') = vop[o].mem
  BY <1>1, <1>2 DEF PreparedSound, Readable
<1>4. vaultDisk' \in [primary : Stored, backup : Stored, part : Stored]
  BY <1>1 DEF VaultInv, VaultTypeOK
<1> QED
  BY <1>1, <1>3, <1>4, FreeMutex, Publishes

LEMMA CleansUp == ASSUME VaultInv, NEW o \in Operations, Cleanup(o) PROVE VaultInv'
<1>1. /\ holder = o /\ vop[o].pc = "cleanup" /\ Published(o) /\ UNCHANGED <<archives, bundles>>
  BY DEF Cleanup
<1>2. PreparedSound(vop[o]) /\ CommitSound(vop[o])
  BY <1>1 DEF VaultInv, OperationSound, Committing
<1>3. vaultDisk \in [primary : Stored, backup : Stored, part : Stored] /\ Empty \in Stored
  BY DEF VaultInv, VaultTypeOK, Stored
<1>4. vop[o].mem # Empty /\ vop[o].mem = vaultDisk.primary /\ vop[o].rev = crypto.rev
  BY <1>1, <1>2, EmptyIsNoVault DEF PreparedSound, CommitSound
<1>5. /\ vaultDisk' \in [primary : Stored, backup : Stored, part : Stored]
      /\ Readable(vaultDisk') = vop[o].mem
  BY <1>3, <1>4 DEF Cleanup, Readable
<1> QED
  BY <1>1, <1>4, <1>5, Publishes

(* Whoever locks the vault.                                                *)
LEMMA Locks ==
  ASSUME VaultInv, LockVault \/ LockOverdue \/ \E o \in Operations : PublishTooLate(o)
  PROVE  VaultInv'
<1>1. Crossed(vop) = [o \in Operations |-> Crossed(vop)[o]]
  BY DEF Crossed
<1>2. CASE LockVault \/ LockOverdue
  <2>1. vop' = [o \in Operations |-> IF o \in {} THEN IdleOperation ELSE Crossed(vop)[o]]
    BY <1>1, <1>2, Zenon DEF LockVault, LockOverdue
  <2>2. {} \in SUBSET Operations
    OBVIOUS
  <2> QED
    BY <1>2, <2>1, <2>2, LockStep DEF LockVault, LockOverdue
<1>3. CASE \E o \in Operations : PublishTooLate(o)
  <2>1. PICK o \in Operations : PublishTooLate(o)
    BY <1>3
  <2>2. PICK c : c = Crossed(vop)
    OBVIOUS
  <2>3. c = [q \in Operations |-> c[q]] /\ vop' = [c EXCEPT ![o] = IdleOperation]
    BY <1>1, <2>1, <2>2 DEF PublishTooLate
  <2>4. vop' = [q \in Operations |-> IF q \in {o} THEN IdleOperation ELSE c[q]]
    BY <2>3
  <2>5. {o} \in SUBSET Operations
    OBVIOUS
  <2> QED
    BY <2>1, <2>2, <2>4, <2>5, LockStep DEF PublishTooLate, MayPublish
<1> QED
  BY <1>2, <1>3

LEMMA SetsFeatures == ASSUME VaultInv, SetFeatures PROVE VaultInv'
<1>1. /\ MutexFree /\ UNCHANGED <<vaultDisk, archives, bundles, overdue, vop, holder, sessionsOpened>>
      /\ crypto' = [crypto EXCEPT !.rev = @ + 1]
  BY DEF SetFeatures
<1> DEFINE Sessions == SUBSET [id : 1..MaxSession, mat : Materials]
<1>2. crypto \in [rev : Nat, mem : Stored, cur : 0..MaxSession, sessions : Sessions, locked : BOOLEAN]
  BY DEF VaultInv, VaultTypeOK
<1> HIDE DEF Sessions
<1>3. /\ crypto' \in [rev : Nat, mem : Stored, cur : 0..MaxSession, sessions : Sessions, locked : BOOLEAN]
      /\ crypto'.rev = crypto.rev + 1 /\ crypto'.mem = crypto.mem /\ crypto'.cur = crypto.cur
      /\ crypto'.sessions = crypto.sessions
  <2>1. crypto.rev + 1 \in Nat
    BY <1>2
  <2> QED
    BY <1>1, <1>2, <2>1
<1>4. crypto'.locked <=> crypto.locked
  BY <1>1, <1>2
<1>5. VaultTypeOK'
  BY <1>1, <1>3, <1>4 DEF VaultInv, VaultTypeOK, Sessions
<1>6. OpenVaultMatchesFile' /\ KeysInMemory'
  BY <1>1, <1>3, <1>4 DEF VaultInv, OpenVaultMatchesFile, KeysInMemory, SessionKey, MutexFree
<1>7. \A o \in Operations : OperationSound(o)'
  BY <1>1, <1>3, FreeMutex, VoidOK DEF VaultInv
<1> QED
  BY <1>5, <1>6, <1>7 DEF VaultInv

(* Of the vault only the files outlive the process.                        *)
LEMMA Crashes == ASSUME VaultInv, VaultCrash PROVE VaultInv'
<1>1. /\ holder' = NoOperation /\ vop' = [o \in Operations |-> IdleOperation] /\ overdue' = FALSE
      /\ UNCHANGED <<vaultDisk, archives, bundles, sessionsOpened>>
  BY DEF VaultCrash
<1>2. crypto' = [rev |-> crypto.rev + 1, mem |-> Empty, cur |-> 0, sessions |-> {}, locked |-> TRUE]
  BY DEF VaultCrash
<1>3. crypto.rev + 1 \in Nat /\ Empty \in Stored /\ 0 \in 0..MaxSession /\ 0 <= sessionsOpened
  BY VaultAssumption DEF VaultAssumption, VaultInv, VaultTypeOK, Stored
<1>4. VaultTypeOK'
  BY <1>1, <1>2, <1>3, IdleIsOperation DEF VaultInv, VaultTypeOK
<1>5. OpenVaultMatchesFile' /\ KeysInMemory'
  BY <1>1, <1>2, <1>3 DEF OpenVaultMatchesFile, KeysInMemory
<1>6. ASSUME NEW o \in Operations PROVE OperationSound(o)'
  BY <1>1, EndedOK, VaultAssumption DEF VaultAssumption, NoOperation
<1> QED
  BY <1>4, <1>5, <1>6 DEF VaultInv

LEMMA DeadlineComes == ASSUME VaultInv, DeadlinePasses PROVE VaultInv'
<1>1. /\ UNCHANGED <<vaultDisk, archives, bundles, crypto, vop, holder, sessionsOpened>> /\ overdue' = TRUE
  BY DEF DeadlinePasses
<1> QED
  BY <1>1 DEF VaultInv, VaultTypeOK, OpenVaultMatchesFile, KeysInMemory, SessionKey, MutexFree,
       OperationSound, TicketSound, RequestSound, PreparedSound, CommitSound, RequiresUnlocked

(* An operation refused, or with nothing to write, only ends.              *)
LEMMA Refusals ==
  ASSUME VaultInv, NEW o \in Operations,
         PrepareFails(o) \/ VaultChanged(o) \/ PublishReadOnly(o) \/ FilesChanged(o)
  PROVE  VaultInv'
<1>1. holder # o
  <2>1. vop[o].pc \notin Committing
    BY DEF PrepareFails, VaultChanged, PublishReadOnly, FilesChanged, MayPublish, Committing, Writing
  <2> QED
    BY <2>1 DEF VaultInv, OperationSound
<1>2. /\ vop' = [vop EXCEPT ![o] = IdleOperation]
      /\ UNCHANGED <<vaultDisk, archives, crypto, holder, sessionsOpened>>
  BY DEF PrepareFails, VaultChanged, PublishReadOnly, FilesChanged
<1>3. bundles \subseteq Materials /\ overdue \in BOOLEAN
  BY DEF VaultInv, VaultTypeOK
<1>4. bundles' \subseteq Materials
  <2>1. CASE PublishReadOnly(o)
    <3>1. PreparedSound(vop[o])
      BY <2>1 DEF PublishReadOnly, MayPublish, VaultInv, OperationSound
    <3>2. RecoveryBundle(vop[o].mem) \in Materials
      BY <3>1 DEF PreparedSound, RecoveryBundle, Contents
    <3> QED
      BY <1>3, <2>1, <3>2 DEF PublishReadOnly
  <2>2. CASE ~PublishReadOnly(o)
    BY <1>3, <2>2 DEF PrepareFails, VaultChanged, FilesChanged
  <2> QED
    BY <2>1, <2>2
<1>5. overdue' \in BOOLEAN
  BY <1>3 DEF PrepareFails, VaultChanged, PublishReadOnly, FilesChanged
<1> QED
  BY <1>1, <1>2, <1>4, <1>5, GivesUp

(***************************************************************************)
(* The theorems.                                                           *)
(***************************************************************************)

LEMMA InvInit == VaultInit => VaultInv
<1> SUFFICES ASSUME VaultInit PROVE VaultInv
  OBVIOUS
<1>1. PICK v \in {Empty, FirstVault} : vaultDisk = [primary |-> v, backup |-> Empty, part |-> Empty]
  BY DEF VaultInit
<1>2. v \in Stored /\ Empty \in Stored
  BY FirstVaultIsVault DEF Stored
<1>3. /\ crypto = [rev |-> 0, mem |-> Empty, cur |-> 0, sessions |-> {}, locked |-> TRUE]
      /\ vop = [o \in Operations |-> IdleOperation] /\ holder = NoOperation /\ sessionsOpened = 0
      /\ overdue = FALSE /\ archives = {} /\ bundles \subseteq Materials
  BY DEF VaultInit
<1>4. 0 \in 0..MaxSession
  BY VaultAssumption DEF VaultAssumption
<1>5. VaultTypeOK
  BY <1>1, <1>2, <1>3, <1>4, IdleIsOperation DEF VaultTypeOK
<1>6. OpenVaultMatchesFile /\ KeysInMemory
  BY <1>3 DEF OpenVaultMatchesFile, KeysInMemory
<1>7. \A o \in Operations : OperationSound(o)
  BY <1>3, VaultAssumption DEF VaultAssumption, NoOperation, OperationSound, IdleOperation, Committing, Writing
<1> QED
  BY <1>5, <1>6, <1>7 DEF VaultInv

LEMMA InvStep == VaultInv /\ [VaultNext]_vaultVars => VaultInv'
<1> SUFFICES ASSUME VaultInv, [VaultNext]_vaultVars PROVE VaultInv'
  OBVIOUS
<1>1. ASSUME NEW o \in Operations, OperationStep(o) PROVE VaultInv'
  BY <1>1, TakesTicket, Prepares, Refusals, Locks, UnlockPublishes, StartsCommit, DropsBackup,
     SetsAside, Replaces, FailsCommit, CleansUp DEF OperationStep
<1>2. ASSUME UNCHANGED vaultVars PROVE VaultInv'
  BY <1>2 DEF vaultVars, VaultInv, VaultTypeOK, OpenVaultMatchesFile, KeysInMemory, SessionKey, MutexFree,
       OperationSound, TicketSound, RequestSound, PreparedSound, CommitSound, RequiresUnlocked
<1> QED
  BY <1>1, <1>2, Locks, DeadlineComes, SetsFeatures, Crashes DEF VaultNext

(***************************************************************************)
(* VaultInv: while the vault is open and nobody is writing, the file on    *)
(* disk holds the very keys that uploads encrypt with, whatever operations *)
(* were in preparation when (crypto/state.rs, crypto/preparation.rs).      *)
(***************************************************************************)
THEOREM VaultInvariant == VaultSpec => []VaultInv
<1>1. VaultInit => VaultInv
  BY InvInit
<1>2. VaultInv /\ [VaultNext]_vaultVars => VaultInv'
  BY InvStep
<1> QED
  BY <1>1, <1>2, PTL DEF VaultSpec

(* Only an operation whose ticket is of the present revision writes the    *)
(* file or opens a session.                                                *)
LEMMA WriterIsCurrent ==
  ASSUME VaultInv, [VaultNext]_vaultVars
  PROVE  \/ UNCHANGED <<vaultDisk, sessionsOpened>>
         \/ \E o \in Operations :
              /\ vop[o].pc # "idle" /\ vop[o].rev = crypto.rev
              /\ \A q \in Operations : q # o => vop'[q] = vop[q]
<1> SUFFICES ASSUME ~UNCHANGED <<vaultDisk, sessionsOpened>>
             PROVE  \E o \in Operations :
                       /\ vop[o].pc # "idle" /\ vop[o].rev = crypto.rev
                       /\ \A q \in Operations : q # o => vop'[q] = vop[q]
  OBVIOUS
<1>1. PICK o \in Operations : OperationStep(o)
  BY DEF VaultNext, vaultVars, LockVault, DeadlinePasses, LockOverdue, SetFeatures, VaultCrash
<1>2. \/ PublishUnlock(o) \/ CommitStarts(o) \/ DropBackup(o) \/ SetAside(o)
      \/ Replace(o) \/ CommitFails(o) \/ Cleanup(o)
  BY <1>1 DEF OperationStep, TakeTicket, Prepare, PrepareFails, VaultChanged, PublishTooLate,
       PublishReadOnly, FilesChanged
<1>3. vop \in [Operations -> Operation]
  BY DEF VaultInv, VaultTypeOK
<1>4. \A q \in Operations : q # o => vop'[q] = vop[q]
  BY <1>2, <1>3 DEF PublishUnlock, CommitStarts, DropBackup, SetAside, Replace, CommitFails, Cleanup, Published
<1>5. vop[o].pc # "idle" /\ vop[o].rev = crypto.rev
  <2>1. CASE PublishUnlock(o) \/ CommitStarts(o)
    BY <2>1 DEF PublishUnlock, CommitStarts, MayPublish, TicketHolds
  <2>2. CASE DropBackup(o) \/ SetAside(o) \/ Replace(o) \/ CommitFails(o) \/ Cleanup(o)
    <3>1. vop[o].pc \in Committing
      BY <2>2 DEF DropBackup, SetAside, Replace, CommitFails, Cleanup, Committing, Writing
    <3> QED
      BY <3>1 DEF VaultInv, OperationSound, CommitSound, Committing, Writing
  <2> QED
    BY <1>2, <2>1, <2>2
<1> QED
  BY <1>4, <1>5

(***************************************************************************)
(* LockWins: an operation that was in preparation when the vault was       *)
(* locked never opens it again and never writes its file (the revision in  *)
(* its ticket, crypto/state.rs).                                           *)
(***************************************************************************)
THEOREM LockingWins == VaultSpec => LockWins
<1> DEFINE A == \A o \in Operations :
                  (vop[o].crossed /\ vop'[o] # vop[o]) => UNCHANGED <<vaultDisk, sessionsOpened>>
<1>1. VaultInv /\ [VaultNext]_vaultVars => A
  <2> SUFFICES ASSUME VaultInv, [VaultNext]_vaultVars, NEW o \in Operations,
                      vop[o].crossed, vop'[o] # vop[o],
                      ~UNCHANGED <<vaultDisk, sessionsOpened>>
               PROVE  FALSE
    BY DEF A
  <2>1. PICK q \in Operations :
          /\ vop[q].pc # "idle" /\ vop[q].rev = crypto.rev
          /\ \A p \in Operations : p # q => vop'[p] = vop[p]
    BY WriterIsCurrent
  <2>2. q = o
    BY <2>1
  <2>3. vop[o].rev < crypto.rev
    BY <2>1, <2>2 DEF VaultInv, OperationSound, TicketSound
  <2>4. vop[o].rev \in Nat /\ crypto.rev \in Nat
    BY DEF VaultInv, VaultTypeOK, Operation
  <2> QED
    BY <2>1, <2>2, <2>3, <2>4
<1>2. VaultInv /\ [VaultNext]_vaultVars => [A]_vaultVars
  BY <1>1
<1> QED
  BY VaultInvariant, <1>2, PTL DEF VaultSpec, LockWins

(***************************************************************************)
(* VaultNeverLost: at whatever step of atomic_write the process ends, the  *)
(* readable vault is the old one or the one being written                  *)
(* (crypto/vault/file.rs).                                                 *)
(***************************************************************************)
LEMMA ReadableVault ==
  ASSUME NEW d PROVE FileExists(d) <=> Readable(d) # Empty
  BY DEF FileExists, Readable

THEOREM VaultKept == VaultSpec => VaultNeverLost
<1> DEFINE A == FileExists(vaultDisk) =>
                  /\ FileExists(vaultDisk')
                  /\ \/ Readable(vaultDisk') = Readable(vaultDisk)
                     \/ \E o \in Operations : holder = o /\ Readable(vaultDisk') = vop[o].mem
<1>1. VaultInv /\ [VaultNext]_vaultVars => A
  <2> SUFFICES ASSUME VaultInv, [VaultNext]_vaultVars
               PROVE  \/ Readable(vaultDisk') = Readable(vaultDisk)
                      \/ \E o \in Operations : /\ holder = o /\ Readable(vaultDisk') = vop[o].mem
                                               /\ vop[o].mem # Empty
    <3>1. FileExists(vaultDisk') <=> Readable(vaultDisk') # Empty
      BY ReadableVault
    <3>2. FileExists(vaultDisk) <=> Readable(vaultDisk) # Empty
      BY ReadableVault
    <3> QED
      BY <3>1, <3>2
  <2>1. vaultDisk \in [primary : Stored, backup : Stored, part : Stored]
    BY DEF VaultInv, VaultTypeOK
  <2>2. CASE UNCHANGED vaultDisk
    BY <2>2
  <2>3. CASE \E o \in Operations : CommitStarts(o) \/ DropBackup(o) \/ SetAside(o) \/ CommitFails(o)
    BY <2>1, <2>3 DEF CommitStarts, DropBackup, SetAside, CommitFails, Readable
  <2>4. CASE \E o \in Operations : Replace(o) \/ Cleanup(o)
    <3>1. PICK o \in Operations : Replace(o) \/ Cleanup(o)
      BY <2>4
    <3>2. holder = o /\ vop[o].pc \in {"replace", "cleanup"}
      BY <3>1 DEF Replace, Cleanup
    <3>3. CommitSound(vop[o]) /\ vop[o].mem # Empty
      BY <3>2, EmptyIsNoVault DEF VaultInv, OperationSound, PreparedSound, Committing, Writing
    <3>4. Readable(vaultDisk') = vop[o].mem
      BY <2>1, <3>1, <3>3 DEF Replace, Cleanup, CommitSound, Writing, Readable
    <3> QED
      BY <3>2, <3>3, <3>4
  <2> QED
    BY <2>2, <2>3, <2>4 DEF VaultNext, OperationStep, vaultVars, LockVault, DeadlinePasses, LockOverdue,
         SetFeatures, VaultCrash, TakeTicket, Prepare, PrepareFails, VaultChanged, PublishTooLate,
         PublishReadOnly, FilesChanged, PublishUnlock
<1>2. VaultInv /\ [VaultNext]_vaultVars => [A]_vaultVars
  BY <1>1
<1> QED
  BY VaultInvariant, <1>2, PTL DEF VaultSpec, VaultNeverLost

=============================================================================
