------------------------------- MODULE Vault -------------------------------
(***************************************************************************)
(* The encryption vault: CryptoState (crypto/state.rs), the two-phase      *)
(* operations of crypto/preparation.rs and the vault file of               *)
(* crypto/vault/file.rs.                                                   *)
(*                                                                         *)
(* An operation takes a ticket (revision, session, a copy of the vault)    *)
(* under the state's mutex, derives keys for seconds outside it, and then  *)
(* publishes under the mutex only if the ticket still holds.  Publication  *)
(* replaces the vault file in several steps of the file system; the        *)
(* process may end between any two of them.  Key material and passphrases  *)
(* are numbers; a file or an unlocked vault is the pair of the material    *)
(* and the passphrase that opens it.                                       *)
(***************************************************************************)
EXTENDS Naturals, FiniteSets

CONSTANTS Operations,   \* operations that may be in preparation at once
          Materials,    \* sets of keys: of this vault and of foreign bundles
          Passphrases,
          MaxRevision,  \* bound: state revisions begun by the user
          MaxSession    \* bound: sessions opened

ASSUME VaultAssumption ==
  /\ Materials \subseteq Nat \ {0} /\ Passphrases \subseteq Nat \ {0}
  /\ Materials # {} /\ Passphrases # {} /\ 0 \notin Operations
  /\ MaxRevision \in Nat /\ MaxSession \in Nat

VARIABLES
  vaultDisk,    \* the files vault, vault.vault.bak and vault.vault.part
  archives,     \* copies kept by imports that replaced a vault
  bundles,      \* materials of the recovery bundles the user has
  crypto,       \* CryptoStateInner
  overdue,      \* the inactivity deadline of the unlocked vault has passed
  vop,          \* the operations in preparation or publication
  holder,       \* the operation that holds the mutex while it commits
  sessionsOpened        \* sessions opened so far (ids are never reused)

vaultVars == <<vaultDisk, archives, bundles, crypto, overdue, vop, holder, sessionsOpened>>

Empty == [mat |-> 0, pass |-> 0]
Contents == [mat : Materials, pass : Passphrases]
FirstVault == CHOOSE v \in Contents : TRUE
NoOperation == 0
Kinds == {"create", "unlock", "change", "export", "verify", "import"}

NoRequest == [kind |-> "unlock", pass |-> 0, next |-> 0, bundle |-> 0,
              allow |-> FALSE, replace |-> FALSE]

IdleOperation ==
  [pc |-> "idle", ask |-> NoRequest, rev |-> 0, session |-> 0, mem |-> Empty,
   seen |-> <<Empty, Empty>>, crossed |-> FALSE]

VaultInit ==
  /\ \E v \in {Empty, FirstVault} :
       vaultDisk = [primary |-> v, backup |-> Empty, part |-> Empty]
  /\ bundles = Materials \ {FirstVault.mat}
  /\ archives = {}
  /\ crypto = [rev |-> 0, mem |-> Empty, cur |-> 0, sessions |-> {},
               locked |-> TRUE]
  /\ overdue = FALSE
  /\ vop = [o \in Operations |-> IdleOperation]
  /\ holder = NoOperation /\ sessionsOpened = 0

MutexFree == holder = NoOperation
FileExists(d) == d.primary # Empty \/ d.backup # Empty
Readable(d) == IF d.primary # Empty THEN d.primary ELSE d.backup

(***************************************************************************)
(* Locking.  Whoever locks, by hand, by deadline or by a late operation,   *)
(* ends every session (handles and staged passphrases: VaultSessions).     *)
(***************************************************************************)
LockInner ==
  /\ crypto' = [crypto EXCEPT !.rev = @ + 1, !.mem = Empty, !.cur = 0,
                              !.sessions = {}, !.locked = TRUE]
  /\ overdue' = FALSE

\* Ghost: the operations in flight when the vault was locked.
Crossed(ops) == [o \in Operations |-> [ops[o] EXCEPT !.crossed = ops[o].pc # "idle"]]

LockVault ==
  /\ MutexFree /\ crypto.rev < MaxRevision
  /\ LockInner
  /\ vop' = Crossed(vop)
  /\ UNCHANGED <<vaultDisk, archives, bundles, holder, sessionsOpened>>

\* The clock, while a timeout is set and the vault is open.
DeadlinePasses ==
  /\ ~crypto.locked /\ ~overdue
  /\ overdue' = TRUE
  /\ UNCHANGED <<vaultDisk, archives, bundles, crypto, vop, holder, sessionsOpened>>

SetFeatures ==
  /\ MutexFree /\ crypto.rev < MaxRevision
  /\ crypto' = [crypto EXCEPT !.rev = @ + 1]
  /\ UNCHANGED <<vaultDisk, archives, bundles, overdue, vop, holder, sessionsOpened>>

\* The supervisor (module VaultSessions) or the user's activity locks it.
LockOverdue ==
  /\ MutexFree /\ overdue
  /\ LockInner
  /\ vop' = Crossed(vop)
  /\ UNCHANGED <<vaultDisk, archives, bundles, holder, sessionsOpened>>

SessionKey(s) == {x.mat : x \in {y \in crypto.sessions : y.id = s}}

(***************************************************************************)
(* A vault operation: ticket, capture, preparation, publication.           *)
(***************************************************************************)
RequiresUnlocked(r) ==
  \/ r.kind \in {"change", "export", "verify"}
  \/ r.kind = "import" /\ r.next = 0

\* A bundle is named only to be imported or verified, and only an import may
\* replace a vault or drop keys the bundle lacks.
RecoveryAsked(r) ==
  /\ (r.bundle # 0) <=> r.kind \in {"import", "verify"}
  /\ (r.allow \/ r.replace) => r.kind = "import"

\* What the user may ask for; the passphrases typed may be wrong.
Requests ==
  {r \in [kind : Kinds, pass : Passphrases \cup {0}, next : Passphrases \cup {0},
          bundle : bundles \cup {0}, allow : BOOLEAN, replace : BOOLEAN] :
     /\ (r.pass # 0) <=> r.kind \in {"create", "unlock", "change"}
     /\ (r.next # 0) => r.kind \in {"change", "import"}
     /\ (r.kind = "change") => r.next # 0
     /\ RecoveryAsked(r)}

TakeTicket(o) ==
  /\ MutexFree /\ vop[o].pc = "idle"
  /\ crypto.rev < MaxRevision /\ sessionsOpened < MaxSession
  /\ \E r \in Requests :
       /\ RequiresUnlocked(r) => ~crypto.locked
       /\ vop' = [vop EXCEPT ![o] =
            [IdleOperation EXCEPT !.pc = "prepare", !.ask = r, !.rev = crypto.rev,
                                  !.session = crypto.cur, !.mem = crypto.mem]]
  /\ UNCHANGED <<vaultDisk, archives, bundles, crypto, overdue, holder, sessionsOpened>>

\* The vault the preparation of request r makes of the copy mem and of the
\* file it read; the empty set when it fails.
PrepareCreate(r, file) ==
  {[mat |-> k, pass |-> r.pass] :
     k \in IF file = Empty THEN Materials \ bundles ELSE {}}
PrepareUnlock(r, file) ==
  IF file # Empty /\ file.pass = r.pass THEN {file} ELSE {}
PrepareChange(r, mem, file) ==
  {[v EXCEPT !.pass = r.next] : v \in {u \in PrepareUnlock(r, file) : u.mat = mem.mat}}
PrepareImport(r, mem, file) ==
  LET complete == mem = Empty \/ r.allow \/ r.bundle = mem.mat
      pass == IF r.next # 0 THEN r.next ELSE mem.pass
  IN IF (file # Empty => r.replace) /\ complete /\ pass # 0
     THEN {[mat |-> r.bundle, pass |-> pass]} ELSE {}

Outcomes(r, mem, file) ==
  CASE r.kind = "create" -> PrepareCreate(r, file)
    [] r.kind = "unlock" -> PrepareUnlock(r, file)
    [] r.kind = "change" -> PrepareChange(r, mem, file)
    [] r.kind = "import" -> PrepareImport(r, mem, file)
    [] OTHER -> {mem}

\* Outside the mutex, between the commits of others: the files are read and
\* the keys derived.  What was typed is forgotten.
Prepare(o) ==
  /\ MutexFree /\ vop[o].pc = "prepare"
  /\ \E v \in Outcomes(vop[o].ask, vop[o].mem, Readable(vaultDisk)) :
       vop' = [vop EXCEPT ![o].pc = "publish", ![o].mem = v,
                 ![o].seen = <<vaultDisk.primary, vaultDisk.backup>>,
                 ![o].ask = [NoRequest EXCEPT !.kind = vop[o].ask.kind,
                                             !.next = vop[o].ask.next]]
  /\ UNCHANGED <<vaultDisk, archives, bundles, crypto, overdue, holder, sessionsOpened>>

\* A refused passphrase or bundle, or a failing worker.
PrepareFails(o) ==
  /\ vop[o].pc = "prepare"
  /\ vop' = [vop EXCEPT ![o] = IdleOperation]
  /\ UNCHANGED <<vaultDisk, archives, bundles, crypto, overdue, holder, sessionsOpened>>

\* The ticket compares sessions only.
TicketHoldsBySession(p) ==
  /\ crypto.cur = p.session
  /\ RequiresUnlocked(p.ask) => ~crypto.locked

TicketHolds(p) ==
  /\ crypto.rev = p.rev /\ crypto.cur = p.session
  /\ RequiresUnlocked(p.ask) => ~crypto.locked

FilesUnchanged(p) == p.seen = <<vaultDisk.primary, vaultDisk.backup>>

\* Publication refused: the state changed during the preparation.
VaultChanged(o) ==
  /\ MutexFree /\ vop[o].pc = "publish"
  /\ ~TicketHolds(vop[o])
  /\ vop' = [vop EXCEPT ![o] = IdleOperation]
  /\ UNCHANGED <<vaultDisk, archives, bundles, crypto, overdue, holder, sessionsOpened>>

\* Publication refused: the deadline passed during the preparation.
PublishTooLate(o) ==
  /\ MutexFree /\ vop[o].pc = "publish" /\ TicketHolds(vop[o])
  /\ RequiresUnlocked(vop[o].ask) /\ overdue
  /\ LockInner
  /\ vop' = [Crossed(vop) EXCEPT ![o] = IdleOperation]
  /\ UNCHANGED <<vaultDisk, archives, bundles, holder, sessionsOpened>>

MayPublish(o) ==
  /\ MutexFree /\ vop[o].pc = "publish" /\ TicketHolds(vop[o])
  /\ RequiresUnlocked(vop[o].ask) => ~overdue

\* A recovery bundle carries the keys and not the passphrase.
RecoveryBundle(v) == v.mat

\* Export and verification change nothing but the time of activity.
PublishReadOnly(o) ==
  /\ MayPublish(o) /\ vop[o].ask.kind \in {"export", "verify"}
  /\ bundles' = IF vop[o].ask.kind = "export" THEN bundles \cup {RecoveryBundle(vop[o].mem)} ELSE bundles
  /\ overdue' = FALSE
  /\ vop' = [vop EXCEPT ![o] = IdleOperation]
  /\ UNCHANGED <<vaultDisk, archives, crypto, holder, sessionsOpened>>

\* The files were replaced behind the operation: nothing is written.
FilesChanged(o) ==
  /\ MayPublish(o) /\ vop[o].ask.kind \notin {"export", "verify"}
  /\ ~FilesUnchanged(vop[o])
  /\ vop' = [vop EXCEPT ![o] = IdleOperation]
  /\ UNCHANGED <<vaultDisk, archives, bundles, crypto, overdue, holder, sessionsOpened>>

\* The new vault and a new session become the state's.
Opened(p) ==
  LET id == sessionsOpened + 1 IN
  /\ sessionsOpened' = id
  /\ crypto' = [crypto EXCEPT
       !.rev = @ + 1, !.mem = p.mem, !.locked = FALSE, !.cur = id,
       !.sessions = (IF p.ask.kind = "import" THEN {} ELSE @)
                       \cup {[id |-> id, mat |-> p.mem.mat]}]

Published(o) ==
  /\ \/ /\ vop[o].ask.kind = "change"
        /\ crypto' = [crypto EXCEPT !.mem = vop[o].mem, !.rev = @ + 1]
        /\ UNCHANGED sessionsOpened
     \/ /\ vop[o].ask.kind # "change"
        /\ Opened(vop[o])
  /\ overdue' = FALSE
  /\ holder' = NoOperation
  /\ vop' = [vop EXCEPT ![o] = IdleOperation]

\* Unlocking writes nothing.
PublishUnlock(o) ==
  /\ MayPublish(o) /\ vop[o].ask.kind = "unlock" /\ FilesUnchanged(vop[o])
  /\ Published(o)
  /\ UNCHANGED <<vaultDisk, archives, bundles>>

(***************************************************************************)
(* atomic_write, under the mutex; the process may end between its steps.   *)
(***************************************************************************)
CommitStarts(o) ==
  /\ MayPublish(o) /\ vop[o].ask.kind \in {"create", "change", "import"}
  /\ FilesUnchanged(vop[o])
  /\ archives' = IF vop[o].ask.kind = "import" /\ FileExists(vaultDisk)
                 THEN archives \cup {Readable(vaultDisk)} ELSE archives
  /\ vaultDisk' = [vaultDisk EXCEPT !.part = vop[o].mem]
  /\ holder' = o
  /\ vop' = [vop EXCEPT ![o].pc = "dropBackup"]
  /\ UNCHANGED <<bundles, crypto, overdue, sessionsOpened>>

DropBackup(o) ==
  /\ holder = o /\ vop[o].pc = "dropBackup"
  /\ vaultDisk' = IF vaultDisk.primary # Empty
                  THEN [vaultDisk EXCEPT !.backup = Empty] ELSE vaultDisk
  /\ vop' = [vop EXCEPT ![o].pc = "setAside"]
  /\ UNCHANGED <<archives, bundles, crypto, overdue, holder, sessionsOpened>>

\* The old file is deleted to make room for the new one.
SetAsideRemoves(o) ==
  /\ holder = o /\ vop[o].pc = "setAside"
  /\ vaultDisk' = [vaultDisk EXCEPT !.primary = Empty]
  /\ vop' = [vop EXCEPT ![o].pc = "replace"]
  /\ UNCHANGED <<archives, bundles, crypto, overdue, holder, sessionsOpened>>

SetAside(o) ==
  /\ holder = o /\ vop[o].pc = "setAside"
  /\ vaultDisk' = IF vaultDisk.primary # Empty
                  THEN [vaultDisk EXCEPT !.backup = vaultDisk.primary, !.primary = Empty]
                  ELSE vaultDisk
  /\ vop' = [vop EXCEPT ![o].pc = "replace"]
  /\ UNCHANGED <<archives, bundles, crypto, overdue, holder, sessionsOpened>>

Replace(o) ==
  /\ holder = o /\ vop[o].pc = "replace"
  /\ vaultDisk' = [vaultDisk EXCEPT !.primary = vaultDisk.part, !.part = Empty]
  /\ vop' = [vop EXCEPT ![o].pc = "cleanup"]
  /\ UNCHANGED <<archives, bundles, crypto, overdue, holder, sessionsOpened>>

\* A step before the replacing rename fails: the old file is put back.
CommitFails(o) ==
  /\ holder = o /\ vop[o].pc \in {"dropBackup", "setAside", "replace"}
  /\ vaultDisk' = IF vop[o].pc = "replace" /\ vaultDisk.backup # Empty /\ vaultDisk.primary = Empty
                  THEN [vaultDisk EXCEPT !.primary = vaultDisk.backup, !.backup = Empty]
                  ELSE vaultDisk
  /\ holder' = NoOperation
  /\ vop' = [vop EXCEPT ![o] = IdleOperation]
  /\ UNCHANGED <<archives, bundles, crypto, overdue, sessionsOpened>>

\* A cleanup failure reported as a failed write.
CleanupReported(o) ==
  /\ holder = o /\ vop[o].pc = "cleanup"
  /\ \/ /\ vaultDisk' = [vaultDisk EXCEPT !.backup = Empty]
        /\ Published(o)
        /\ UNCHANGED <<archives, bundles>>
     \/ /\ vaultDisk.backup # Empty
        /\ holder' = NoOperation /\ vop' = [vop EXCEPT ![o] = IdleOperation]
        /\ UNCHANGED <<vaultDisk, archives, bundles, crypto, overdue, sessionsOpened>>

\* After the rename the commit stands, whether or not the backup can go.
Cleanup(o) ==
  /\ holder = o /\ vop[o].pc = "cleanup"
  /\ \/ vaultDisk' = [vaultDisk EXCEPT !.backup = Empty]
     \/ UNCHANGED vaultDisk
  /\ Published(o)
  /\ UNCHANGED <<archives, bundles>>

\* The process ends; only the files and the user's bundles remain.
VaultCrash ==
  /\ crypto.rev < MaxRevision
  /\ crypto' = [rev |-> crypto.rev + 1, mem |-> Empty, cur |-> 0, sessions |-> {},
                locked |-> TRUE]
  /\ overdue' = FALSE
  /\ holder' = NoOperation
  /\ vop' = [o \in Operations |-> IdleOperation]
  /\ UNCHANGED <<vaultDisk, archives, bundles, sessionsOpened>>

OperationStep(o) ==
  \/ TakeTicket(o) \/ Prepare(o) \/ PrepareFails(o)
  \/ VaultChanged(o) \/ PublishTooLate(o) \/ PublishReadOnly(o) \/ FilesChanged(o)
  \/ PublishUnlock(o) \/ CommitStarts(o) \/ DropBackup(o) \/ SetAside(o)
  \/ Replace(o) \/ CommitFails(o) \/ Cleanup(o)

VaultNext ==
  \/ \E o \in Operations : OperationStep(o)
  \/ LockVault \/ DeadlinePasses \/ LockOverdue \/ SetFeatures \/ VaultCrash

VaultSpec == VaultInit /\ [][VaultNext]_vaultVars

-----------------------------------------------------------------------------
Asked ==
  [kind : Kinds, pass : Passphrases \cup {0}, next : Passphrases \cup {0},
   bundle : Materials \cup {0}, allow : BOOLEAN, replace : BOOLEAN]
Stored == Contents \cup {Empty}
Writing == {"dropBackup", "setAside", "replace"}
Committing == Writing \cup {"cleanup"}
Operation ==
  [pc : {"idle", "prepare", "publish"} \cup Committing, ask : Asked, rev : Nat,
   session : 0..MaxSession, mem : Stored, seen : Stored \X Stored, crossed : BOOLEAN]

VaultTypeOK ==
  /\ vaultDisk \in [primary : Stored, backup : Stored, part : Stored]
  /\ archives \subseteq Contents /\ bundles \subseteq Materials
  /\ crypto \in [rev : Nat, mem : Stored, cur : 0..MaxSession,
                 sessions : SUBSET [id : 1..MaxSession, mat : Materials], locked : BOOLEAN]
  /\ crypto.locked <=> crypto.cur = 0
  /\ overdue \in BOOLEAN
  /\ vop \in [Operations -> Operation]
  /\ holder \in Operations \cup {NoOperation}
  /\ sessionsOpened \in 0..MaxSession

(***************************************************************************)
(* The keys in memory are the keys of the file: while the vault is open    *)
(* and no commit is running, the file on disk is opened by the passphrase  *)
(* the user last set or typed, and yields the very keys that uploads       *)
(* encrypt with (run_vault_operation publishes memory and file together).  *)
(***************************************************************************)
OpenVaultMatchesFile ==
  (~crypto.locked /\ MutexFree) =>
    /\ Readable(vaultDisk) = crypto.mem
    /\ crypto.mem # Empty
    /\ SessionKey(crypto.cur) = {crypto.mem.mat}

(***************************************************************************)
(* Locking wins: an operation that was in preparation when the vault was   *)
(* locked never opens it again or writes its file, even when the vault was *)
(* opened and locked in between (the revision in the ticket).              *)
(***************************************************************************)
LockWins ==
  [][\A o \in Operations :
       (vop[o].crossed /\ vop'[o] # vop[o]) => UNCHANGED <<vaultDisk, sessionsOpened>>]_vaultVars

(***************************************************************************)
(* Replacing the vault never loses it: whatever step of atomic_write the   *)
(* process dies at, the vault that was readable stays readable, in the     *)
(* primary file or in the backup, until the new one is.                    *)
(***************************************************************************)
VaultNeverLost ==
  [][FileExists(vaultDisk) =>
       /\ FileExists(vaultDisk')
       /\ \/ Readable(vaultDisk') = Readable(vaultDisk)
          \/ \E o \in Operations : holder = o /\ Readable(vaultDisk') = vop[o].mem]_vaultVars

\* A session id is never reused, and the open vault's keys are its session's.
\* Until the new file is in place the readable one is still that of memory.
KeysInMemory ==
  /\ crypto.cur <= sessionsOpened /\ \A x \in crypto.sessions : x.id <= sessionsOpened
  /\ ~crypto.locked =>
       /\ crypto.mem \in Contents /\ SessionKey(crypto.cur) = {crypto.mem.mat}
       /\ (\A o \in Operations : vop[o].pc # "cleanup") => Readable(vaultDisk) = crypto.mem

\* What a ticket says of the state while no revision was begun since.
TicketSound(p) ==
  /\ p.rev <= crypto.rev
  /\ p.crossed => p.rev < crypto.rev
  /\ p.rev = crypto.rev =>
       /\ sessionsOpened < MaxSession
       /\ p.session = crypto.cur
       /\ RequiresUnlocked(p.ask) => ~crypto.locked

\* A request with the copy its ticket took.
RequestSound(p) ==
  /\ p.ask.kind \in {"create", "unlock", "change"} => p.ask.pass # 0
  /\ p.ask.kind = "change" => p.ask.next # 0
  /\ p.ask.kind = "import" => p.ask.bundle # 0
  /\ RequiresUnlocked(p.ask) => p.mem \in Contents
  /\ p.rev = crypto.rev => p.mem = crypto.mem

\* What a preparation made.
PreparedSound(p) ==
  /\ p.mem \in Contents
  /\ p.ask.kind = "unlock" => p.mem = IF p.seen[1] # Empty THEN p.seen[1] ELSE p.seen[2]
  /\ p.ask.kind = "change" /\ p.rev = crypto.rev => p.mem.mat = crypto.mem.mat

\* The operation that holds the mutex, and how far the file is.
CommitSound(p) ==
  /\ p.ask.kind \in {"create", "change", "import"} /\ p.rev = crypto.rev
  /\ p.pc \in Writing => vaultDisk.part = p.mem
  /\ p.pc = "cleanup" => vaultDisk.primary = p.mem

OperationSound(o) ==
  LET p == vop[o] IN
  /\ p.pc = "idle" => p = IdleOperation
  /\ p.pc # "idle" => TicketSound(p)
  /\ p.pc = "prepare" => RequestSound(p)
  /\ p.pc \notin {"idle", "prepare"} => PreparedSound(p)
  /\ holder = o <=> p.pc \in Committing
  /\ p.pc \in Committing => CommitSound(p)

(***************************************************************************)
(* The open vault and its file agree (OpenVaultMatchesFile), whatever      *)
(* operations were in preparation and wherever a replacement of the file   *)
(* stopped, because a ticket that still holds describes the present state. *)
(***************************************************************************)
VaultInv ==
  /\ VaultTypeOK /\ OpenVaultMatchesFile /\ KeysInMemory
  /\ \A o \in Operations : OperationSound(o)
=============================================================================
