--------------------------- MODULE VaultSessions ---------------------------
(***************************************************************************)
(* What an open vault grants, and how inactivity ends it: the sessions,    *)
(* operation handles and staged passphrases of CryptoState                 *)
(* (crypto/state.rs) and the supervisor of the auto-lock deadline.  How an *)
(* operation comes to open the vault is module Vault; here it opens at any *)
(* time.  Work that uses a key (an upload, a stream) takes a handle, asks  *)
(* for the key with it, and publishes under with_current_session.          *)
(***************************************************************************)
EXTENDS Naturals

CONSTANTS Workers,      \* transfers and streams that use the vault's keys
          MaxOpen       \* bound: sessions opened

ASSUME MaxOpenAssumption == MaxOpen \in Nat

VARIABLES
  session,      \* current_session, 0 while locked
  sessionKeys,  \* the sessions whose wrapping key is held
  sessionCount, \* sessions opened so far; ids are random and never repeat
  opHandle,     \* Worker -> the session its operation handle belongs to, or 0
  holdsKey,     \* Worker -> the session whose key it was given, or 0
  oldHandles,   \* history: workers whose handle is older than the last lock or opening
  oldKeys,      \* history: workers whose key is
  staleUse,     \* history: a key was given for such a handle, or something
                \* published with such a key
  promptSecret, \* a file passphrase is staged
  timeoutSet,   \* auto_lock_timeout is some duration
  idleTooLong,     \* last_activity + timeout has passed
  permit,       \* the stored permit of auto_lock_changed
  supervisor    \* where wait_until_auto_locked stands

sessionVars == <<session, sessionKeys, sessionCount, opHandle, holdsKey, oldHandles, oldKeys, staleUse,
                 promptSecret, timeoutSet, idleTooLong, permit, supervisor>>
grants == <<opHandle, holdsKey, promptSecret>>
sessionHistory == <<oldHandles, oldKeys, staleUse>>

HaveHandle == {w \in Workers : opHandle[w] # 0}
HaveKey == {w \in Workers : holdsKey[w] # 0}

Locked == session = 0

SessionsInit ==
  /\ session = 0 /\ sessionKeys = {} /\ sessionCount = 0
  /\ opHandle = [w \in Workers |-> 0] /\ holdsKey = [w \in Workers |-> 0]
  /\ oldHandles = {} /\ oldKeys = {} /\ staleUse = FALSE /\ promptSecret = FALSE
  /\ timeoutSet \in BOOLEAN
  /\ idleTooLong = FALSE /\ permit = FALSE /\ supervisor = "read"

\* lock_inner: the state forgets every session, handle and staged passphrase.
\* A worker keeps the bytes of a key it was given.
Revoke ==
  /\ session' = 0 /\ sessionKeys' = {}
  /\ opHandle' = [w \in Workers |-> 0] /\ promptSecret' = FALSE
  /\ idleTooLong' = FALSE /\ permit' = TRUE
  /\ oldHandles' = {} /\ oldKeys' = HaveKey
  /\ UNCHANGED <<sessionCount, holdsKey, staleUse, timeoutSet>>

Lock == Revoke /\ UNCHANGED supervisor

\* Creation, unlocking and import open a session; an import ends the others.
Open(clears) ==
  /\ sessionCount < MaxOpen
  /\ sessionCount' = sessionCount + 1 /\ session' = sessionCount + 1
  /\ sessionKeys' = (IF clears THEN {} ELSE sessionKeys) \cup {sessionCount + 1}
  /\ idleTooLong' = FALSE /\ permit' = TRUE
  /\ oldHandles' = HaveHandle /\ oldKeys' = HaveKey
  /\ UNCHANGED <<grants, staleUse, timeoutSet, supervisor>>

\* A passphrase change, an export or a verification that finished in time.
Renew ==
  /\ ~Locked /\ ~idleTooLong
  /\ permit' = TRUE
  /\ UNCHANGED <<session, sessionKeys, sessionCount, grants, sessionHistory, timeoutSet, idleTooLong, supervisor>>

RecordActivity ==
  /\ ~Locked
  /\ \/ idleTooLong /\ Revoke /\ UNCHANGED supervisor
     \/ Renew

\* The clock, while a timeout is set and the vault is open.
IdleTimePasses ==
  /\ ~Locked /\ timeoutSet /\ ~idleTooLong
  /\ idleTooLong' = TRUE
  /\ UNCHANGED <<session, sessionKeys, sessionCount, grants, sessionHistory, timeoutSet, permit, supervisor>>

\* The timeout is stored, and the supervisor finds out when it wakes up.
SetTimeoutSilently ==
  /\ timeoutSet' \in BOOLEAN
  /\ idleTooLong' \in IF timeoutSet' /\ ~Locked THEN BOOLEAN ELSE {FALSE}
  /\ UNCHANGED <<session, sessionKeys, sessionCount, grants, sessionHistory, permit, supervisor>>

\* A shorter timeout may be overdue at once, a longer one no longer so.
SetAutoLockTimeout ==
  /\ timeoutSet' \in BOOLEAN
  /\ idleTooLong' \in IF timeoutSet' /\ ~Locked THEN BOOLEAN ELSE {FALSE}
  /\ permit' = TRUE
  /\ UNCHANGED <<session, sessionKeys, sessionCount, grants, sessionHistory, supervisor>>

(***************************************************************************)
(* wait_until_auto_locked: read the deadline, sleep until it or wait for a *)
(* change of it, and check again under the mutex before locking.           *)
(***************************************************************************)
NextAutoLockDeadline ==
  /\ supervisor = "read"
  /\ supervisor' = IF ~Locked /\ timeoutSet THEN "sleep" ELSE "wait"
  /\ UNCHANGED <<session, sessionKeys, sessionCount, grants, sessionHistory, timeoutSet, idleTooLong, permit>>

WaitForAutoLockChange ==
  /\ supervisor \in {"sleep", "wait"} /\ permit
  /\ permit' = FALSE /\ supervisor' = "read"
  /\ UNCHANGED <<session, sessionKeys, sessionCount, grants, sessionHistory, timeoutSet, idleTooLong>>

LockIfAutoLockDue ==
  /\ supervisor = "sleep" /\ idleTooLong
  /\ Revoke /\ supervisor' = "read"

(***************************************************************************)
(* Workers.                                                                *)
(***************************************************************************)
CreateOperationHandle(w) ==
  /\ ~Locked /\ opHandle[w] = 0
  /\ opHandle' = [opHandle EXCEPT ![w] = session]
  /\ UNCHANGED <<session, sessionKeys, sessionCount, holdsKey, sessionHistory, promptSecret,
                 timeoutSet, idleTooLong, permit, supervisor>>

HandleCurrent(h) == session = h

\* operation_wrapping_key: the key of the handle's session, which counts as
\* activity.
OperationWrappingKey(w) ==
  /\ ~Locked /\ opHandle[w] # 0
  /\ HandleCurrent(opHandle[w]) /\ opHandle[w] \in sessionKeys
  /\ holdsKey' = [holdsKey EXCEPT ![w] = opHandle[w]]
  /\ idleTooLong' = FALSE /\ permit' = TRUE
  /\ oldKeys' = oldKeys \ {w} /\ staleUse' = (staleUse \/ w \in oldHandles)
  /\ UNCHANGED <<session, sessionKeys, sessionCount, opHandle, oldHandles, promptSecret,
                 timeoutSet, supervisor>>

\* current_credential: the key and its session, without a handle.
CurrentCredential(w) ==
  /\ ~Locked /\ session \in sessionKeys
  /\ holdsKey' = [holdsKey EXCEPT ![w] = session]
  /\ oldKeys' = oldKeys \ {w}
  /\ UNCHANGED <<session, sessionKeys, sessionCount, opHandle, oldHandles, staleUse, promptSecret,
                 timeoutSet, idleTooLong, permit, supervisor>>

\* A publication that checks only that the vault is open.
StillOpen(s) == ~Locked

\* with_current_session: the session the key came from is still the open one.
CurrentSession(s) == session = s /\ s \in sessionKeys

Publish(w) ==
  /\ holdsKey[w] # 0 /\ CurrentSession(holdsKey[w])
  /\ holdsKey' = [holdsKey EXCEPT ![w] = 0]
  /\ oldKeys' = oldKeys \ {w} /\ staleUse' = (staleUse \/ w \in oldKeys)
  /\ UNCHANGED <<session, sessionKeys, sessionCount, opHandle, oldHandles, promptSecret,
                 timeoutSet, idleTooLong, permit, supervisor>>

PublishRefused(w) ==
  /\ holdsKey[w] # 0 /\ ~CurrentSession(holdsKey[w])
  /\ holdsKey' = [holdsKey EXCEPT ![w] = 0]
  /\ oldKeys' = oldKeys \ {w}
  /\ UNCHANGED <<session, sessionKeys, sessionCount, opHandle, oldHandles, staleUse, promptSecret,
                 timeoutSet, idleTooLong, permit, supervisor>>

\* Revoked by its owner, or a media handle past its lifetime.
RevokeOperationHandle(w) ==
  /\ opHandle[w] # 0
  /\ opHandle' = [opHandle EXCEPT ![w] = 0]
  /\ oldHandles' = oldHandles \ {w}
  /\ UNCHANGED <<session, sessionKeys, sessionCount, holdsKey, oldKeys, staleUse, promptSecret,
                 timeoutSet, idleTooLong, permit, supervisor>>

StagePromptSecret ==
  /\ ~promptSecret /\ promptSecret' = TRUE
  /\ UNCHANGED <<session, sessionKeys, sessionCount, opHandle, holdsKey, sessionHistory,
                 timeoutSet, idleTooLong, permit, supervisor>>

\* Consumed once, or expired.
ConsumePromptSecret ==
  /\ promptSecret /\ promptSecret' = FALSE
  /\ UNCHANGED <<session, sessionKeys, sessionCount, opHandle, holdsKey, sessionHistory,
                 timeoutSet, idleTooLong, permit, supervisor>>

SessionsNext ==
  \/ Lock \/ Open(TRUE) \/ Open(FALSE) \/ Renew \/ RecordActivity
  \/ IdleTimePasses \/ SetAutoLockTimeout
  \/ NextAutoLockDeadline \/ WaitForAutoLockChange \/ LockIfAutoLockDue
  \/ \E w \in Workers :
       \/ CreateOperationHandle(w) \/ OperationWrappingKey(w) \/ CurrentCredential(w)
       \/ Publish(w) \/ PublishRefused(w) \/ RevokeOperationHandle(w)
  \/ StagePromptSecret \/ ConsumePromptSecret

SessionsSpec == SessionsInit /\ [][SessionsNext]_sessionVars

-----------------------------------------------------------------------------
SessionsTypeOK ==
  /\ session \in 0..MaxOpen /\ sessionKeys \subseteq 1..MaxOpen
  /\ opHandle \in [Workers -> 0..MaxOpen] /\ holdsKey \in [Workers -> 0..MaxOpen]
  /\ supervisor \in {"read", "sleep", "wait"}
  /\ {promptSecret, timeoutSet, idleTooLong, permit} \subseteq BOOLEAN
  /\ ~Locked => session \in sessionKeys

(***************************************************************************)
(* Locking the vault, and opening it anew, takes back all that was granted *)
(* before: no handle from before yields a key again, and nothing decrypted *)
(* with a key from before is published, however often the vault was locked *)
(* and opened in between, and though a worker keeps the bytes of its key   *)
(* (validate_operation, with_current_session; an opening over an open      *)
(* vault leaves the handles and keys of the earlier session in the state). *)
(***************************************************************************)
NothingOutlivesItsSession == ~staleUse

(***************************************************************************)
(* An idle vault locks: once the deadline has passed, the supervisor locks *)
(* the vault or a use of the open session renews it; no change of the      *)
(* deadline leaves the supervisor asleep (the permit of notify_one).       *)
(***************************************************************************)
IdleVaultLocks == []<>~idleTooLong
=============================================================================
