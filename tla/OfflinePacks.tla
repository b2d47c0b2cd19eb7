---------------------------- MODULE OfflinePacks ----------------------------
(***************************************************************************)
(* One offline pack of workspace/packs.rs: its record in the account's     *)
(* store, the directory with the copies of its files, the entry of its run *)
(* in JOBS, and the commands.  Each use of the store is a transaction; the *)
(* directory, JOBS and the account change between any two.  Commands run   *)
(* side by side with each other, with the run and with the resumption that *)
(* workspace/mod.rs starts every 30 seconds.                               *)
(***************************************************************************)
EXTENDS Naturals

CONSTANTS PackSize,      \* files of the pack, numbered in its order
          Unsupported,   \* those that are protected
          Callers,       \* commands that may be under way at once
          MaxRuns,       \* bound: runs launched
          MaxEvents      \* bound: commands, expiries, sign-ins and crashes

ASSUME PackAssumption ==
  {PackSize, MaxRuns} \subseteq Nat \ {0} /\ MaxEvents \in Nat /\ Unsupported \subseteq 1 .. PackSize

VARIABLES
  offlinePack,  \* the record: exists, status, auto_resume, active_run (0 is none), file -> status
  packJob,      \* JOBS: the run that has the pack's entry, or 0
  stopping,     \* runs whose cancelled flag is set
  packRun,      \* run -> its run_pack task
  call,         \* caller -> its command
  copies,       \* files whose complete copy is in the directory
  parts,        \* runs whose .part file is in the directory
  expired,      \* expires_at has passed
  packGuard,    \* the account's session; guards of earlier ones do not validate
  packEvents,   \* commands, expiries, sign-ins and crashes so far
  torn          \* history: a removal emptied the directory, and no maintain without a run followed

packVars == <<offlinePack, packJob, stopping, packRun, call, copies, parts, expired, packGuard, packEvents, torn>>

PackFiles == 1 .. PackSize
Runs == 1 .. MaxRuns
NoPackRun == [pc |-> "none", file |-> 0, got |-> "none", guard |-> 0]
NoCall == [pc |-> "none", kind |-> "none", file |-> 0, guard |-> 0, run |-> 0]
NoPack == [exists |-> FALSE, status |-> "none", auto |-> FALSE, run |-> 0, files |-> [f \in PackFiles |-> "none"]]

\* create_record: a name, files that are indexed, and an expiry within a year.
CreateRecord ==
  [exists |-> TRUE, status |-> "paused", auto |-> FALSE, run |-> 0,
   files |-> [f \in PackFiles |-> IF f \in Unsupported THEN "unsupported" ELSE "pending"]]

\* A behaviour begins when the pack has been created, or with its run begun.
PackInit ==
  /\ \/ /\ offlinePack = CreateRecord
        /\ packJob = 0 /\ packRun = [r \in Runs |-> NoPackRun]
     \/ /\ offlinePack = [CreateRecord EXCEPT !.status = "queued", !.auto = TRUE, !.run = 1]
        /\ packJob = 1
        /\ packRun = [r \in Runs |-> IF r = 1 THEN [NoPackRun EXCEPT !.pc = "look", !.guard = 1] ELSE NoPackRun]
  /\ stopping = {} /\ call = [c \in Callers |-> NoCall]
  /\ copies = {} /\ parts = {} /\ expired = FALSE /\ packGuard = 1 /\ packEvents = 0 /\ torn = FALSE

(***************************************************************************)
(* maintain: one transaction.                                              *)
(***************************************************************************)
NobodyRuns == packJob = 0

IsExpired == offlinePack.status = "expired" \/ expired
Expired(p) == [p EXCEPT !.status = "expired", !.auto = FALSE, !.run = 0, !.files = [f \in PackFiles |-> "expired"]]

\* existing_path: the copy is there and has the file's size.
Complete(f) == f \in copies

\* A copy is renamed into place only when it is complete: the record of a run
\* that ended between the rename and its own save catches up.
Reconciled(f) ==
  LET status == offlinePack.files[f] IN
  CASE status = "ready" /\ ~Complete(f) -> "pending"
    [] NobodyRuns /\ Complete(f) /\ status \in {"pending", "downloading", "error"} -> "ready"
    [] NobodyRuns /\ ~Complete(f) /\ status = "downloading" -> "pending"
    [] OTHER -> status

AllReady(files) == \A f \in PackFiles : files[f] = "ready"

Maintained ==
  LET files == [f \in PackFiles |-> Reconciled(f)]
      left == NobodyRuns /\ (offlinePack.run # 0 \/ offlinePack.status \in {"running", "waiting"})
      status == IF ~left THEN offlinePack.status ELSE IF offlinePack.auto THEN "queued" ELSE "paused"
      done == NobodyRuns /\ AllReady(files) /\ status # "ready"
  IN [offlinePack EXCEPT
        !.files = files, !.run = IF left THEN 0 ELSE @,
        !.auto = @ /\ ~done,
        !.status = IF done THEN "ready"
                   ELSE IF NobodyRuns /\ status = "ready" /\ ~AllReady(files) THEN "paused" ELSE status]

\* A directory that cannot be removed, or only in part, leaves the record as it
\* was.  The run's flag is set in any case.
RemoveExpired ==
  /\ IsExpired /\ offlinePack' = Expired(offlinePack) /\ copies' = {} /\ parts' = {}
  /\ stopping' = stopping \cup ({packJob} \ {0})
RemoveExpiredFails ==
  /\ IsExpired /\ copies' \in SUBSET copies /\ parts' \in SUBSET parts
  /\ stopping' = stopping \cup ({packJob} \ {0})
  /\ UNCHANGED offlinePack

Reconcile ==
  /\ ~IsExpired /\ offlinePack' = Maintained
  /\ parts' = IF NobodyRuns THEN {} ELSE parts
  /\ UNCHANGED <<copies, stopping>>

(***************************************************************************)
(* The commands, each beginning with maintain: cmd_offline_packs_list and  *)
(* verified_path ("list"), cmd_offline_pack_action, resume_pending.        *)
(***************************************************************************)
Kinds == {"list", "resume", "start", "pause", "cancel", "remove", "cancelFile", "retryFile"}
OfFile == {"cancelFile", "retryFile"}
Stops == {"pause", "cancel", "remove"}

PackEvent == packEvents < MaxEvents /\ packEvents' = packEvents + 1
Returns(c) == call' = [call EXCEPT ![c] = NoCall]
Goes(c, pc) == call' = [call EXCEPT ![c].pc = pc]
GuardHeld(guard) == guard = packGuard

\* Which packs resume_pending launches, by the record maintain returned.
Resumes(p) == p.auto /\ p.status \in {"queued", "running", "waiting"}

FirstStep(kind, p) ==
  CASE kind = "list" -> "none"
    [] kind = "resume" -> IF Resumes(p) THEN "launch" ELSE "none"
    [] OTHER -> "signal"

CallBegins(c, kind, f) ==
  /\ call[c] = NoCall /\ offlinePack.exists /\ PackEvent
  /\ \/ /\ RemoveExpired \/ Reconcile
        /\ call' = [call EXCEPT ![c] =
             IF FirstStep(kind, offlinePack') = "none" THEN NoCall
             ELSE [pc |-> FirstStep(kind, offlinePack'), kind |-> kind, file |-> IF kind \in OfFile THEN f ELSE 0,
                   guard |-> packGuard, run |-> 0]]
        /\ torn' = (torn /\ (~NobodyRuns \/ \E o \in Callers : call[o].pc = "forget"))
     \/ RemoveExpiredFails /\ UNCHANGED <<call, torn>>
  /\ UNCHANGED <<packJob, packRun, expired, packGuard>>

\* A start finds a run under way and returns, unless it is being stopped; the
\* commands that stop set its flag.
Signals(c) ==
  /\ call[c].pc = "signal"
  /\ \/ /\ call[c].kind = "start" /\ packJob # 0
        /\ IF packJob \in stopping THEN Goes(c, "wait") ELSE Returns(c)
        /\ UNCHANGED stopping
     \/ /\ call[c].kind # "start" \/ packJob = 0
        /\ stopping' = IF call[c].kind \in Stops THEN stopping \cup ({packJob} \ {0}) ELSE stopping
        /\ Goes(c, "update")
  /\ UNCHANGED <<offlinePack, packJob, packRun, copies, parts, expired, packGuard, packEvents, torn>>

\* wait_for_stopped, and its 20 seconds.
StopSeen(c) ==
  /\ call[c].pc = "wait" /\ packJob = 0
  /\ Goes(c, IF call[c].kind = "start" THEN "update" ELSE "clear")
  /\ UNCHANGED <<offlinePack, packJob, stopping, packRun, copies, parts, expired, packGuard, packEvents, torn>>

PackBusy(c) ==
  /\ call[c].pc = "wait" /\ packJob # 0 /\ Returns(c)
  /\ UNCHANGED <<offlinePack, packJob, stopping, packRun, copies, parts, expired, packGuard, packEvents, torn>>

\* update_action.
FileAsked(kind, status) ==
  CASE status \in {"ready", "unsupported", "expired"} -> status
    [] kind = "cancelFile" -> "cancelled"
    [] OTHER -> "pending"

UpdateAction(p, kind, f) ==
  CASE kind \in OfFile -> [p EXCEPT !.files[f] = FileAsked(kind, p.files[f])]
    [] kind = "start" ->
         [p EXCEPT !.files = [g \in PackFiles |-> IF p.files[g] \in {"error", "cancelled", "downloading"} THEN "pending"
                                                  ELSE p.files[g]]]
    [] OTHER ->
         [p EXCEPT !.run = 0, !.auto = FALSE, !.status = IF kind = "cancel" THEN "cancelled" ELSE "paused",
                   !.files = [g \in PackFiles |-> IF p.files[g] = "downloading" THEN "pending" ELSE p.files[g]]]

AfterUpdate(kind) == CASE kind \in {"start", "retryFile"} -> "launch" [] kind = "remove" -> "wait" [] OTHER -> "none"

Updates(c) ==
  /\ call[c].pc = "update"
  /\ IF ~offlinePack.exists \/ (call[c].kind = "start" /\ offlinePack.status = "expired")
     THEN Returns(c) /\ UNCHANGED offlinePack
     ELSE /\ offlinePack' = UpdateAction(offlinePack, call[c].kind, call[c].file)
          /\ IF GuardHeld(call[c].guard) /\ AfterUpdate(call[c].kind) # "none"
             THEN Goes(c, AfterUpdate(call[c].kind)) ELSE Returns(c)
  /\ UNCHANGED <<packJob, stopping, packRun, copies, parts, expired, packGuard, packEvents, torn>>

\* launch: the entry in JOBS first, then the record, then the task.
Launched == {r \in Runs : packRun[r] # NoPackRun \/ \E c \in Callers : call[c].run = r}

\* The slip of asking the record, which names the run only later.
ClaimedByRecord == offlinePack.run # 0
Claimed == packJob # 0

LaunchInserts(c) ==
  /\ call[c].pc = "launch"
  /\ \/ /\ ~GuardHeld(call[c].guard) \/ Claimed
        /\ Returns(c) /\ UNCHANGED packJob
     \/ /\ GuardHeld(call[c].guard) /\ ~Claimed
        /\ \E r \in Runs \ Launched :
             /\ \A o \in Runs \ Launched : r <= o
             /\ packJob' = r
             /\ call' = [call EXCEPT ![c].pc = "prepare", ![c].run = r]
  /\ UNCHANGED <<offlinePack, stopping, packRun, copies, parts, expired, packGuard, packEvents, torn>>

LaunchPrepares(c) ==
  /\ call[c].pc = "prepare"
  /\ LET r == call[c].run IN
     IF offlinePack.exists /\ ~IsExpired /\ r \notin stopping
     THEN /\ offlinePack' = [offlinePack EXCEPT !.run = r, !.auto = TRUE, !.status = "queued"]
          /\ packRun' = [packRun EXCEPT ![r] = [NoPackRun EXCEPT !.pc = "look", !.guard = call[c].guard]]
          /\ UNCHANGED packJob
     ELSE packJob' = 0 /\ packRun' = [packRun EXCEPT ![r].pc = "ended"] /\ UNCHANGED offlinePack
  /\ Returns(c)
  /\ UNCHANGED <<stopping, copies, parts, expired, packGuard, packEvents, torn>>

\* The rest of a removal: the directory, then the record.
Clears(c) ==
  /\ call[c].pc = "clear"
  /\ \/ ~GuardHeld(call[c].guard) /\ Returns(c) /\ UNCHANGED <<copies, parts, torn>>
     \/ /\ GuardHeld(call[c].guard) /\ torn' = TRUE
        /\ \/ copies' = {} /\ parts' = {} /\ Goes(c, "forget")
           \/ copies' \in SUBSET copies /\ parts' \in SUBSET parts /\ Returns(c)
  /\ UNCHANGED <<offlinePack, packJob, stopping, packRun, expired, packGuard, packEvents>>

Forgets(c) ==
  /\ call[c].pc = "forget" /\ Returns(c)
  /\ offlinePack' = NoPack
  /\ UNCHANGED <<packJob, stopping, packRun, copies, parts, expired, packGuard, packEvents, torn>>

CallStep(c) ==
  Signals(c) \/ StopSeen(c) \/ PackBusy(c) \/ Updates(c) \/ LaunchInserts(c) \/ LaunchPrepares(c)
    \/ Clears(c) \/ Forgets(c)

(***************************************************************************)
(* run_pack.                                                               *)
(***************************************************************************)
\* The file and the result are variables of one turn of the loop.
RunGoes(r, pc) ==
  packRun' = [packRun EXCEPT ![r] = IF pc \in {"look", "leave", "fail"}
                                    THEN [NoPackRun EXCEPT !.pc = pc, !.guard = packRun[r].guard]
                                    ELSE [packRun[r] EXCEPT !.pc = pc]]
\* mutate_running: the account's guard, the record, and still this run's.
MayWrite(r) == GuardHeld(packRun[r].guard) /\ offlinePack.exists /\ offlinePack.run = r

\* The run expires the pack by maintain and ends, with an error if that fails.
RunExpires(r) ==
  \/ RemoveExpired /\ RunGoes(r, "leave")
  \/ RemoveExpiredFails /\ RunGoes(r, "fail")

FilesWanted == {f \in PackFiles : offlinePack.files[f] \in {"pending", "downloading"}}

RunLooks(r) ==
  /\ packRun[r].pc = "look"
  /\ IF r \in stopping \/ (GuardHeld(packRun[r].guard) /\ offlinePack.exists /\ offlinePack.run # r)
     THEN RunGoes(r, "leave") /\ UNCHANGED <<offlinePack, copies, parts, stopping>>
     ELSE IF ~MayWrite(r) THEN RunGoes(r, "fail") /\ UNCHANGED <<offlinePack, copies, parts, stopping>>
     ELSE IF expired THEN RunExpires(r)
     ELSE /\ packRun' = [packRun EXCEPT
                           ![r].pc = IF FilesWanted = {} THEN "conclude" ELSE "gate",
                           ![r].file = IF FilesWanted = {} THEN 0
                                       ELSE CHOOSE f \in FilesWanted : \A g \in FilesWanted : f <= g]
          /\ UNCHANGED <<offlinePack, copies, parts, stopping>>
  /\ UNCHANGED <<packJob, call, expired, packGuard, packEvents, torn>>

\* Nothing is left to fetch.
RunConcludes(r) ==
  /\ packRun[r].pc = "conclude" /\ MayWrite(r)
  /\ offlinePack' = [offlinePack EXCEPT !.status = IF AllReady(offlinePack.files) THEN "ready" ELSE "error",
                                        !.run = 0, !.auto = FALSE]
  /\ RunGoes(r, "leave")
  /\ UNCHANGED <<packJob, stopping, call, copies, parts, expired, packGuard, packEvents, torn>>

\* No network of the kind asked for, or not enough space.
RunWaits(r) ==
  /\ packRun[r].pc = "gate" /\ MayWrite(r)
  /\ offlinePack' = [offlinePack EXCEPT !.status = "waiting"]
  /\ RunGoes(r, "look")
  /\ UNCHANGED <<packJob, stopping, call, copies, parts, expired, packGuard, packEvents, torn>>

RunFetches(r) ==
  /\ packRun[r].pc = "gate" /\ MayWrite(r)
  /\ offlinePack' = [offlinePack EXCEPT !.status = "running", !.files[packRun[r].file] = "downloading"]
  /\ RunGoes(r, "fetch") /\ parts' = parts \cup {r}
  /\ UNCHANGED <<packJob, stopping, call, copies, expired, packGuard, packEvents, torn>>

\* How the operation that run_pack selects ends: complete, with an error after
\* which the pack waits (network or storage), or with another one.
FetchEnds == {"whole", "wait", "error"}

\* assets::download renames a complete copy; an end that is raced by the rename
\* (a flag, the network's loss, a cancelled file) may leave the copy as well.
RunFetched(r, got) ==
  /\ packRun[r].pc = "fetch"
  /\ got = "whole" => r \in parts /\ GuardHeld(packRun[r].guard)
  /\ \/ got # "whole" /\ UNCHANGED copies
     \/ r \in parts /\ copies' = copies \cup {packRun[r].file}
  /\ parts' = {}
  /\ packRun' = [packRun EXCEPT ![r].pc = "settle", ![r].got = got]
  /\ UNCHANGED <<offlinePack, packJob, stopping, call, expired, packGuard, packEvents, torn>>

RunSettles(r) ==
  /\ packRun[r].pc = "settle"
  /\ IF r \in stopping THEN RunGoes(r, "leave") /\ UNCHANGED <<offlinePack, copies, parts, stopping>>
     ELSE IF expired THEN IF offlinePack.exists THEN RunExpires(r)
                          ELSE RunGoes(r, "leave") /\ UNCHANGED <<offlinePack, copies, parts, stopping>>
     ELSE /\ RunGoes(r, IF ~offlinePack.exists THEN "fail"
                        ELSE IF offlinePack.files[packRun[r].file] = "cancelled" THEN "drop" ELSE "finish")
          /\ UNCHANGED <<offlinePack, copies, parts, stopping>>
  /\ UNCHANGED <<packJob, call, expired, packGuard, packEvents, torn>>

\* A file the user cancelled loses its copy, and the run goes on.
RunDrops(r) ==
  /\ packRun[r].pc = "drop"
  /\ copies' = copies \ {packRun[r].file} /\ RunGoes(r, "look")
  /\ UNCHANGED <<offlinePack, packJob, stopping, call, parts, expired, packGuard, packEvents, torn>>

\* What becomes of the file, by how its download ended.
Outcome(got) == CASE got = "whole" -> "ready" [] got = "wait" -> "pending" [] OTHER -> "error"
\* The slip of leaving a cancellation alone only when the download succeeds.
FileSettledOnError(status, got) == IF status = "cancelled" /\ got = "whole" THEN status ELSE Outcome(got)
FileSettled(status, got) == IF status = "cancelled" THEN status ELSE Outcome(got)

RunFinishes(r) ==
  /\ packRun[r].pc = "finish" /\ MayWrite(r)
  /\ LET f == packRun[r].file
         was == offlinePack.files[f]
         got == packRun[r].got
     IN /\ offlinePack' = [offlinePack EXCEPT !.files[f] = FileSettled(was, got),
                                              !.status = IF got = "wait" /\ was # "cancelled" THEN "waiting" ELSE @]
        /\ RunGoes(r, IF got = "whole" /\ was = "cancelled" THEN "drop" ELSE "look")
  /\ UNCHANGED <<packJob, stopping, call, copies, parts, expired, packGuard, packEvents, torn>>

RunRefused(r) ==
  /\ packRun[r].pc \in {"conclude", "gate", "finish"} /\ ~MayWrite(r)
  /\ RunGoes(r, "fail")
  /\ UNCHANGED <<offlinePack, packJob, stopping, call, copies, parts, expired, packGuard, packEvents, torn>>

\* An error of run_pack is noted in the record while it is still this run's.
RunFails(r) ==
  /\ packRun[r].pc = "fail"
  /\ offlinePack' = IF MayWrite(r) THEN [offlinePack EXCEPT !.status = "paused", !.run = 0] ELSE offlinePack
  /\ RunGoes(r, "leave")
  /\ UNCHANGED <<packJob, stopping, call, copies, parts, expired, packGuard, packEvents, torn>>

RunLeaves(r) ==
  /\ packRun[r].pc = "leave"
  /\ packJob' = 0 /\ parts' = {} /\ stopping' = stopping \ {r}
  /\ packRun' = [packRun EXCEPT ![r] = [NoPackRun EXCEPT !.pc = "ended"]]
  /\ UNCHANGED <<offlinePack, call, copies, expired, packGuard, packEvents, torn>>

RunStep(r) ==
  \/ RunLooks(r) \/ RunConcludes(r) \/ RunWaits(r) \/ RunFetches(r)
  \/ \E got \in FetchEnds : RunFetched(r, got)
  \/ RunSettles(r) \/ RunDrops(r) \/ RunFinishes(r) \/ RunRefused(r) \/ RunFails(r) \/ RunLeaves(r)

(***************************************************************************)
(* The rest of the world.                                                  *)
(***************************************************************************)
PackExpires ==
  /\ PackEvent /\ ~expired /\ expired' = TRUE
  /\ UNCHANGED <<offlinePack, packJob, stopping, packRun, call, copies, parts, packGuard, torn>>

\* The account is signed out and in again; commands begin with the new guard.
SignedInAgain ==
  /\ PackEvent /\ packGuard' = packGuard + 1
  /\ UNCHANGED <<offlinePack, packJob, stopping, packRun, call, copies, parts, expired, torn>>

PackCrash ==
  /\ PackEvent /\ (packJob # 0 \/ \E c \in Callers : call[c] # NoCall)
  /\ packJob' = 0 /\ stopping' = {} /\ call' = [c \in Callers |-> NoCall]
  /\ packRun' = [r \in Runs |-> IF r \in Launched THEN [NoPackRun EXCEPT !.pc = "ended"] ELSE NoPackRun]
  /\ UNCHANGED <<offlinePack, copies, parts, expired, packGuard, torn>>

PackNext ==
  \/ \E c \in Callers : CallStep(c) \/ \E kind \in Kinds, f \in PackFiles : CallBegins(c, kind, f)
  \/ \E r \in Runs : RunStep(r)
  \/ PackExpires \/ SignedInAgain \/ PackCrash

PackSpec == PackInit /\ [][PackNext]_packVars

-----------------------------------------------------------------------------
PackTypeOK ==
  /\ packJob \in 0 .. MaxRuns /\ stopping \subseteq Runs /\ parts \subseteq Runs /\ copies \subseteq PackFiles
  /\ offlinePack.files \in [PackFiles -> {"none", "pending", "downloading", "ready", "error", "cancelled",
                                          "unsupported", "expired"}]
  /\ offlinePack.run \in 0 .. MaxRuns /\ packGuard \in Nat /\ packEvents \in 0 .. MaxEvents

\* A pack has one run at a time, the one whose entry is in JOBS: an older run
\* has left before a newer one begins, however pauses and starts follow.
OneRun == \A r \in Runs : packRun[r].pc \notin {"none", "ended"} => packJob = r

\* "Only files whose complete private copy exists are reported ready"
\* (packs.rs:1), until the pack expires or is being removed.  A run started
\* while a removal goes on may report a copy the removal takes away; the next
\* maintain that finds no run corrects the record.
ReadyIsComplete ==
  offlinePack.exists /\ ~IsExpired /\ ~torn =>
    \A f \in PackFiles : offlinePack.files[f] = "ready" => f \in copies

\* A run that removes the copy of a cancelled file removes none that was
\* reported ready since, after a retry and a reconciliation.
ReadyNotDropped ==
  \A r \in Runs : packRun[r].pc = "drop" => offlinePack.files[packRun[r].file] # "ready"

(***************************************************************************)
(* The pack, its directory and its run agree: OneRun, ReadyIsComplete and  *)
(* ReadyNotDropped, over crashes, sign-outs and commands side by side      *)
(* (maintain, launch, run_pack).                                           *)
(***************************************************************************)
PackInv == PackTypeOK /\ OneRun /\ ReadyIsComplete /\ ReadyNotDropped

(***************************************************************************)
(* A file the user cancelled stays cancelled, however its download ends,   *)
(* until the user asks for it again or the pack ends (run_pack).  Only a   *)
(* run that picked the file and still waits for the network writes over    *)
(* the cancellation.                                                       *)
(***************************************************************************)
CancelStays ==
  [][\A f \in PackFiles :
       offlinePack.files[f] = "cancelled" /\ offlinePack'.files[f] # "cancelled" =>
         \/ ~offlinePack'.exists \/ offlinePack'.status = "expired"
         \/ \E r \in Runs : packRun[r].pc = "gate" /\ packRun[r].file = f
         \/ \E c \in Callers : call[c].pc = "update" /\ call[c].kind \in {"start", "retryFile"}
                                /\ call'[c].pc # "update"]_packVars
=============================================================================
