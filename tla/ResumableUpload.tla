--------------------------- MODULE ResumableUpload ---------------------------
(***************************************************************************)
(* Uploads that continue where they stopped (resumable_upload.rs) and the  *)
(* loop of initiate_upload() around them (commands/fs.rs), for one source  *)
(* path and one destination: one session key, so one record.               *)
(*                                                                         *)
(* The same file may be queued more than once, an attempt may stop at any  *)
(* await, and a part on its way when its attempt stops may still reach     *)
(* Telegram much later.  The source is written in place by other programs  *)
(* at any time, also while an attempt reads it.                            *)
(*                                                                         *)
(* A source is its content, one byte standing for each part, and a stamp   *)
(* standing for size and modification time.  A stamp is young while less   *)
(* than RACY_SOURCE_WINDOW_SECS old: a change may then leave it as it is.  *)
(* A digest is the function it is taken of, so digests are equal exactly   *)
(* when the bytes are.                                                     *)
(***************************************************************************)
EXTENDS Naturals, FiniteSets

CONSTANTS
    Attempts,    \* uploads of this source to this destination
    TotalParts,  \* UploadSession.total_parts
    Workers,     \* WORKERS
    Bytes,       \* what a part may hold
    Nothing,     \* a part Telegram does not have
    NoRecord,    \* no upload-session-v1 record
    Nobody,      \* an attempt that is over
    Contents,    \* what the source may hold
    Video,       \* whether the source is a video with metadata
    MaxFiles,    \* bound on the file ids chosen
    MaxStamps,   \* bound on the changes of the modification time
    ExpireInUse  \* bound: whether parts may expire while an attempt adds to them

ASSUME UploadAssumption ==
    /\ TotalParts \in Nat \ {0}
    /\ Workers \in Nat \ {0}
    /\ Nothing \notin Bytes
    /\ Nobody \notin Attempts
    /\ Contents \subseteq [0..(TotalParts - 1) -> Bytes]
    /\ MaxFiles \in Nat
    /\ MaxStamps \in Nat
    /\ Video \in BOOLEAN
    /\ ExpireInUse \in BOOLEAN

VARIABLES
    source,   \* the file at the path: content, stamp and whether it is young
    record,   \* the record in the account's store
    files,    \* number of file ids chosen so far
    stored,   \* file id -> part -> what Telegram holds
    wire,     \* save_part requests on their way to Telegram
    run,      \* attempt -> the state of its initiate_upload()
    acked     \* history: <<file, part>> that Telegram confirmed

telegram == <<stored, wire>>
vars == <<source, record, files, stored, wire, run, acked>>

-----------------------------------------------------------------------------
Parts == 0..(TotalParts - 1)
Files == 1..MaxFiles
Stamps == 0..MaxStamps
Part == Bytes \cup {Nothing}
Blank == [p \in Parts |-> Nothing]
Prefix(sent, done) == [p \in Parts |-> IF p < done THEN sent[p] ELSE Nothing]

(* UploadSession, as far as it is recorded. *)
Session == [file : Files, stamp : Stamps, settled : BOOLEAN,
            done : 0..TotalParts, digest : [Parts -> Part]]

Request == [file : Files, part : Parts, byte : Bytes, by : Attempts \cup {Nobody}]

(***************************************************************************)
(* One call of initiate_upload(): the stamp it was made with, the session  *)
(* it holds, what it has read (sent, up to next) and the parts it waits    *)
(* for (flying), of which some are answered (arrived) and some confirmed   *)
(* ahead of the prefix.                                                    *)
(***************************************************************************)
Run == [steady : BOOLEAN,  \* history: the source has not changed since it began
        pc : {"Idle", "Opened", "Remove", "Verify", "Send", "Publish",
              "Discard", "Unusable", "Over"},
        stamp : Stamps, file : Files \cup {0}, settled : BOOLEAN,
        done : 0..TotalParts, digest : [Parts -> Part],
        next : 0..TotalParts, sent : [Parts -> Part],
        flying : SUBSET Parts, arrived : SUBSET Parts, confirmed : SUBSET Parts,
        failed : BOOLEAN, resumed : BOOLEAN, restarted : BOOLEAN]

NotRunning(pc) ==
    [steady |-> FALSE, pc |-> pc, stamp |-> 0, file |-> 0, settled |-> FALSE, done |-> 0,
     digest |-> Blank, next |-> 0, sent |-> Blank, flying |-> {},
     arrived |-> {}, confirmed |-> {}, failed |-> FALSE, resumed |-> FALSE,
     restarted |-> FALSE]

Opened(r) ==
    [NotRunning("Opened") EXCEPT !.stamp = r.stamp, !.steady = r.steady]

(* What is left of it when upload() has returned. *)
Uploaded(r) ==
    [Opened(r) EXCEPT !.pc = "Publish", !.file = r.file,
                      !.resumed = r.resumed, !.restarted = r.restarted]

(* What save() writes. *)
Recorded(r) ==
    [file |-> r.file, stamp |-> r.stamp, settled |-> r.settled,
     done |-> r.done, digest |-> Prefix(r.sent, r.done)]

Init ==
    /\ \E content \in Contents, young \in BOOLEAN :
          source = [content |-> content, stamp |-> 0, young |-> young]
    /\ record = NoRecord
    /\ files = 0
    /\ stored = [f \in Files |-> Blank]
    /\ wire = {}
    /\ run = [a \in Attempts |-> NotRunning("Idle")]
    /\ acked = {}

Moves(a, r) == run' = [run EXCEPT ![a] = r]

(* Futures that are dropped: Telegram may still receive what was sent. *)
Orphaned(a) == {[w EXCEPT !.by = IF @ = a THEN Nobody ELSE @] : w \in wire}

-----------------------------------------------------------------------------
(* Beginning: the fingerprint, the recorded session, the prefix. *)

Begin(a) ==
    /\ run[a].pc = "Idle"
    /\ Moves(a, Opened([stamp |-> source.stamp, steady |-> TRUE]))
    /\ UNCHANGED <<source, record, files, telegram, acked>>

(***************************************************************************)
(* session(): whether the record may be continued; old says that it was    *)
(* created more than SESSION_MAX_AGE_SECS ago.                             *)
(***************************************************************************)
UsableUnsettled(r, old) == record # NoRecord /\ record.stamp = r.stamp /\ ~old

Usable(r, old) ==
    /\ record # NoRecord
    /\ record.stamp = r.stamp
    /\ record.settled
    /\ ~old

(* A new session is settled when its stamp is no longer young; of a stamp   *)
(* the source no longer has it is not known when it was made.              *)
NewSession(a) ==
    /\ files < MaxFiles
    /\ files' = files + 1
    /\ \E settled \in BOOLEAN :
          /\ run[a].stamp = source.stamp => (settled <=> ~source.young)
          /\ Moves(a, [run[a] EXCEPT !.pc = "Verify", !.file = files + 1,
                       !.done = 0, !.digest = Blank, !.settled = settled])

Load(a, old) ==
    /\ run[a].pc = "Opened"
    /\ \/ /\ Usable(run[a], old)
          /\ Moves(a, [run[a] EXCEPT
                 !.pc = "Verify", !.file = record.file, !.settled = TRUE,
                 !.done = record.done, !.digest = record.digest,
                 !.resumed = record.done > 0])
          /\ UNCHANGED files
       \/ record = NoRecord /\ NewSession(a)
       \/ /\ record # NoRecord /\ ~Usable(run[a], old)
          /\ Moves(a, [run[a] EXCEPT !.pc = "Remove"])
          /\ UNCHANGED files
    /\ UNCHANGED <<source, record, telegram, acked>>

(* The removal is a statement of its own. *)
Remove(a) ==
    /\ run[a].pc = "Remove"
    /\ record' = NoRecord
    /\ NewSession(a)
    /\ UNCHANGED <<source, telegram, acked>>

(* One part of the prefix is read again. *)
VerifyPart(a) ==
    /\ run[a].pc = "Verify" /\ run[a].next < run[a].done
    /\ Moves(a, [run[a] EXCEPT !.sent[run[a].next] = source.content[run[a].next],
                               !.next = @ + 1])
    /\ UNCHANGED <<source, record, files, telegram, acked>>

Verified(a) ==
    /\ run[a].pc = "Verify" /\ run[a].next = run[a].done
    /\ run[a].sent = run[a].digest
    /\ record' = Recorded(run[a])
    /\ Moves(a, [run[a] EXCEPT !.pc = "Send", !.digest = Blank])
    /\ UNCHANGED <<source, files, telegram, acked>>

(* The prefix differs: discard, and start over once with the same call. *)
Restart(a, may) ==
    /\ record' = NoRecord
    /\ Moves(a, IF may /\ ~run[a].restarted THEN [Opened(run[a]) EXCEPT !.restarted = TRUE]
                ELSE NotRunning("Over"))
    /\ UNCHANGED <<source, files, telegram, acked>>

Stale(a) ==
    /\ run[a].pc = "Verify" /\ run[a].next = run[a].done
    /\ run[a].sent # run[a].digest
    /\ Restart(a, TRUE)

-----------------------------------------------------------------------------
(* Sending parts. *)

CanRead(r) == ~r.failed /\ Cardinality(r.flying) < Workers /\ r.next < TotalParts

ReadPart(a) ==
    LET p == run[a].next IN
    /\ run[a].pc = "Send" /\ CanRead(run[a])
    /\ Moves(a, [run[a] EXCEPT !.sent[p] = source.content[p],
                               !.next = @ + 1, !.flying = @ \cup {p}])
    /\ wire' = wire \cup {[file |-> run[a].file, part |-> p,
                           byte |-> source.content[p], by |-> a]}
    /\ UNCHANGED <<source, record, files, stored, acked>>

ReadFails(a) ==
    /\ run[a].pc = "Send" /\ CanRead(run[a])
    /\ Moves(a, [run[a] EXCEPT !.failed = TRUE])
    /\ UNCHANGED <<source, record, files, telegram, acked>>

(* Telegram stores a part, also one that nobody waits for any more.  A      *)
(* request that is lost is one that is never delivered.                    *)
Deliver(w) ==
    /\ wire' = wire \ {w}
    /\ stored' = [stored EXCEPT ![w.file][w.part] = w.byte]
    /\ run' = [a \in Attempts |->
                 IF a = w.by THEN [run[a] EXCEPT !.arrived = @ \cup {w.part}]
                 ELSE run[a]]
    /\ acked' = acked \cup {<<w.file, w.part>>}
    /\ UNCHANGED <<source, record, files>>

(* The confirmed prefix reaches as far as the confirmed parts are contiguous. *)
NewPrefix(r, confirmed) ==
    CHOOSE n \in r.done..TotalParts :
        /\ \A p \in r.done..(n - 1) : p \in confirmed
        /\ n \notin confirmed

Advanced(r, p) ==
    LET confirmed == r.confirmed \cup {p}
        done == NewPrefix(r, confirmed)
    IN [r EXCEPT !.flying = @ \ {p}, !.arrived = @ \ {p}, !.done = done,
                 !.confirmed = {q \in confirmed : q >= done}]

(* The answer is taken once no further part can be read; a checkpoint is   *)
(* written at most once in CHECKPOINT_INTERVAL.                            *)
Confirm(a, p) ==
    /\ run[a].pc = "Send" /\ ~CanRead(run[a])
    /\ p \in run[a].arrived
    /\ Moves(a, Advanced(run[a], p))
    /\ record' \in {record, Recorded(Advanced(run[a], p))}
    /\ UNCHANGED <<source, files, telegram, acked>>

(* The request fails, or its answer is lost. *)
PartFails(a, p) ==
    /\ run[a].pc = "Send" /\ ~CanRead(run[a])
    /\ p \in run[a].flying
    /\ Moves(a, [run[a] EXCEPT !.flying = @ \ {p}, !.arrived = @ \ {p},
                               !.failed = TRUE])
    /\ wire' = {[w EXCEPT !.by = IF @ = a /\ w.part = p THEN Nobody ELSE @] : w \in wire}
    /\ UNCHANGED <<source, record, files, stored, acked>>

(* After a failure the parts on their way are still awaited. *)
EndSend(a) ==
    /\ run[a].pc = "Send" /\ ~CanRead(run[a]) /\ run[a].flying = {}
    /\ record' = Recorded(run[a])
    /\ Moves(a, IF run[a].failed THEN NotRunning("Over")
                ELSE Uploaded(run[a]))
    /\ UNCHANGED <<source, files, telegram, acked>>

-----------------------------------------------------------------------------
(* Publishing. *)

Publish(a) ==
    /\ run[a].pc = "Publish"
    /\ \A p \in Parts : stored[run[a].file][p] # Nothing
    /\ Moves(a, [run[a] EXCEPT !.pc = "Discard"])
    /\ UNCHANGED <<source, record, files, telegram, acked>>

(* Telegram misses a part: FILE_PART..., FILE_ID_INVALID. *)
PublishRefused(a) ==
    /\ run[a].pc = "Publish"
    /\ \E p \in Parts : stored[run[a].file][p] = Nothing
    /\ Moves(a, [run[a] EXCEPT !.pc = "Unusable"])
    /\ UNCHANGED <<source, record, files, telegram, acked>>

(* Discarding after publication may fail and is then forgotten. *)
Finish(a) ==
    /\ run[a].pc = "Discard"
    /\ record' \in {record, NoRecord}
    /\ Moves(a, NotRunning("Over"))
    /\ UNCHANGED <<source, files, telegram, acked>>

(* Starting over may help when the parts were not all sent by this call,   *)
(* or when the source is a video.                                          *)
GiveUp(a) ==
    /\ run[a].pc = "Unusable"
    /\ Restart(a, run[a].resumed \/ Video)

(* Cancellation, an account change, a failed write or request, a crash. *)
Stop(a) ==
    /\ run[a].pc \notin {"Idle", "Over"}
    /\ Moves(a, NotRunning("Over"))
    /\ wire' = Orphaned(a)
    /\ UNCHANGED <<source, record, files, stored, acked>>

-----------------------------------------------------------------------------
(* Everybody else. *)

(* Another program writes the source; a young stamp may stay the same. *)
Modify(content) ==
    /\ content # source.content
    /\ \/ source.young /\ source' = [source EXCEPT !.content = content]
       \/ /\ source.stamp < MaxStamps
          /\ source' = [content |-> content, stamp |-> source.stamp + 1, young |-> TRUE]
    /\ run' = [a \in Attempts |-> [run[a] EXCEPT !.steady = FALSE]]
    /\ UNCHANGED <<record, files, telegram, acked>>

TimePasses ==
    /\ source.young
    /\ source' = [source EXCEPT !.young = FALSE]
    /\ UNCHANGED <<record, files, telegram, run, acked>>

(* Telegram discards the parts of an unfinished upload after some hours. *)
Expire(f) ==
    /\ stored[f] # Blank
    /\ ExpireInUse \/ \A a \in Attempts : run[a].file = f => run[a].pc # "Send"
    /\ stored' = [stored EXCEPT ![f] = Blank]
    /\ UNCHANGED <<source, record, files, wire, run, acked>>

Sending(a) ==
    \/ ReadPart(a) \/ ReadFails(a) \/ EndSend(a)
    \/ \E p \in Parts : Confirm(a, p) \/ PartFails(a, p)

Next ==
    \/ \E a \in Attempts :
         \/ Begin(a) \/ Remove(a) \/ VerifyPart(a) \/ Verified(a) \/ Stale(a)
         \/ \E old \in BOOLEAN : Load(a, old)
         \/ Sending(a)
         \/ Publish(a) \/ PublishRefused(a) \/ Finish(a) \/ GiveUp(a) \/ Stop(a)
    \/ \E w \in wire : Deliver(w)
    \/ \E content \in Contents : Modify(content)
    \/ TimePasses
    \/ \E f \in Files : Expire(f)

Spec == Init /\ [][Next]_vars

-----------------------------------------------------------------------------
(* Every variable has its type, and an attempt that sends has read the     *)
(* whole recorded prefix again.                                            *)
TypeOK ==
    /\ source \in [content : Contents, stamp : Stamps, young : BOOLEAN]
    /\ record \in Session \cup {NoRecord}
    /\ files \in 0..MaxFiles
    /\ stored \in [Files -> [Parts -> Part]]
    /\ wire \in SUBSET Request
    /\ run \in [Attempts -> Run]
    /\ \A a \in Attempts : run[a].pc = "Send" => run[a].done <= run[a].next
    /\ acked \in SUBSET (Files \X Parts)

(* "Parts 0..completed_parts are confirmed by Telegram": in every record,  *)
(* whichever of several attempts wrote it last and however its parts were  *)
(* answered; and an attempt publishes only a file of which every part was  *)
(* confirmed.                                                              *)
RecordIsConfirmed ==
    /\ record # NoRecord => \A p \in 0..(record.done - 1) : <<record.file, p>> \in acked
    /\ \A a \in Attempts : run[a].pc = "Publish" =>
          \A p \in Parts : <<run[a].file, p>> \in acked

(* "Nothing is taken on trust when resuming": an attempt whose source did  *)
(* not change publishes exactly that source, although earlier or parallel  *)
(* attempts, of this content or another, sent parts under the same file id *)
(* and some of them arrive late.                                           *)
PublishedIsSource ==
    \A a \in Attempts : run[a].pc = "Publish" /\ run[a].steady =>
        \A p \in Parts : stored[run[a].file][p] \in {Nothing, source.content[p]}

(* What an upload and its record keep in every state. *)
UploadInv == TypeOK /\ RecordIsConfirmed /\ PublishedIsSource
=============================================================================
