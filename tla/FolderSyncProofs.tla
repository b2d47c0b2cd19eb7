--------------------------- MODULE FolderSyncProofs ---------------------------
(***************************************************************************)
(* Proofs about FolderSync, for any number of paths, of changes and of     *)
(* messages: the invariant of a cycle, and that the engine loses nothing   *)
(* it has not recorded, leaves conflicts to the user and keeps to the      *)
(* reviewed settings (sync_engine/mod.rs, planner.rs, executor.rs).        *)
(***************************************************************************)
EXTENDS FolderSync, FiniteSetTheorems, SequenceTheorems, TLAPS

MessageType == [path : Paths \cup {NoPath}, version : 0..MaxChanges, edits : 0..MaxChanges]
ItemType == [path : Paths, old : Messages, new : Messages, hash : Hash]
EntryType == [mid : 0..MaxMessages, hash : Hash, size : 0..1]

(***************************************************************************)
(* The invariant of types, in parts.                                       *)
(***************************************************************************)
TypeFiles ==
    /\ local \in [Paths -> 0..MaxChanges] /\ aside \subseteq Versions
    /\ msgs \in Seq(MessageType) /\ Len(msgs) <= MaxMessages
    /\ made \in 0..MaxChanges
TypeStore ==
    /\ rows \in [Paths -> Row] /\ policy \in Policies /\ cleanup \in Seq(ItemType)
TypePosition ==
    /\ pc \in {"idle", "retry", "scan", "prepare", "execute", "tidy", "record"}
    /\ stage \in {"none", "sent", "journaled", "fetched", "checked", "deleted"}
    /\ cur \in Paths \cup {NoPath}
TypeTrees ==
    /\ known \subseteq Paths /\ seenLocal \in [Paths -> 0..MaxChanges]
    /\ seenRemote \in [Paths -> EntryType]
TypePlan ==
    /\ plan \in [Paths -> Operations] /\ outcome \in [Paths -> {"none", "ok", "failed"}]
    /\ got \in [Paths -> Nat]
TypeHistory == waived \subseteq Versions /\ recorded \subseteq Versions

LEMMA TypeParts ==
  TypeOK <=> TypeFiles /\ TypeStore /\ TypePosition /\ TypeTrees /\ TypePlan /\ TypeHistory
  BY DEF TypeOK, TypeFiles, TypeStore, TypePosition, TypeTrees, TypePlan, TypeHistory,
     MessageType, ItemType, EntryType

(***************************************************************************)
(* Sequences.                                                              *)
(***************************************************************************)
(* A finite set, made a sequence, is a sequence of its elements.           *)
LEMMA SetAsSequence == ASSUME NEW S, IsFiniteSet(S) PROVE SetToSeq(S) \in Seq(S)
<1> DEFINE n == Cardinality(S)
<1>1. n \in Nat /\ ExistsBijection(1..n, S)
  BY FS_CardinalityType
<1>2. \E f \in [1..n -> S] : IsInjective(f)
  BY <1>1 DEF ExistsBijection, Bijection, Injection
<1>3. SetToSeq(S) \in [1..n -> S]
  BY <1>2 DEF SetToSeq
<1> QED
  BY <1>1, <1>3

(***************************************************************************)
(* What the large steps leave alone.                                       *)
(***************************************************************************)
LEMMA ScanFrame ==
  ASSUME ScanRemote
  PROVE  /\ UNCHANGED <<local, aside, msgs, made, rows, cleanup, policy, stage, cur, seenLocal, plan, outcome, got>>
         /\ pc = "scan" /\ pc' = "prepare" /\ EngineHistory
  BY DEF ScanRemote, disk, store

LEMMA PrepareFrame ==
  ASSUME Prepare
  PROVE  /\ UNCHANGED <<local, aside, msgs, made, cleanup, policy>>
         /\ pc = "prepare" /\ EngineHistory
  BY DEF Prepare, disk

LEMMA SettleFrame ==
  ASSUME Settle
  PROVE  /\ UNCHANGED <<local, aside, msgs, made, policy>>
         /\ pc = "execute" /\ stage = "none" /\ EngineHistory
  BY DEF Settle, disk

LEMMA RecordFrame ==
  ASSUME Record
  PROVE  /\ UNCHANGED <<local, aside, msgs, made, cleanup, policy>>
         /\ pc = "record" /\ Rest /\ EngineHistory
  BY DEF Record, disk

LEMMA DecideFrame ==
  ASSUME CleanupDecide
  PROVE  /\ UNCHANGED <<local, aside, msgs, made, policy>>
         /\ pc \in {"retry", "tidy"} /\ stage = "none" /\ EngineHistory
         /\ (UNCHANGED <<cur, known, seenLocal, seenRemote, plan, outcome, got>>) \/ Rest
         /\ cleanup' \in {cleanup, Tail(cleanup)}
  BY DEF CleanupDecide, disk, cycle

(***************************************************************************)
(* Who writes what.                                                        *)
(***************************************************************************)
LEMMA FileWriters ==
  ASSUME [Next]_vars
  PROVE  /\ \/ UNCHANGED local
            \/ \E p \in Paths : DownloadReplace(p) \/ DeleteLocal(p) \/ WriteFile(p) \/ RemoveFile(p)
         /\ (UNCHANGED aside) \/ (\E p \in Paths : DownloadAside(p))
         /\ \/ UNCHANGED made
            \/ \E p \in Paths : WriteFile(p) \/ RemoveFile(p) \/ PostMessage(p)
            \/ \E m \in DOMAIN msgs : EditMessage(m) \/ DeleteMessage(m)
         /\ \/ UNCHANGED msgs
            \/ CleanupDelete
            \/ \E p \in Paths : UploadSend(p) \/ UploadDiscard(p) \/ DeleteRemote(p) \/ PostMessage(p)
            \/ \E m \in DOMAIN msgs : EditMessage(m) \/ DeleteMessage(m)
<1>1. CASE EngineStep
  BY <1>1, ScanFrame, PrepareFrame, SettleFrame, RecordFrame, DecideFrame
     DEF EngineStep, disk, StartCycle, Abandon, CleanupDelete, CleanupSave, ExecuteNothing, Fail, UploadSend,
         UploadDiscard, UploadJournal, UploadCaption, DownloadFetch, DownloadCheck, DownloadReplace, DownloadAside,
         DeleteCheck, DeleteLocal, DeleteRemote
<1>2. CASE UserStep
  BY <1>2 DEF UserStep, disk, WriteFile, RemoveFile, PostMessage, EditMessage, DeleteMessage, Resolve, UpdatePair,
     ReplacePair
<1>3. CASE UNCHANGED vars
  BY <1>3 DEF vars, disk
<1> QED
  BY <1>1, <1>2, <1>3 DEF Next

LEMMA StoreWriters ==
  ASSUME [Next]_vars
  PROVE  /\ \/ UNCHANGED rows
            \/ CleanupDecide \/ Prepare \/ Settle \/ Record
            \/ \E p \in Paths : UploadJournal(p)
            \/ \E p \in Paths, resolution \in Resolutions : Resolve(p, resolution)
            \/ \E chosen \in Policies : ReplacePair(chosen)
         /\ \/ UNCHANGED cleanup
            \/ CleanupDecide \/ CleanupSave \/ Settle \/ \E chosen \in Policies : ReplacePair(chosen)
         /\ (UNCHANGED policy) \/ \E chosen \in Policies : UpdatePair(chosen) \/ ReplacePair(chosen)
<1>1. CASE EngineStep
  BY <1>1, ScanFrame, PrepareFrame, SettleFrame, RecordFrame, DecideFrame
     DEF EngineStep, store, StartCycle, Abandon, CleanupDelete, CleanupSave, ExecuteNothing, Fail, UploadSend,
         UploadDiscard, UploadJournal, UploadCaption, DownloadFetch, DownloadCheck, DownloadReplace, DownloadAside,
         DeleteCheck, DeleteLocal, DeleteRemote
<1>2. CASE UserStep
  BY <1>2 DEF UserStep, store, WriteFile, RemoveFile, PostMessage, EditMessage, DeleteMessage, Resolve, UpdatePair,
     ReplacePair
<1>3. CASE UNCHANGED vars
  BY <1>3 DEF vars, store
<1> QED
  BY <1>1, <1>2, <1>3 DEF Next

(* Only the engine moves its position and what it holds of a cycle.        *)
LEMMA UserFrame ==
  ASSUME UserStep
  PROVE  /\ UNCHANGED <<pc, stage, cur, known, seenLocal, seenRemote, plan, outcome, got>>
         /\ UserHistory
  BY DEF UserStep, position, cycle, WriteFile, RemoveFile, PostMessage, EditMessage, DeleteMessage, Resolve,
     UpdatePair, ReplacePair

LEMMA HistoryWritten == ASSUME Next PROVE EngineHistory \/ UserHistory
<1>1. CASE EngineStep
  BY <1>1, ScanFrame, PrepareFrame, SettleFrame, RecordFrame, DecideFrame
     DEF EngineStep, StartCycle, Abandon, CleanupDelete, CleanupSave, ExecuteNothing, Fail, UploadSend,
         UploadDiscard, UploadJournal, UploadCaption, DownloadFetch, DownloadCheck, DownloadReplace, DownloadAside,
         DeleteCheck, DeleteLocal, DeleteRemote
<1> QED
  BY <1>1, UserFrame DEF Next

(* What may be taken away stays so for as long as it is there.             *)
LEMMA CoveredKept ==
  ASSUME [Next]_vars, NEW v, Covered(v), v \in Present' \cup {0}
  PROVE  v \in waived' \cup recorded' \cup {0}
<1>1. CASE UNCHANGED vars
  BY <1>1 DEF vars, Covered
<1> QED
  BY <1>1, HistoryWritten DEF EngineHistory, UserHistory, Covered

(***************************************************************************)
(* The two sides.                                                          *)
(***************************************************************************)
Made == made' = made \/ (made < MaxChanges /\ made' = made + 1)

LEMMA MadeGrows == ASSUME TypeFiles, [Next]_vars PROVE Made /\ made' \in 0..MaxChanges /\ made <= made'
<1>1. Made
  BY FileWriters DEF Made, WriteFile, RemoveFile, PostMessage, EditMessage, DeleteMessage, Change
<1> QED
  BY <1>1, SyncConstants DEF Made, TypeFiles, SyncConstants

(* A message is never moved, never posted again, and an edit shows.        *)
Grows ==
    \A m \in DOMAIN msgs :
        /\ m \in DOMAIN msgs'
        /\ msgs'[m].version # 0 =>
             /\ msgs[m].version # 0 /\ msgs'[m].path = msgs[m].path /\ msgs[m].edits <= msgs'[m].edits
             /\ msgs'[m].edits = msgs[m].edits => msgs'[m] = msgs[m]
Messaged ==
    /\ msgs' \in Seq(MessageType) /\ Len(msgs') <= MaxMessages
    /\ \A m \in DOMAIN msgs' : msgs'[m].version <= made' /\ msgs'[m].edits <= made'
    /\ Grows

LEMMA DomainOfMsgs == ASSUME TypeFiles PROVE /\ DOMAIN msgs = 1..Len(msgs) /\ Len(msgs) \in Nat
                                              /\ \A m \in DOMAIN msgs : msgs[m] \in MessageType
  BY LenProperties DEF TypeFiles

LEMMA GoneIsMessage == Gone \in MessageType /\ Gone.version = 0 /\ Gone.edits = 0
  BY SyncConstants DEF Gone, MessageType, SyncConstants

LEMMA MessageGone ==
  ASSUME TypeFiles, Numbered, made <= made', made' \in Nat, NEW k, msgs' = [msgs EXCEPT ![k] = Gone]
  PROVE  Messaged
<1>1. /\ DOMAIN msgs' = DOMAIN msgs
      /\ \A m \in DOMAIN msgs : msgs'[m] = IF m = k THEN Gone ELSE msgs[m]
  OBVIOUS
<1>2. msgs' \in Seq(MessageType) /\ Len(msgs') = Len(msgs)
  <2>1. CASE k \in 1..Len(msgs)
    BY <2>1, ExceptSeq, GoneIsMessage DEF TypeFiles
  <2>2. CASE k \notin 1..Len(msgs)
    <3>1. msgs' = msgs
      <4>1. msgs \in [1..Len(msgs) -> MessageType]
        BY LenProperties DEF TypeFiles
      <4> QED
        BY <2>2, <4>1
    <3> QED
      BY <3>1 DEF TypeFiles
  <2> QED
    BY <2>1, <2>2
<1>3. \A m \in DOMAIN msgs : msgs[m].version \in Nat /\ msgs[m].edits \in Nat /\ msgs[m].version <= made /\ msgs[m].edits <= made
  BY DomainOfMsgs DEF Numbered, MessageType
<1>4. made \in Nat
  BY DEF TypeFiles
<1>5. \A m \in DOMAIN msgs' : msgs'[m].version <= made' /\ msgs'[m].edits <= made'
  BY <1>1, <1>3, <1>4, GoneIsMessage
<1>6. Grows
  BY <1>1, <1>3, GoneIsMessage DEF Grows
<1> QED
  BY <1>2, <1>5, <1>6 DEF Messaged, TypeFiles

LEMMA MessagePosted ==
  ASSUME TypeFiles, Numbered, made <= made', made' \in 0..MaxChanges, Len(msgs) < MaxMessages,
         NEW p \in Paths, NEW v \in 0..MaxChanges, v <= made',
         msgs' = Append(msgs, [path |-> p, version |-> v, edits |-> 0])
  PROVE  /\ Messaged /\ Len(msgs') = Len(msgs) + 1
         /\ DOMAIN msgs' = DOMAIN msgs \cup {Len(msgs) + 1}
         /\ \A m \in DOMAIN msgs : msgs'[m] = msgs[m]
         /\ msgs'[Len(msgs) + 1] = [path |-> p, version |-> v, edits |-> 0]
<1> DEFINE r == [path |-> p, version |-> v, edits |-> 0]
<1>0. r \in MessageType /\ r.version = v /\ r.edits = 0
  BY SyncConstants DEF MessageType, SyncConstants
<1>1. DOMAIN msgs = 1..Len(msgs) /\ Len(msgs) \in Nat
  BY DomainOfMsgs
<1>2. /\ msgs' \in Seq(MessageType) /\ Len(msgs') = Len(msgs) + 1
      /\ \A i \in 1..Len(msgs) : msgs'[i] = msgs[i]
      /\ msgs'[Len(msgs) + 1] = r
  BY <1>0, AppendProperties DEF TypeFiles
<1>3. DOMAIN msgs' = 1..(Len(msgs) + 1)
  BY <1>2, LenProperties
<1>4. \A m \in DOMAIN msgs : msgs[m].version \in Nat /\ msgs[m].edits \in Nat /\ msgs[m].version <= made /\ msgs[m].edits <= made
  BY DomainOfMsgs DEF Numbered, MessageType
<1>5. \A m \in DOMAIN msgs' : m \in DOMAIN msgs \/ m = Len(msgs) + 1
  BY <1>1, <1>3
<1>6. made \in Nat /\ MaxMessages \in Nat
  BY SyncConstants DEF TypeFiles, SyncConstants
<1>7. \A m \in DOMAIN msgs' : msgs'[m].version <= made' /\ msgs'[m].edits <= made'
  BY <1>0, <1>1, <1>2, <1>4, <1>5, <1>6
<1>8. Grows
  BY <1>1, <1>2, <1>3, <1>4 DEF Grows
<1> QED
  BY <1>1, <1>2, <1>3, <1>6, <1>7, <1>8 DEF Messaged

LEMMA MessageEdited ==
  ASSUME TypeFiles, Numbered, NEW k \in DOMAIN msgs, EditMessage(k)
  PROVE  /\ Messaged /\ msgs'[k].edits = msgs[k].edits + 1
         /\ \A m \in DOMAIN msgs \ {k} : msgs'[m] = msgs[m]
<1>0. made' = made + 1 /\ made \in Nat /\ made' \in 0..MaxChanges /\ made < MaxChanges /\ MaxChanges \in Nat
  BY SyncConstants DEF EditMessage, Change, TypeFiles, SyncConstants
<1>1. msgs[k] \in MessageType /\ msgs[k].version # 0 /\ msgs[k].edits <= made
  BY DomainOfMsgs DEF EditMessage, Exists, Numbered
<1>2. PICK r : r = [msgs[k] EXCEPT !.version = made + 1, !.edits = @ + 1]
  OBVIOUS
<1>3. msgs' = [msgs EXCEPT ![k] = r]
  BY <1>2 DEF EditMessage
<1>4. r \in MessageType /\ r.version = made + 1 /\ r.edits = msgs[k].edits + 1 /\ r.path = msgs[k].path
  <2>1. r = [path |-> msgs[k].path, version |-> made + 1, edits |-> msgs[k].edits + 1]
    BY <1>1, <1>2 DEF MessageType
  <2>2. msgs[k].edits \in Nat /\ msgs[k].path \in Paths \cup {NoPath} /\ msgs[k].edits + 1 \in 0..MaxChanges
    BY <1>0, <1>1 DEF MessageType
  <2> QED
    BY <1>0, <2>1, <2>2 DEF MessageType
<1>5. /\ DOMAIN msgs' = DOMAIN msgs /\ msgs'[k] = r
      /\ \A m \in DOMAIN msgs \ {k} : msgs'[m] = msgs[m]
  BY <1>3
<1>6. msgs' \in Seq(MessageType) /\ Len(msgs') = Len(msgs)
  BY <1>3, <1>4, ExceptSeq, DomainOfMsgs DEF TypeFiles
<1>7. \A m \in DOMAIN msgs : msgs[m].version \in Nat /\ msgs[m].edits \in Nat /\ msgs[m].version <= made /\ msgs[m].edits <= made
  BY DomainOfMsgs DEF Numbered, MessageType
<1>8. \A m \in DOMAIN msgs' : msgs'[m].version <= made' /\ msgs'[m].edits <= made'
  BY <1>0, <1>4, <1>5, <1>7
<1>9. Grows
  BY <1>1, <1>4, <1>5, <1>7 DEF Grows
<1> QED
  BY <1>4, <1>5, <1>6, <1>8, <1>9 DEF Messaged, TypeFiles

LEMMA MessagesKept == ASSUME TypeOK, Numbered, [Next]_vars PROVE Messaged
<1>0. TypeFiles
  BY TypeParts
<1>1. Made /\ made' \in 0..MaxChanges /\ made <= made' /\ made' \in Nat /\ made \in Nat
  BY <1>0, MadeGrows DEF TypeFiles
<1>2. CASE UNCHANGED msgs
  <2>1. \A m \in DOMAIN msgs : msgs[m].version \in Nat /\ msgs[m].edits \in Nat /\ msgs[m].version <= made /\ msgs[m].edits <= made
    BY <1>0, DomainOfMsgs DEF Numbered, MessageType
  <2> QED
    BY <1>0, <1>1, <1>2, <2>1 DEF Messaged, Grows, TypeFiles
<1>3. ASSUME NEW k, msgs' = [msgs EXCEPT ![k] = Gone] PROVE Messaged
  BY <1>0, <1>1, <1>3, MessageGone
<1>4. ASSUME NEW p \in Paths, UploadSend(p) PROVE Messaged
  <2>1. local[p] \in 0..MaxChanges /\ local[p] <= made'
    BY <1>0, <1>1 DEF TypeFiles, Numbered
  <2> QED
    BY <1>0, <1>1, <1>4, <2>1, MessagePosted DEF UploadSend
<1>5. ASSUME NEW p \in Paths, PostMessage(p) PROVE Messaged
  <2>1. made + 1 \in 0..MaxChanges /\ made + 1 <= made'
    BY <1>1, <1>5 DEF PostMessage, Change
  <2> QED
    BY <1>0, <1>1, <1>5, <2>1, MessagePosted DEF PostMessage
<1>6. CASE \E m \in DOMAIN msgs : EditMessage(m)
  BY <1>0, <1>6, MessageEdited
<1>7. CASE CleanupDelete
  BY <1>3, <1>7 DEF CleanupDelete
<1>8. ASSUME NEW p \in Paths, UploadDiscard(p) \/ DeleteRemote(p) PROVE Messaged
  BY <1>3, <1>8 DEF UploadDiscard, DeleteRemote
<1>9. CASE \E m \in DOMAIN msgs : DeleteMessage(m)
  BY <1>3, <1>9 DEF DeleteMessage
<1> QED
  BY <1>2, <1>4, <1>5, <1>6, <1>7, <1>8, <1>9, FileWriters

(***************************************************************************)
(* What a cycle holds in memory.                                           *)
(***************************************************************************)
LEMMA TreeWriters ==
  ASSUME [Next]_vars
  PROVE  /\ (UNCHANGED <<pc, stage, cur, known, seenLocal, seenRemote, plan, outcome, got>>) \/ EngineStep
         /\ (UNCHANGED seenLocal) \/ Rest \/ Prepare
         /\ (UNCHANGED seenRemote) \/ Rest \/ ScanRemote
         /\ (UNCHANGED known) \/ Rest \/ ScanRemote \/ Prepare
         /\ (UNCHANGED plan) \/ Rest \/ Prepare
<1>1. CASE EngineStep
  <2>1. CASE Prepare
    BY <1>1, <2>1 DEF Prepare
  <2>2. CASE Settle
    BY <1>1, <2>2 DEF Settle, cycle
  <2>3. CASE ~(Prepare \/ Settle)
    BY <1>1, <2>3, ScanFrame, RecordFrame, DecideFrame
       DEF EngineStep, cycle, Finish, Enter, StartCycle, Abandon, CleanupDelete, CleanupSave, ExecuteNothing, Fail,
           UploadSend, UploadDiscard, UploadJournal, UploadCaption, DownloadFetch, DownloadCheck, DownloadReplace,
           DownloadAside, DeleteCheck, DeleteLocal, DeleteRemote
  <2> QED
    BY <1>1, <2>1, <2>2, <2>3
<1>2. CASE UserStep
  BY <1>2, UserFrame
<1>3. CASE UNCHANGED vars
  BY <1>3 DEF vars, position, cycle
<1> QED
  BY <1>1, <1>2, <1>3 DEF Next

LEMMA PlanWriters ==
  ASSUME [Next]_vars
  PROVE  /\ \/ UNCHANGED outcome
            \/ Rest
            \/ \E p \in Paths, result \in {"ok", "failed"} : Finish(p, result)
         /\ \/ UNCHANGED got
            \/ Rest
            \/ \E p \in Paths : got' = [got EXCEPT ![p] = 0] \/ UploadSend(p) \/ DownloadFetch(p)
<1>1. CASE EngineStep
  <2>1. CASE Prepare
    BY <2>1 DEF Prepare
  <2>2. CASE Settle
    BY <2>2 DEF Settle, cycle
  <2>3. CASE ~(Prepare \/ Settle)
    BY <1>1, <2>3, ScanFrame, RecordFrame, DecideFrame
       DEF EngineStep, cycle, Enter, StartCycle, Abandon, CleanupDelete, CleanupSave, ExecuteNothing, Fail,
           UploadSend, UploadDiscard, UploadJournal, UploadCaption, DownloadFetch, DownloadCheck, DownloadReplace,
           DownloadAside, DeleteCheck, DeleteLocal, DeleteRemote
  <2> QED
    BY <1>1, <2>1, <2>2, <2>3
<1>2. CASE UserStep
  BY <1>2, UserFrame
<1>3. CASE UNCHANGED vars
  BY <1>3 DEF vars, cycle
<1> QED
  BY <1>1, <1>2, <1>3 DEF Next

(* A file is replaced by a download, or by what the change makes.          *)
LEMMA FileChanges ==
  ASSUME SyncInv, [Next]_vars
  PROVE  \/ UNCHANGED local
         \/ \E p \in Paths : /\ DownloadReplace(p) \/ DeleteLocal(p)
                             /\ local' \in {[local EXCEPT ![p] = v] : v \in 0..made}
                             /\ DownloadReplace(p) => local'[p] # 0
         \/ \E p \in Paths : /\ WriteFile(p) \/ RemoveFile(p)
                             /\ local' \in {[local EXCEPT ![p] = v] : v \in {0, made + 1}}
                             /\ made' = made + 1
<1>0. TypeFiles /\ PlanSound
  BY TypeParts DEF SyncInv
<1>1. ASSUME NEW p \in Paths, DownloadReplace(p)
      PROVE  /\ local' = [local EXCEPT ![p] = got[p]] /\ got[p] \in 1..made /\ local'[p] = got[p]
  <2>1. plan[p] = "download" /\ cur = p /\ pc = "execute" /\ local' = [local EXCEPT ![p] = got[p]]
    BY <1>1 DEF DownloadReplace, At
  <2>2. got[p] \in 1..made
    BY <1>0, <2>1 DEF PlanSound, OperationSound
  <2> QED
    BY <1>0, <2>1, <2>2 DEF TypeFiles
<1>2. ASSUME NEW p \in Paths, DeleteLocal(p) PROVE local' = [local EXCEPT ![p] = 0] /\ ~DownloadReplace(p)
  BY <1>2 DEF DeleteLocal, DownloadReplace, At
<1>3. ASSUME NEW p \in Paths, WriteFile(p) \/ RemoveFile(p)
      PROVE  /\ made' = made + 1
             /\ local' = [local EXCEPT ![p] = made + 1] \/ local' = [local EXCEPT ![p] = 0]
  BY <1>3 DEF WriteFile, RemoveFile, Change
<1>4. made \in Nat
  BY <1>0 DEF TypeFiles
<1> QED
  BY <1>1, <1>2, <1>3, <1>4, FileWriters

LEMMA FilesKept ==
  ASSUME SyncInv, [Next]_vars
  PROVE  /\ TypeFiles' /\ \A p \in Paths : local'[p] <= made'
         /\ aside' \subseteq 1..made'
<1>0. TypeOK /\ TypeFiles /\ Numbered /\ PlanSound
  BY TypeParts DEF SyncInv
<1>1. Made /\ made' \in 0..MaxChanges /\ made <= made' /\ made \in Nat /\ MaxChanges \in Nat
  BY <1>0, MadeGrows, SyncConstants DEF TypeFiles, SyncConstants
<1>2. Messaged
  BY <1>0, MessagesKept
<1>3. ASSUME NEW p \in Paths, NEW v \in 0..made', local' = [local EXCEPT ![p] = v]
      PROVE  local' \in [Paths -> 0..MaxChanges] /\ \A q \in Paths : local'[q] <= made'
  BY <1>0, <1>1, <1>3 DEF TypeFiles, Numbered
<1>4. local' \in [Paths -> 0..MaxChanges] /\ \A q \in Paths : local'[q] <= made'
  <2>1. CASE UNCHANGED local
    BY <1>0, <1>1, <2>1 DEF TypeFiles, Numbered
  <2>2. CASE \E p \in Paths : local' \in {[local EXCEPT ![p] = v] : v \in 0..made}
    BY <1>1, <1>3, <2>2
  <2>3. CASE \E p \in Paths : local' \in {[local EXCEPT ![p] = v] : v \in {0, made + 1}} /\ made' = made + 1
    BY <1>1, <1>3, <2>3
  <2> QED
    BY <2>1, <2>2, <2>3, FileChanges
<1>5. aside' \subseteq 1..made' /\ aside' \subseteq Versions
  <2>1. CASE UNCHANGED aside
    BY <1>0, <1>1, <2>1 DEF TypeFiles, Numbered, Versions
  <2>2. ASSUME NEW p \in Paths, DownloadAside(p) PROVE aside' \subseteq 1..made
    <3>1. plan[p] = "keep_both" /\ cur = p /\ pc = "execute" /\ aside' = aside \cup {got[p]}
      BY <2>2 DEF DownloadAside, At
    <3>2. got[p] \in 1..made
      BY <1>0, <3>1 DEF PlanSound, OperationSound
    <3> QED
      BY <1>0, <3>1, <3>2 DEF Numbered
  <2> QED
    BY <1>1, <2>1, <2>2, FileWriters DEF Versions
<1> QED
  BY <1>1, <1>2, <1>4, <1>5 DEF TypeFiles, Messaged

(***************************************************************************)
(* The Synced Tree and the cleanup journal.                                *)
(***************************************************************************)
RowSound(p, row) ==
    /\ row \in Row
    /\ row.mid # 0 => Own(row.mid, p)
    /\ row.rh \notin {Null, Blank} => row.rh[1] = row.mid

ItemSound(item) ==
    /\ item \in ItemType /\ item.old < item.new /\ item.new \in DOMAIN msgs
    /\ Dated(item.old, item.hash) /\ Accounted(item.old, item.hash)

SoundStore ==
    /\ rows \in [Paths -> Row] /\ policy \in Policies /\ cleanup \in Seq(ItemType)
    /\ \A p \in Paths : RowSound(p, rows[p])
    /\ \A i \in DOMAIN cleanup : ItemSound(cleanup[i])

LEMMA StoreParts == TypeStore /\ StoreSound <=> SoundStore
<1>1. ASSUME cleanup \in Seq(ItemType), NEW i \in DOMAIN cleanup PROVE cleanup[i] \in ItemType
  BY <1>1, LenProperties
<1>2. StoreSound <=> /\ \A p \in Paths : /\ rows[p].mid # 0 => Own(rows[p].mid, p)
                                         /\ rows[p].rh \notin {Null, Blank} => rows[p].rh[1] = rows[p].mid
                     /\ \A i \in DOMAIN cleanup : /\ cleanup[i].old < cleanup[i].new /\ cleanup[i].new \in DOMAIN msgs
                                                  /\ Dated(cleanup[i].old, cleanup[i].hash)
                                                  /\ Accounted(cleanup[i].old, cleanup[i].hash)
  BY DEF StoreSound
<1> QED
  BY <1>1, <1>2 DEF SoundStore, TypeStore, RowSound, ItemSound

LEMMA NoRowSound == ASSUME NEW p \in Paths PROVE RowSound(p, NoRow)
  BY SyncConstants DEF RowSound, NoRow, Row, Hash, Statuses, SyncConstants

LEMMA MarkedSound ==
  ASSUME NEW p \in Paths, NEW row, RowSound(p, row), NEW status \in Statuses
  PROVE  RowSound(p, Marked(row, status))
<1>1. CASE row = NoRow
  BY <1>1 DEF Marked
<1>2. CASE row # NoRow
  <2>1. row = [lh |-> row.lh, rh |-> row.rh, mid |-> row.mid, status |-> row.status]
    BY DEF RowSound, Row
  <2>2. Marked(row, status) = [lh |-> row.lh, rh |-> row.rh, mid |-> row.mid, status |-> status]
    BY <1>2, <2>1 DEF Marked
  <2> QED
    BY <2>2 DEF RowSound, Row
<1> QED
  BY <1>1, <1>2

LEMMA EntryOfRow ==
  ASSUME TypeTrees, ScanSound, NEW p \in Paths
  PROVE  /\ seenRemote[p] \in EntryType
         /\ seenRemote[p].mid = 0 => seenRemote[p].hash = Null
         /\ seenRemote[p].mid # 0 => Own(seenRemote[p].mid, p) /\ Dated(seenRemote[p].mid, seenRemote[p].hash)
         /\ seenRemote[p].hash # Null => seenRemote[p].hash[1] = seenRemote[p].mid
<1>1. seenRemote[p] \in EntryType
  BY DEF TypeTrees
<1>2. CASE seenRemote[p].mid = 0
  BY <1>1, <1>2 DEF ScanSound, NoEntry
<1>3. CASE seenRemote[p].mid # 0
  BY <1>1, <1>3 DEF ScanSound, Dated
<1> QED
  BY <1>1, <1>2, <1>3

LEMMA UpsertedSound ==
  ASSUME TypeTrees, ScanSound, NEW p \in Paths, NEW l \in 0..MaxChanges, NEW status \in Statuses
  PROVE  RowSound(p, Upserted(l, seenRemote[p], status))
<1>1. Upserted(l, seenRemote[p], status) =
        [lh |-> l, rh |-> seenRemote[p].hash, mid |-> seenRemote[p].mid, status |-> status]
  BY DEF Upserted
<1> QED
  BY <1>1, EntryOfRow DEF RowSound, Row, EntryType

LEMMA PostedSound ==
  ASSUME TypeFiles, NEW p \in Paths, NEW m, Own(m, p), NEW l \in 0..MaxChanges
  PROVE  /\ RowSound(p, Journaled(l, m))
         /\ RowSound(p, [lh |-> l, rh |-> Fingerprint(m), mid |-> m, status |-> "synced"])
<1>1. m \in 1..Len(msgs) /\ Len(msgs) <= MaxMessages /\ msgs[m] \in MessageType /\ Len(msgs) \in Nat /\ MaxMessages \in Nat
  BY DomainOfMsgs, SyncConstants DEF Own, TypeFiles, SyncConstants
<1>2. m \in Messages /\ m \in 0..MaxMessages
  BY <1>1 DEF Messages
<1>3. Fingerprint(m) \in Messages \X (0..MaxChanges) /\ Fingerprint(m)[1] = m
  BY <1>1, <1>2 DEF Fingerprint, MessageType
<1>4. Journaled(l, m) = [lh |-> l, rh |-> Blank, mid |-> m, status |-> "syncing"]
  BY DEF Journaled
<1> QED
  BY <1>2, <1>3, <1>4 DEF RowSound, Row, Hash, Statuses

(* What is recorded now is still sound after the step.                     *)
LEMMA RowsStay ==
  ASSUME TypeOK, Numbered, [Next]_vars, rows' \in [Paths -> Row], \A p \in Paths : RowSound(p, rows'[p])
  PROVE  \A p \in Paths : RowSound(p, rows[p])'
<1>1. Grows
  BY MessagesKept DEF Messaged
<1> QED
  BY <1>1 DEF RowSound, Own, Grows, Exists

LEMMA AccountedStays ==
  ASSUME TypeOK, Numbered, [Next]_vars, NEW m, NEW h
  PROVE  /\ Dated(m, h) => Dated(m, h)'
         /\ Dated(m, h) /\ Accounted(m, h) => Accounted(m, h)'
<1>1. Messaged /\ Grows
  BY MessagesKept DEF Messaged
<1>2. \A k \in DOMAIN msgs : msgs[k].edits \in Nat
  BY DomainOfMsgs, TypeParts DEF MessageType
<1>3. \A k \in DOMAIN msgs' : msgs'[k] \in MessageType
  BY <1>1, LenProperties DEF Messaged
<1>4. ASSUME Dated(m, h) PROVE Dated(m, h)'
  <2>1. m \in DOMAIN msgs /\ m \in DOMAIN msgs' /\ h \in {m} \X (0..MaxChanges) /\ h[2] \in 0..MaxChanges
    BY <1>1, <1>4 DEF Dated, Grows
  <2>2. msgs'[m].version # 0 => h[2] <= msgs'[m].edits
    <3>1. SUFFICES ASSUME msgs'[m].version # 0 PROVE h[2] <= msgs'[m].edits
      OBVIOUS
    <3>2. msgs[m].version # 0 /\ msgs[m].edits <= msgs'[m].edits /\ msgs[m].edits \in Nat /\ msgs'[m].edits \in Nat
      BY <1>1, <1>2, <1>3, <2>1, <3>1 DEF Grows, MessageType
    <3>3. h[2] <= msgs[m].edits
      BY <1>4, <3>2 DEF Dated, Exists
    <3> QED
      BY <2>1, <3>2, <3>3
  <2> QED
    BY <2>1, <2>2 DEF Dated, Exists
<1>5. ASSUME Dated(m, h), Accounted(m, h) PROVE Accounted(m, h)'
  <2> SUFFICES ASSUME msgs'[m].version # 0, <<m, msgs'[m].edits>> = h
               PROVE  msgs'[m].version \in waived' \cup recorded' \cup {0}
    BY DEF Accounted, Exists, Fingerprint, Covered
  <2>1. m \in DOMAIN msgs /\ msgs[m].version # 0 /\ h[2] = msgs'[m].edits /\ h[2] <= msgs[m].edits
        /\ msgs[m].edits <= msgs'[m].edits /\ msgs[m].edits \in Nat /\ msgs'[m].edits \in Nat /\ m \in DOMAIN msgs'
    BY <1>1, <1>2, <1>3, <1>5 DEF Dated, Exists, Grows, MessageType
  <2>2. msgs'[m] = msgs[m]
    BY <1>1, <2>1 DEF Grows
  <2>3. Covered(msgs[m].version)
    BY <1>5, <2>1, <2>2 DEF Accounted, Exists, Fingerprint
  <2>4. msgs[m].version \in Present'
    BY <2>1, <2>2 DEF Present
  <2> QED
    BY <2>2, <2>3, <2>4, CoveredKept
<1> QED
  BY <1>4, <1>5

LEMMA ItemsStay ==
  ASSUME TypeOK, Numbered, [Next]_vars, NEW item, ItemSound(item)
  PROVE  ItemSound(item)'
<1>1. Grows
  BY MessagesKept DEF Messaged
<1> QED
  BY <1>1, AccountedStays DEF ItemSound, Grows

(* The rows each step writes.                                              *)
LEMMA TreeSound ==
  ASSUME SyncInv, NEW p \in Paths
  PROVE  /\ RowSound(p, rows[p]) /\ RowSound(p, Tree[p]) /\ RowSound(p, Kept(p)) /\ RowSound(p, Conflicted(p))
         /\ local[p] \in 0..MaxChanges /\ seenLocal[p] \in 0..MaxChanges
<1>0. TypeTrees /\ ScanSound /\ TypeFiles /\ RowSound(p, rows[p])
  BY TypeParts, StoreParts DEF SyncInv, SoundStore
<1>1. local[p] \in 0..MaxChanges /\ seenLocal[p] \in 0..MaxChanges
  BY <1>0 DEF TypeFiles, TypeTrees
<1>2. \A status \in Statuses : RowSound(p, Upserted(local[p], seenRemote[p], status))
  BY <1>0, <1>1, UpsertedSound
<1>3. "synced" \in Statuses /\ "conflict" \in Statuses
  BY DEF Statuses
<1>4. RowSound(p, Tree[p])
  BY <1>0, <1>2, <1>3 DEF Tree
<1>5. RowSound(p, Kept(p))
  BY <1>4, NoRowSound DEF Kept
<1>6. RowSound(p, Conflicted(p))
  BY <1>2, <1>3, <1>5, MarkedSound DEF Conflicted
<1> QED
  BY <1>0, <1>1, <1>4, <1>5, <1>6

LEMMA RecordedSound ==
  ASSUME SyncInv, pc = "record", NEW p \in Paths, NEW readBack \in BOOLEAN
  PROVE  RowSound(p, Recorded(p, readBack))
<1>0. /\ TypeTrees /\ ScanSound /\ TypeFiles /\ TypePlan /\ OperationSound(p)
      /\ RowSound(p, rows[p]) /\ seenLocal[p] \in 0..MaxChanges
  BY TypeParts, TreeSound DEF SyncInv, PlanSound
<1>1. \A l \in 0..MaxChanges : \A status \in Statuses : RowSound(p, Upserted(l, seenRemote[p], status))
  BY <1>0, UpsertedSound
<1>2. \A status \in Statuses : RowSound(p, Marked(rows[p], status))
  BY <1>0, MarkedSound
<1>3. "synced" \in Statuses /\ "conflict" \in Statuses /\ "error" \in Statuses
  BY DEF Statuses
<1>4. CASE outcome[p] \in {"none", "failed"}
  BY <1>0, <1>1, <1>2, <1>3, <1>4 DEF Recorded
<1>5. CASE outcome[p] = "ok" /\ plan[p] = "upload"
  <2>1. Own(got[p], p)
    BY <1>0, <1>5 DEF OperationSound
  <2>2. RowSound(p, [lh |-> seenLocal[p], rh |-> Fingerprint(got[p]), mid |-> got[p], status |-> "synced"])
    BY <1>0, <2>1, PostedSound
  <2> QED
    BY <1>0, <1>5, <2>2 DEF Recorded
<1>6. CASE outcome[p] = "ok" /\ plan[p] = "download"
  <2>1. got[p] \in 0..MaxChanges
    BY <1>0, <1>6, SyncConstants DEF OperationSound, TypeFiles, SyncConstants
  <2> QED
    BY <1>1, <1>3, <1>6, <2>1 DEF Recorded
<1>7. CASE outcome[p] = "ok" /\ plan[p] \notin {"upload", "download"}
  BY <1>0, <1>1, <1>3, <1>7, NoRowSound DEF Recorded
<1>8. outcome[p] \in {"none", "ok", "failed"}
  BY <1>0 DEF TypePlan
<1> QED
  BY <1>4, <1>5, <1>6, <1>7, <1>8

LEMMA RowsWritten ==
  ASSUME SyncInv, [Next]_vars
  PROVE  rows' \in [Paths -> Row] /\ \A p \in Paths : RowSound(p, rows'[p])
<1>0. /\ TypeFiles /\ TypeStore /\ TypeTrees /\ ScanSound /\ PlanSound /\ rows \in [Paths -> Row]
      /\ \A p \in Paths : RowSound(p, rows[p])
  BY TypeParts, TreeSound DEF SyncInv, TypeStore
<1>1. SUFFICES /\ \E f : rows' = [p \in Paths |-> f[p]]
               /\ \A p \in Paths : RowSound(p, rows'[p])
  BY DEF RowSound
<1>2. CASE UNCHANGED rows
  BY <1>0, <1>2
<1>3. ASSUME NEW p \in Paths, NEW row, RowSound(p, row), rows' = [rows EXCEPT ![p] = row]
      PROVE  rows' = [q \in Paths |-> rows'[q]] /\ \A q \in Paths : RowSound(q, rows'[q])
  BY <1>0, <1>3
<1>4. CASE CleanupDecide
  <2>1. CASE UNCHANGED rows
    BY <1>0, <2>1
  <2>2. CASE rows' = [rows EXCEPT ![Head(cleanup).path] = Marked(@, "conflict")]
    <3>1. CASE Head(cleanup).path \in Paths
      <4>1. "conflict" \in Statuses
        BY DEF Statuses
      <4> QED
        BY <1>0, <1>3, <2>2, <3>1, <4>1, MarkedSound
    <3>2. CASE Head(cleanup).path \notin Paths
      <4>1. rows' = rows
        BY <1>0, <2>2, <3>2
      <4> QED
        BY <1>0, <4>1
    <3> QED
      BY <3>1, <3>2
  <2> QED
    BY <1>4, <2>1, <2>2 DEF CleanupDecide
<1>5. CASE Prepare
  <2>1. \/ rows' = [p \in Paths |-> Kept(p)]
        \/ rows' = [p \in Paths |-> IF p \in {q \in Paths : Ops[q] = "conflict"} THEN Conflicted(p) ELSE Kept(p)]
    BY <1>5 DEF Prepare
  <2>2. \A p \in Paths : RowSound(p, Kept(p)) /\ RowSound(p, Conflicted(p))
    BY TreeSound
  <2> QED
    BY <2>1, <2>2
<1>6. CASE Settle
  <2>1. PICK journaled \in SUBSET {p \in Paths : Uploaded(p)} :
          rows' = [p \in Paths |-> IF p \in journaled THEN Journaled(seenLocal[p], got[p]) ELSE rows[p]]
    BY <1>6 DEF Settle
  <2>2. ASSUME NEW p \in journaled PROVE RowSound(p, Journaled(seenLocal[p], got[p]))
    <3>1. p \in Paths /\ plan[p] = "upload" /\ outcome[p] = "ok" /\ OperationSound(p)
      BY <1>0, <1>6, SettleFrame, <2>1, <2>2 DEF Uploaded, PlanSound
    <3>2. Own(got[p], p) /\ seenLocal[p] \in 0..MaxChanges
      BY <1>0, <3>1 DEF OperationSound, TypeTrees
    <3> QED
      BY <1>0, <3>1, <3>2, PostedSound
  <2> QED
    BY <1>0, <2>1, <2>2
<1>7. CASE Record
  <2>1. PICK readBack \in BOOLEAN, written \in SUBSET Paths :
          rows' = [p \in Paths |-> IF p \in written THEN Recorded(p, readBack) ELSE rows[p]]
    BY <1>7 DEF Record
  <2>2. \A p \in Paths : RowSound(p, Recorded(p, readBack))
    BY <1>7, RecordFrame, RecordedSound
  <2> QED
    BY <1>0, <2>1, <2>2
<1>8. ASSUME NEW p \in Paths, UploadJournal(p)
      PROVE  (\E f : rows' = [q \in Paths |-> f[q]]) /\ \A q \in Paths : RowSound(q, rows'[q])
  <2>1. plan[p] = "upload" /\ cur = p /\ OperationSound(p)
    BY <1>0, <1>8 DEF UploadJournal, At, PlanSound
  <2>2. Own(got[p], p) /\ seenLocal[p] \in 0..MaxChanges
    BY <1>0, <2>1 DEF OperationSound, TypeTrees
  <2>3. RowSound(p, Journaled(seenLocal[p], got[p]))
    BY <1>0, <2>2, PostedSound
  <2> QED
    BY <1>0, <1>3, <1>8, <2>3 DEF UploadJournal
<1>9. ASSUME NEW p \in Paths, NEW resolution \in Resolutions, Resolve(p, resolution)
      PROVE  (\E f : rows' = [q \in Paths |-> f[q]]) /\ \A q \in Paths : RowSound(q, rows'[q])
  <2>1. rows' = [rows EXCEPT ![p] = [rows[p] EXCEPT !.status = resolution]] /\ rows[p] # NoRow
    BY <1>9 DEF Resolve, NoRow
  <2>2. resolution \in Statuses
    BY DEF Statuses
  <2>3. RowSound(p, [rows[p] EXCEPT !.status = resolution])
    BY <1>0, <2>1, <2>2, MarkedSound DEF Marked
  <2> QED
    BY <1>0, <1>3, <2>1, <2>3
<1>10. CASE \E chosen \in Policies : ReplacePair(chosen)
  BY <1>10, NoRowSound DEF ReplacePair
<1> QED
  BY <1>2, <1>4, <1>5, <1>6, <1>7, <1>8, <1>9, <1>10, StoreWriters

(* The items each step leaves in the journal.                              *)
LEMMA TailOfItems ==
  ASSUME NEW queue \in Seq(ItemType), queue # << >>, \A i \in DOMAIN queue : ItemSound(queue[i])
  PROVE  Tail(queue) \in Seq(ItemType) /\ \A i \in DOMAIN Tail(queue) : ItemSound(Tail(queue)[i])
<1>1. /\ Tail(queue) \in Seq(ItemType) /\ Len(Tail(queue)) = Len(queue) - 1 /\ Len(queue) \in Nat
      /\ \A i \in 1..Len(Tail(queue)) : Tail(queue)[i] = queue[i + 1]
  BY HeadTailProperties, LenProperties
<1>2. DOMAIN Tail(queue) = 1..Len(Tail(queue)) /\ DOMAIN queue = 1..Len(queue)
  BY <1>1, LenProperties
<1> QED
  BY <1>1, <1>2

LEMMA QueueWritten ==
  ASSUME SyncInv, [Next]_vars
  PROVE  cleanup' \in Seq(ItemType) /\ \A i \in DOMAIN cleanup' : ItemSound(cleanup'[i])
<1>0. /\ TypeFiles /\ TypeStore /\ TypeTrees /\ ScanSound /\ PlanSound /\ PositionSound
      /\ cleanup \in Seq(ItemType) /\ \A i \in DOMAIN cleanup : ItemSound(cleanup[i])
  BY TypeParts, StoreParts DEF SyncInv, SoundStore
<1>1. CASE UNCHANGED cleanup
  BY <1>0, <1>1
<1>2. CASE CleanupDecide \/ CleanupSave
  <2>1. cleanup' \in {cleanup, Tail(cleanup)} /\ pc \in {"retry", "tidy"}
    BY <1>2, DecideFrame DEF CleanupSave
  <2>2. cleanup # << >>
    BY <1>0, <2>1 DEF PositionSound
  <2> QED
    BY <1>0, <2>1, <2>2, TailOfItems
<1>3. CASE \E chosen \in Policies : ReplacePair(chosen)
  <2>1. cleanup' = << >>
    BY <1>3 DEF ReplacePair
  <2> QED
    BY <2>1
<1>4. CASE Settle
  <2> DEFINE Item(p) == [path |-> p, old |-> seenRemote[p].mid, new |-> got[p], hash |-> seenRemote[p].hash]
             superseding == {p \in {q \in Paths : Uploaded(q)} : seenRemote[p].mid \notin {0, got[p]}}
  <2>1. PICK saved \in SUBSET superseding : cleanup' = cleanup \o SetToSeq({Item(p) : p \in saved} \ ToSet(cleanup))
    BY <1>4 DEF Settle
  <2> DEFINE New == {Item(p) : p \in saved} \ ToSet(cleanup)
  <2>2. ASSUME NEW p \in saved PROVE ItemSound(Item(p))
    <3>1. p \in Paths /\ plan[p] = "upload" /\ outcome[p] = "ok" /\ OperationSound(p) /\ seenRemote[p].mid # 0
      BY <1>0, <1>4, SettleFrame, <2>1, <2>2 DEF Uploaded, PlanSound
    <3>2. /\ got[p] > seenRemote[p].mid /\ Own(got[p], p) /\ got[p] \in DOMAIN msgs
          /\ Accounted(seenRemote[p].mid, seenRemote[p].hash)
      BY <3>1 DEF OperationSound, Own
    <3>3. seenRemote[p] \in EntryType /\ Dated(seenRemote[p].mid, seenRemote[p].hash) /\ seenRemote[p].mid \in DOMAIN msgs
      BY <1>0, <3>1, EntryOfRow DEF Dated
    <3>4. got[p] \in Messages /\ seenRemote[p].mid \in Messages
      BY <1>0, <3>2, <3>3, DomainOfMsgs, SyncConstants DEF TypeFiles, SyncConstants, Messages
    <3>5. Item(p) \in ItemType
      BY <3>1, <3>3, <3>4 DEF ItemType, EntryType
    <3>6. Item(p).old < Item(p).new
      BY <3>2, <3>4 DEF Messages
    <3> QED
      BY <3>2, <3>3, <3>5, <3>6 DEF ItemSound
  <2>3. IsFiniteSet(New)
    <3>1. IsFiniteSet(saved)
      BY <2>1, FS_Subset, SyncConstants DEF SyncConstants
    <3>2. IsFiniteSet({Item(p) : p \in saved})
      <4> DEFINE f == [p \in saved |-> Item(p)]
                 Items == {Item(p) : p \in saved}
      <4> HIDE DEF Item
      <4>1. f \in Surjection(saved, Items)
        BY DEF Surjection
      <4> QED
        BY <3>1, <4>1, FS_Surjection
    <3> QED
      BY <3>2, FS_Difference
  <2>4. SetToSeq(New) \in Seq(New) /\ \A item \in New : ItemSound(item) /\ item \in ItemType
    BY <2>2, <2>3, SetAsSequence DEF ItemSound
  <2>5. SetToSeq(New) \in Seq(ItemType)
    BY <2>4, SeqMonotonic
  <2>6. \A i \in 1..Len(SetToSeq(New)) : ItemSound(SetToSeq(New)[i])
    BY <2>4, ElementOfSeq
  <2> DEFINE more == SetToSeq(New)
  <2>7. /\ cleanup' \in Seq(ItemType) /\ Len(cleanup') = Len(cleanup) + Len(more)
        /\ \A i \in 1..(Len(cleanup) + Len(more)) :
             cleanup'[i] = IF i <= Len(cleanup) THEN cleanup[i] ELSE more[i - Len(cleanup)]
    BY <1>0, <2>1, <2>5, ConcatProperties
  <2>8. /\ DOMAIN cleanup = 1..Len(cleanup) /\ Len(cleanup) \in Nat /\ Len(more) \in Nat
        /\ DOMAIN cleanup' = 1..(Len(cleanup) + Len(more))
    BY <1>0, <2>5, <2>7, LenProperties
  <2> HIDE DEF more
  <2>9. \A i \in 1..(Len(cleanup) + Len(more)) : ItemSound(cleanup'[i])
    <3>1. \A i \in 1..Len(more) : ItemSound(more[i])
      BY <2>6 DEF more
    <3> QED
      BY <1>0, <2>7, <2>8, <3>1
  <2> QED
    BY <2>7, <2>8, <2>9
<1> QED
  BY <1>1, <1>2, <1>3, <1>4, StoreWriters

LEMMA StoreKept == ASSUME SyncInv, [Next]_vars PROVE TypeStore' /\ StoreSound'
<1>0. TypeOK /\ Numbered /\ TypeStore
  BY TypeParts DEF SyncInv
<1>1. rows' \in [Paths -> Row] /\ \A p \in Paths : RowSound(p, rows[p])'
  BY <1>0, RowsWritten, RowsStay
<1>2. cleanup' \in Seq(ItemType) /\ \A i \in DOMAIN cleanup' : ItemSound(cleanup[i])'
  <2>1. \A i \in DOMAIN cleanup' : ItemSound(cleanup'[i])
    BY QueueWritten
  <2>2. ASSUME NEW item, ItemSound(item) PROVE ItemSound(item)'
    BY <1>0, <2>2, ItemsStay
  <2> QED
    BY <2>1, <2>2, QueueWritten DEF ItemSound
<1>3. policy' \in Policies
  BY <1>0, StoreWriters DEF TypeStore, UpdatePair, ReplacePair
<1> QED
  <2>1. SoundStore'
    BY <1>1, <1>2, <1>3 DEF SoundStore
  <2> QED
    BY <2>1, StoreParts, PTL

(***************************************************************************)
(* The trees.                                                              *)
(***************************************************************************)
(* The path recorded for a message is the one it was posted for.           *)
LEMMA PathIsPosted ==
  ASSUME \A q \in Paths : rows[q].mid # 0 => Own(rows[q].mid, q), NEW m \in DOMAIN msgs, Exists(m), m # 0
  PROVE  PathOf(m, rows) = msgs[m].path
<1>1. CASE \E q \in Paths : rows[q].mid = m
  <2>1. PICK q \in Paths : q = (CHOOSE p \in Paths : rows[p].mid = m) /\ rows[q].mid = m
    BY <1>1
  <2> QED
    BY <1>1, <2>1 DEF PathOf, Own
<1>2. CASE ~\E q \in Paths : rows[q].mid = m
  BY <1>2 DEF PathOf
<1> QED
  BY <1>1, <1>2

LEMMA Scanned ==
  ASSUME SyncInv, ScanRemote
  PROVE  seenRemote' \in [Paths -> EntryType] /\
         \A p \in Paths : \/ seenRemote'[p] = NoEntry
                          \/ seenRemote'[p].mid # 0 /\ Own(seenRemote'[p].mid, p)
                             /\ Dated(seenRemote'[p].mid, seenRemote'[p].hash)
<1>0. TypeFiles /\ StoreSound /\ MaxChanges \in Nat /\ MaxMessages \in Nat
  BY TypeParts, SyncConstants DEF SyncInv, SyncConstants
<1> DEFINE Seen(p) == CHOOSE m \in AtPath(p, rows) : TRUE
           Entry(p) == IF AtPath(p, rows) = {} THEN NoEntry
                       ELSE [mid |-> Seen(p), hash |-> Fingerprint(Seen(p)), size |-> SizeOf(msgs[Seen(p)].version)]
<1>1. seenRemote' = [p \in Paths |-> Entry(p)]
  BY DEF ScanRemote
<1>2. NoEntry \in EntryType /\ NoEntry.mid = 0
  BY <1>0 DEF NoEntry, EntryType, Hash
<1>3. ASSUME NEW p \in Paths, AtPath(p, rows) # {}
      PROVE  /\ Entry(p) \in EntryType /\ Entry(p).mid # 0
             /\ Own(Entry(p).mid, p) /\ Dated(Entry(p).mid, Entry(p).hash)
  <2>1. PICK m : m = Seen(p) /\ m \in AtPath(p, rows)
    BY <1>3
  <2>2. m \in DOMAIN msgs /\ Exists(m) /\ PathOf(m, rows) = p
    BY <2>1 DEF AtPath
  <2>3. m \in 1..Len(msgs) /\ Len(msgs) \in Nat /\ Len(msgs) <= MaxMessages /\ msgs[m] \in MessageType
    BY <1>0, <2>2, DomainOfMsgs DEF TypeFiles
  <2>4. m \in Messages /\ m # 0 /\ m \in 0..MaxMessages
    BY <1>0, <2>3 DEF Messages
  <2>5. msgs[m].path = p
    BY <1>0, <2>2, <2>4, PathIsPosted DEF StoreSound
  <2>6. Entry(p) = [mid |-> m, hash |-> Fingerprint(m), size |-> SizeOf(msgs[m].version)]
    BY <1>3, <2>1
  <2>7. msgs[m].edits \in 0..MaxChanges /\ msgs[m].version \in Nat /\ Fingerprint(m) = <<m, msgs[m].edits>>
    BY <2>3 DEF MessageType, Fingerprint
  <2>8. Fingerprint(m) \in {m} \X (0..MaxChanges) /\ Fingerprint(m) \in Messages \X (0..MaxChanges)
        /\ Fingerprint(m)[2] <= msgs[m].edits
    BY <2>4, <2>7
  <2>9. SizeOf(msgs[m].version) \in 0..1
    BY <2>7 DEF SizeOf
  <2>10. Entry(p) \in EntryType
    <3>1. Fingerprint(m) \in Hash
      BY <2>8 DEF Hash
    <3>2. [mid |-> m, hash |-> Fingerprint(m), size |-> SizeOf(msgs[m].version)] \in EntryType
      BY <2>4, <2>9, <3>1 DEF EntryType
    <3> QED
      BY <2>6, <3>2
  <2> HIDE DEF Entry
  <2> QED
    BY <2>2, <2>4, <2>5, <2>6, <2>8, <2>10 DEF Own, Dated
<1>4. \A p \in Paths : AtPath(p, rows) = {} => Entry(p) = NoEntry
  OBVIOUS
<1> HIDE DEF Entry
<1> QED
  BY <1>1, <1>2, <1>3, <1>4

LEMMA RestHolds ==
  ASSUME Rest
  PROVE  /\ pc' = "idle" /\ stage' = "none" /\ cur' = NoPath /\ known' = {}
         /\ seenLocal' = [p \in Paths |-> 0] /\ seenRemote' = [p \in Paths |-> NoEntry]
         /\ plan' = [p \in Paths |-> "none"] /\ outcome' = [p \in Paths |-> "none"] /\ got' = [p \in Paths |-> 0]
  BY DEF Rest

LEMMA TreesKept ==
  ASSUME SyncInv, [Next]_vars
  PROVE  TypeTrees' /\ ScanSound' /\ \A p \in Paths : seenLocal'[p] <= made'
<1>0. TypeOK /\ TypeFiles /\ TypeTrees /\ ScanSound /\ Numbered
  BY TypeParts DEF SyncInv
<1>1. made \in Nat /\ made' \in Nat /\ made <= made' /\ MaxChanges \in Nat /\ MaxMessages \in Nat
  BY <1>0, MadeGrows, SyncConstants DEF TypeFiles, SyncConstants
<1>2. known' \subseteq Paths
  <2>1. CASE Prepare
    BY <2>1, RestHolds, <1>0 DEF Prepare, TypeTrees
  <2>2. CASE ScanRemote
    BY <2>2 DEF ScanRemote
  <2> QED
    BY <1>0, <2>1, <2>2, TreeWriters, RestHolds DEF TypeTrees
<1>3. seenLocal' \in [Paths -> 0..MaxChanges] /\ \A p \in Paths : seenLocal'[p] <= made'
  <2>1. UNCHANGED seenLocal \/ seenLocal' = [p \in Paths |-> 0] \/ seenLocal' = local
    <3>1. CASE Prepare
      BY <3>1, RestHolds DEF Prepare
    <3> QED
      BY <3>1, TreeWriters, RestHolds
  <2> QED
    BY <1>0, <1>1, <2>1 DEF TypeTrees, TypeFiles, Numbered
<1>4. NoEntry \in EntryType /\ NoEntry.mid = 0
  BY <1>1 DEF NoEntry, EntryType, Hash
<1>5. seenRemote' \in [Paths -> EntryType] /\
      \A p \in Paths : \/ seenRemote'[p] = NoEntry
                       \/ seenRemote'[p].mid # 0 /\ Own(seenRemote'[p].mid, p)
                          /\ Dated(seenRemote'[p].mid, seenRemote'[p].hash)
  <2>1. CASE UNCHANGED seenRemote
    BY <1>0, <2>1 DEF TypeTrees, ScanSound
  <2>2. CASE Rest
    BY <1>4, <2>2, RestHolds
  <2>3. CASE ScanRemote
    BY <2>3, Scanned DEF SyncInv
  <2> QED
    BY <2>1, <2>2, <2>3, TreeWriters
<1>6. ASSUME NEW m, NEW p, Own(m, p) PROVE Own(m, p)'
  BY <1>0, <1>6, MessagesKept DEF Messaged, Grows, Own, Exists
<1>7. ASSUME NEW m, NEW h, Dated(m, h) PROVE Dated(m, h)'
  BY <1>0, <1>7, AccountedStays
<1>8. ScanSound'
  <2>1. ASSUME NEW p \in Paths, seenRemote'[p].mid # 0
        PROVE  Own(seenRemote[p].mid, p)' /\ Dated(seenRemote[p].mid, seenRemote[p].hash)'
    <3>1. PICK m, h : m = seenRemote'[p].mid /\ h = seenRemote'[p].hash
      OBVIOUS
    <3>2. Own(m, p) /\ Dated(m, h)
      BY <1>4, <1>5, <2>1, <3>1
    <3>3. Own(m, p)' /\ Dated(m, h)'
      BY <1>6, <1>7, <3>2
    <3> QED
      BY <3>1, <3>3 DEF Own, Dated, Exists
  <2>2. \A p \in Paths : seenRemote'[p].mid = 0 => seenRemote'[p] = NoEntry
    BY <1>5
  <2> QED
    BY <2>1, <2>2 DEF ScanSound
<1> QED
  BY <1>2, <1>3, <1>5, <1>8 DEF TypeTrees

(***************************************************************************)
(* The planner: what an operation says of the copies and of their row.     *)
(***************************************************************************)
Reconciled == {"synced", "syncing", "error"}

LEMMA PlanPathSays ==
  ASSUME NEW l, NEW r, NEW s, s.status \in Statuses, NEW op, op = PlanPath(l, r, s)
  PROVE  /\ op \in Operations
         /\ l = 0 /\ r.mid = 0 => op = "none"
         /\ op = "upload" => l # 0 /\ (r.mid = 0 \/ s.status = "keep_local" \/ (s.status \in Reconciled /\ s.rh = r.hash))
         /\ op = "download" => r.mid # 0 /\ (l = 0 \/ s.status = "keep_remote" \/ (s.status \in Reconciled /\ s.lh = l))
         /\ op = "keep_both" => r.mid # 0
         /\ op = "delete_local" => l # 0 /\ r.mid = 0 /\ s.status \in Reconciled /\ s.lh = l
         /\ op = "delete_remote" => l = 0 /\ r.mid # 0 /\ s.status \in Reconciled /\ s.rh = r.hash
         /\ s.status = "conflict" => op \in {"none", "conflict"}
  BY DEF PlanPath, LocalChanged, Operations, Statuses, Resolutions, Reconciled

LEMMA DirectionSays ==
  ASSUME NEW l, NEW r, NEW s, NEW op, NEW directed, directed = ForDirection(op, l, r, s)
  PROVE  /\ directed = op \/ directed \in {"upload", "download", "skip"}
         /\ s.status \in Resolutions => directed = op
         /\ s.status \notin Resolutions =>
              /\ directed = "upload" => /\ policy.direction # "download_only"
                                        /\ op = "upload" \/ op = "delete_local" \/ (op = "conflict" /\ r.mid = 0)
                                        /\ op = "conflict" => policy.direction = "upload_only"
              /\ directed = "download" => /\ policy.direction # "upload_only"
                                          /\ op = "download" \/ op = "delete_remote" \/ (op = "conflict" /\ l = 0 /\ r.mid # 0)
                                          /\ op = "conflict" => policy.direction = "download_only"
              /\ directed = "delete_remote" => policy.direction # "download_only"
              /\ directed = "delete_local" => policy.direction # "upload_only"
              /\ op \notin {"download", "upload"} => directed # "skip" \/ op = "skip"
<1>1. CASE s.status \in Resolutions
  BY <1>1 DEF ForDirection
<1>2. CASE s.status \notin Resolutions
  <2>1. CASE policy.direction = "upload_only"
    BY <1>2, <2>1 DEF ForDirection
  <2>2. CASE policy.direction = "download_only"
    BY <1>2, <2>2 DEF ForDirection
  <2>3. CASE policy.direction \notin {"upload_only", "download_only"}
    BY <1>2, <2>3 DEF ForDirection
  <2> QED
    BY <2>1, <2>2, <2>3
<1> QED
  BY <1>1, <1>2

LEMMA PolicySays ==
  ASSUME NEW l, NEW r, NEW s, s.status \in Statuses, NEW op, op = ForPolicy(PlanPath(l, r, s), l, r, s)
  PROVE  /\ op \in Operations
         /\ l = 0 /\ r.mid = 0 => op = "none"
         /\ op = "upload" => /\ policy.direction # "download_only" \/ s.status \in Resolutions
                             /\ r.mid = 0 \/ s.status = "keep_local" \/ (s.status \in Reconciled /\ s.rh = r.hash)
         /\ op = "download" => /\ policy.direction # "upload_only" \/ s.status \in Resolutions
                               /\ l = 0 \/ s.status = "keep_remote" \/ (s.status \in Reconciled /\ s.lh = l)
                               /\ r.mid # 0
         /\ op = "keep_both" => r.mid # 0
         /\ op = "delete_local" => /\ policy.propagate_deletions /\ policy.direction # "upload_only"
                                   /\ s.status \in Reconciled /\ s.lh = l
         /\ op = "delete_remote" => /\ policy.propagate_deletions /\ policy.direction # "download_only"
                                    /\ r.mid # 0 /\ s.status \in Reconciled /\ s.rh = r.hash
         /\ s.status = "conflict" =>
              \/ op \in {"none", "conflict"}
              \/ op = "upload" /\ policy.direction = "upload_only" /\ r.mid = 0
              \/ op = "download" /\ policy.direction = "download_only" /\ l = 0
<1>1. PICK planned : planned = PlanPath(l, r, s)
  OBVIOUS
<1>2. PICK directed : directed = ForDirection(planned, l, r, s)
  OBVIOUS
<1>3. op = IF IsDelete(directed) /\ ~policy.propagate_deletions THEN "skip" ELSE directed
  BY <1>1, <1>2 DEF ForPolicy
<1>4. /\ planned \in Operations
      /\ l = 0 /\ r.mid = 0 => planned = "none"
      /\ planned = "upload" => r.mid = 0 \/ s.status = "keep_local" \/ (s.status \in Reconciled /\ s.rh = r.hash)
      /\ planned = "keep_both" => r.mid # 0
      /\ planned = "download" => r.mid # 0
      /\ planned = "download" => l = 0 \/ s.status = "keep_remote" \/ (s.status \in Reconciled /\ s.lh = l)
      /\ planned = "delete_local" => r.mid = 0 /\ s.status \in Reconciled /\ s.lh = l
      /\ planned = "delete_remote" => l = 0 /\ r.mid # 0 /\ s.status \in Reconciled /\ s.rh = r.hash
      /\ s.status = "conflict" => planned \in {"none", "conflict"}
  BY <1>1, PlanPathSays
<1>5. /\ directed = planned \/ directed \in {"upload", "download", "skip"}
      /\ s.status \in Resolutions => directed = planned
      /\ s.status \notin Resolutions =>
           /\ directed = "upload" =>
                /\ policy.direction # "download_only"
                /\ planned = "upload" \/ planned = "delete_local" \/ (planned = "conflict" /\ r.mid = 0)
                /\ planned = "conflict" => policy.direction = "upload_only"
           /\ directed = "download" =>
                /\ policy.direction # "upload_only"
                /\ planned = "download" \/ planned = "delete_remote" \/ (planned = "conflict" /\ l = 0 /\ r.mid # 0)
                /\ planned = "conflict" => policy.direction = "download_only"
           /\ directed = "delete_remote" => policy.direction # "download_only"
           /\ directed = "delete_local" => policy.direction # "upload_only"
           /\ planned \notin {"download", "upload"} => directed # "skip" \/ planned = "skip"
  BY <1>2, DirectionSays
<1>6. Reconciled \cap Resolutions = {} /\ "conflict" \notin Resolutions \cup Reconciled
  BY DEF Reconciled, Resolutions
<1>7. op \in Operations
  BY <1>3, <1>4, <1>5 DEF Operations
<1>8. op \in {directed, "skip"} /\ (op \in {"delete_local", "delete_remote"} => policy.propagate_deletions)
  BY <1>3 DEF IsDelete
<1>9. s.status = "conflict" => op = directed
  BY <1>3, <1>4, <1>5, <1>6 DEF IsDelete
<1>12. l = 0 /\ r.mid = 0 => op = "none"
  BY <1>3, <1>4, <1>5 DEF IsDelete
<1> HIDE DEF Reconciled, Resolutions
<1>10. CASE s.status \in Resolutions
  BY <1>4, <1>5, <1>6, <1>7, <1>8, <1>10, <1>12
<1>11. CASE s.status \notin Resolutions
  BY <1>4, <1>5, <1>6, <1>7, <1>8, <1>9, <1>11, <1>12
<1> QED
  BY <1>10, <1>11

(***************************************************************************)
(* Where the engine is.                                                    *)
(***************************************************************************)
LEMMA OpsPlanned ==
  ASSUME SyncInv, NEW p \in Paths
  PROVE  Ops[p] \in Operations /\ Ops[p] = ForPolicy(PlanPath(local[p], seenRemote[p], Tree[p]), local[p], seenRemote[p], Tree[p])
         /\ Tree[p].status \in Statuses
<1>1. Tree[p].status \in Statuses
  BY TreeSound DEF RowSound, Row
<1>2. Ops[p] = ForPolicy(PlanPath(local[p], seenRemote[p], Tree[p]), local[p], seenRemote[p], Tree[p])
  BY DEF Ops
<1> QED
  BY <1>1, <1>2, PolicySays

(* A cycle that is prepared starts to execute what is left of the plan, or *)
(* it is over.                                                             *)
LEMMA PrepareEnds ==
  ASSUME SyncInv, Prepare
  PROVE  \/ Rest
         \/ /\ seenLocal' = local /\ pc' = "execute" /\ UNCHANGED <<stage, cur, seenRemote, outcome, got>>
            /\ plan' \in [Paths -> Operations] /\ \A p \in Paths : plan'[p] \in {"none", Ops[p]}
            /\ \A p \in Paths : rows'[p] = IF Ops[p] = "conflict" THEN Conflicted(p) ELSE Kept(p)
<1> DEFINE remaining == [p \in Paths |-> IF Settled(p) THEN "none" ELSE Ops[p]]
<1>1. remaining \in [Paths -> Operations] /\ \A p \in Paths : remaining[p] \in {"none", Ops[p]}
  BY OpsPlanned DEF Operations
<1>2. CASE Rest
  BY <1>2
<1>3. CASE ~Rest
  <2>1. /\ seenLocal' = local /\ pc' = "execute" /\ UNCHANGED <<stage, cur, seenRemote, outcome, got>>
        /\ plan' = remaining
        /\ rows' = [p \in Paths |-> IF p \in {q \in Paths : Ops[q] = "conflict"} THEN Conflicted(p) ELSE Kept(p)]
    BY <1>3 DEF Prepare
  <2> QED
    BY <1>1, <2>1
<1> QED
  BY <1>2, <1>3

LEMMA PlanTyped == ASSUME SyncInv, [Next]_vars PROVE TypePlan'
<1>0. TypeFiles /\ TypeTrees /\ TypePlan /\ ScanSound
  BY TypeParts DEF SyncInv
<1>1. plan' \in [Paths -> Operations]
  <2>1. CASE Rest
    BY <2>1, RestHolds DEF Operations
  <2> QED
    BY <1>0, <2>1, TreeWriters, PrepareEnds DEF TypePlan
<1>2. outcome' \in [Paths -> {"none", "ok", "failed"}]
  <2>1. CASE Rest
    BY <2>1, RestHolds
  <2>2. CASE \E p \in Paths, result \in {"ok", "failed"} : Finish(p, result)
    BY <1>0, <2>2 DEF Finish, TypePlan
  <2> QED
    BY <1>0, <2>1, <2>2, PlanWriters DEF TypePlan
<1>3. got' \in [Paths -> Nat]
  <2>1. CASE Rest
    BY <2>1, RestHolds
  <2>2. CASE \E p \in Paths : got' = [got EXCEPT ![p] = 0]
    BY <1>0, <2>2 DEF TypePlan
  <2>3. CASE \E p \in Paths : UploadSend(p)
    BY <1>0, <2>3, DomainOfMsgs DEF UploadSend, TypePlan
  <2>4. CASE \E p \in Paths : DownloadFetch(p)
    <3>1. PICK p \in Paths : DownloadFetch(p)
      BY <2>4
    <3>2. seenRemote[p].mid \in DOMAIN msgs
      <4>1. pc = "execute" /\ plan[p] \in {"download", "keep_both"}
        BY <3>1 DEF DownloadFetch, Pending
      <4>2. seenRemote[p].mid # 0
        BY <4>1 DEF SyncInv, PlanSound, OperationSound
      <4> QED
        BY <1>0, <4>2, EntryOfRow DEF Own
    <3>3. msgs[seenRemote[p].mid].version \in Nat
      BY <1>0, <3>2, DomainOfMsgs DEF MessageType
    <3> QED
      BY <1>0, <3>1, <3>3 DEF DownloadFetch, TypePlan
  <2> QED
    BY <1>0, <2>1, <2>2, <2>3, <2>4, PlanWriters DEF TypePlan
<1> QED
  BY <1>1, <1>2, <1>3 DEF TypePlan

(* The steps of the executor, one path at a time.                          *)
PathStep(p) ==
    \/ ExecuteNothing(p) \/ Fail(p)
    \/ UploadSend(p) \/ UploadDiscard(p) \/ UploadJournal(p) \/ UploadCaption(p)
    \/ DownloadFetch(p) \/ DownloadCheck(p) \/ DownloadReplace(p) \/ DownloadAside(p)
    \/ DeleteCheck(p) \/ DeleteLocal(p) \/ DeleteRemote(p)

LEMMA PathSteps ==
  ASSUME SyncInv, NEW p \in Paths, PathStep(p)
  PROVE  /\ pc = "execute" /\ pc' = "execute" /\ UNCHANGED <<known, seenLocal, seenRemote, plan, policy, cleanup, made>>
         /\ outcome[p] = "none" /\ cur \in {p, NoPath} /\ (stage = "none" => cur = NoPath) /\ EngineHistory
         /\ \/ Finish(p, "ok") \/ Finish(p, "failed")
            \/ Enter(p, "sent") /\ UploadSend(p)
            \/ Enter(p, "journaled") /\ UploadJournal(p)
            \/ Enter(p, "fetched") /\ DownloadFetch(p)
            \/ Enter(p, "checked") /\ (DownloadCheck(p) \/ DeleteCheck(p))
<1>0. PositionSound /\ TypePosition /\ NoPath \notin Paths
  BY TypeParts, SyncConstants DEF SyncInv, SyncConstants
<1>1. /\ stage = "none" => cur = NoPath
      /\ pc = "execute" /\ stage # "none" => cur # NoPath /\ outcome[cur] = "none"
  BY <1>0 DEF PositionSound
<1>2. pc = "execute" /\ (Pending(p) \/ cur = p)
  BY DEF PathStep, ExecuteNothing, Fail, UploadSend, UploadDiscard, UploadJournal, UploadCaption, DownloadFetch,
     DownloadCheck, DownloadReplace, DownloadAside, DeleteCheck, DeleteLocal, DeleteRemote, At, Pending
<1>3. outcome[p] = "none" /\ cur \in {p, NoPath}
  BY <1>0, <1>1, <1>2 DEF Pending
<1>4. \/ Finish(p, "ok") \/ Finish(p, "failed")
      \/ Enter(p, "sent") /\ UploadSend(p)
      \/ Enter(p, "journaled") /\ UploadJournal(p)
      \/ Enter(p, "fetched") /\ DownloadFetch(p)
      \/ Enter(p, "checked") /\ (DownloadCheck(p) \/ DeleteCheck(p))
  BY DEF PathStep, ExecuteNothing, Fail, UploadSend, UploadDiscard, UploadJournal, UploadCaption, DownloadFetch,
     DownloadCheck, DownloadReplace, DownloadAside, DeleteCheck, DeleteLocal, DeleteRemote
<1>5. UNCHANGED <<pc, known, seenLocal, seenRemote, plan>>
  BY <1>4 DEF Finish, Enter
<1>6. UNCHANGED <<policy, cleanup, made>> /\ EngineHistory
  BY DEF PathStep, ExecuteNothing, Fail, UploadSend, UploadDiscard, UploadJournal, UploadCaption, DownloadFetch,
     DownloadCheck, DownloadReplace, DownloadAside, DeleteCheck, DeleteLocal, DeleteRemote, store
<1> QED
  BY <1>1, <1>2, <1>3, <1>4, <1>5, <1>6

LEMMA PositionKept == ASSUME SyncInv, [Next]_vars PROVE TypePosition' /\ PositionSound'
<1>0. PositionSound /\ TypePosition /\ TypePlan /\ TypeStore /\ NoPath \notin Paths
  BY TypeParts, SyncConstants DEF SyncInv, SyncConstants
<1>1. CASE Rest
  BY <1>1, RestHolds DEF PositionSound, TypePosition
<1>2. CASE UNCHANGED <<pc, stage, cur, plan, outcome>> /\ (UNCHANGED cleanup \/ pc = "idle")
  BY <1>0, <1>2 DEF PositionSound, TypePosition
<1>3. CASE UserStep \/ UNCHANGED vars
  <2>1. UNCHANGED cleanup \/ pc = "idle"
    BY <1>3 DEF UserStep, vars, store, WriteFile, RemoveFile, PostMessage, EditMessage, DeleteMessage, Resolve,
       UpdatePair, ReplacePair
  <2>2. UNCHANGED <<pc, stage, cur, plan, outcome>>
    BY <1>3, UserFrame DEF vars, position, cycle
  <2> QED
    BY <1>2, <2>1, <2>2
<1>4. CASE StartCycle
  BY <1>0, <1>4 DEF StartCycle, AfterCleanup, store, cycle, PositionSound, TypePosition
<1>5. CASE CleanupDecide
  <2>1. CASE UNCHANGED <<pc, cleanup, cur, cycle>> /\ stage' = "checked"
    BY <1>0, <1>5, <2>1, DecideFrame DEF cycle, PositionSound, TypePosition
  <2>2. CASE UNCHANGED <<stage, cur, cycle>> /\ pc' = AfterCleanup(pc, cleanup')
    BY <1>0, <1>5, <2>2, DecideFrame DEF cycle, AfterCleanup, PositionSound, TypePosition
  <2> QED
    BY <1>1, <1>5, <2>1, <2>2 DEF CleanupDecide
<1>6. CASE CleanupDelete
  BY <1>0, <1>6 DEF CleanupDelete, store, cycle, PositionSound, TypePosition
<1>7. CASE CleanupSave
  BY <1>0, <1>7 DEF CleanupSave, AfterCleanup, cycle, PositionSound, TypePosition
<1>8. CASE ScanRemote
  BY <1>0, <1>8, ScanFrame DEF PositionSound, TypePosition
<1>9. CASE Prepare
  <2>1. CASE ~Rest
    BY <1>0, <1>9, <2>1, PrepareEnds, PrepareFrame DEF PositionSound, TypePosition
  <2> QED
    BY <1>1, <2>1
<1>10. CASE Settle
  <2>1. CASE ~Rest
    <3>1. pc' = AfterCleanup("tidy", cleanup') /\ UNCHANGED <<stage, cur, cycle>>
      BY <1>10, <2>1 DEF Settle
    <3> QED
      BY <1>0, <1>10, <3>1, SettleFrame DEF cycle, AfterCleanup, PositionSound, TypePosition
  <2> QED
    BY <1>1, <2>1
<1>11. CASE Abandon \/ Record
  BY <1>1, <1>11 DEF Abandon, Record
<1>12. ASSUME NEW p \in Paths, PathStep(p) PROVE TypePosition' /\ PositionSound'
  <2>1. /\ pc = "execute" /\ pc' = "execute" /\ UNCHANGED <<plan, cleanup>> /\ outcome[p] = "none"
        /\ \/ Finish(p, "ok") \/ Finish(p, "failed")
           \/ Enter(p, "sent") /\ UploadSend(p)
           \/ Enter(p, "journaled") /\ UploadJournal(p)
           \/ Enter(p, "fetched") /\ DownloadFetch(p)
           \/ Enter(p, "checked") /\ (DownloadCheck(p) \/ DeleteCheck(p))
    BY <1>12, PathSteps
  <2>2. CASE Finish(p, "ok") \/ Finish(p, "failed")
    BY <1>0, <2>1, <2>2 DEF Finish, PositionSound, TypePosition
  <2>3. CASE Enter(p, "sent") /\ UploadSend(p)
    BY <1>0, <2>1, <2>3 DEF Enter, UploadSend, Pending, PositionSound, TypePosition
  <2>4. CASE Enter(p, "journaled") /\ UploadJournal(p)
    BY <1>0, <2>1, <2>4 DEF Enter, UploadJournal, PositionSound, TypePosition
  <2>5. CASE Enter(p, "fetched") /\ DownloadFetch(p)
    BY <1>0, <2>1, <2>5 DEF Enter, DownloadFetch, PositionSound, TypePosition
  <2>6. CASE Enter(p, "checked") /\ (DownloadCheck(p) \/ DeleteCheck(p))
    BY <1>0, <2>1, <2>6 DEF Enter, DownloadCheck, DeleteCheck, PositionSound, TypePosition
  <2> QED
    BY <2>1, <2>2, <2>3, <2>4, <2>5, <2>6
<1> QED
  BY <1>3, <1>4, <1>5, <1>6, <1>7, <1>8, <1>9, <1>10, <1>11, <1>12 DEF Next, EngineStep, PathStep

(***************************************************************************)
(* The plan: what is waived or recorded when it is made stays so for as    *)
(* long as neither side changes.                                           *)
(***************************************************************************)
LEMMA HistoryTyped == ASSUME SyncInv, [Next]_vars PROVE TypeHistory'
<1>0. TypeHistory /\ TypeOK /\ Numbered
  BY TypeParts DEF SyncInv
<1>1. CASE UNCHANGED vars
  BY <1>0, <1>1 DEF vars, TypeHistory
<1>2. CASE Next
  <2>1. waived' \subseteq Present' /\ recorded' \subseteq Present'
    BY <1>2, HistoryWritten DEF EngineHistory, UserHistory
  <2>2. local' \in [Paths -> 0..MaxChanges] /\ aside' \subseteq Versions
    BY FilesKept DEF TypeFiles
  <2>3. \A m \in DOMAIN msgs' : msgs'[m].version \in 0..MaxChanges
    <3>1. msgs' \in Seq(MessageType)
      BY <1>0, MessagesKept DEF Messaged
    <3>2. \A m \in DOMAIN msgs' : msgs'[m] \in MessageType
      BY <3>1, LenProperties
    <3> QED
      BY <3>2 DEF MessageType
  <2>4. Present' \subseteq Versions
    <3>1. ASSUME NEW v \in 0..MaxChanges, v # 0 PROVE v \in Versions
      BY <3>1, SyncConstants DEF Versions, SyncConstants
    <3>2. Present' = (({local'[p] : p \in Paths} \cup aside' \cup {msgs'[m].version : m \in DOMAIN msgs'}) \ {0})
      BY DEF Present
    <3> QED
      BY <2>2, <2>3, <3>1, <3>2
  <2> QED
    BY <2>1, <2>4 DEF TypeHistory
<1> QED
  BY <1>1, <1>2

LEMMA OwnKept == ASSUME SyncInv, [Next]_vars, NEW m, NEW p, Own(m, p) PROVE Own(m, p)'
<1>1. Grows
  BY MessagesKept DEF SyncInv, Messaged
<1> QED
  BY <1>1 DEF Grows, Own, Exists

LEMMA AccountedHere ==
  ASSUME SyncInv, [Next]_vars, NEW p \in Paths, seenRemote[p].mid # 0,
         seenRemote'[p] = seenRemote[p], Accounted(seenRemote[p].mid, seenRemote[p].hash)
  PROVE  Accounted(seenRemote[p].mid, seenRemote[p].hash)'
<1>1. PICK m, h : m = seenRemote[p].mid /\ h = seenRemote[p].hash
  OBVIOUS
<1>2. Dated(m, h) /\ Accounted(m, h)
  BY <1>1, EntryOfRow, TypeParts DEF SyncInv
<1>3. Accounted(m, h)'
  BY <1>2, AccountedStays DEF SyncInv
<1> QED
  BY <1>1, <1>3 DEF Accounted, Exists, Fingerprint, Covered

(* A file the engine scanned is covered still, or has been changed since.  *)
LEMMA UnchangedHere ==
  ASSUME SyncInv, [Next]_vars, NEW p \in Paths, seenLocal'[p] = seenLocal[p],
         local'[p] \in {local[p], 0, made + 1},
         local[p] = seenLocal[p] => Covered(local[p]), local'[p] = seenLocal'[p]
  PROVE  Covered(local[p])'
<1>0. seenLocal[p] \in 0..MaxChanges /\ seenLocal[p] <= made /\ made \in Nat /\ MaxChanges \in Nat
  BY TreeSound, TypeParts, SyncConstants DEF SyncInv, Numbered, TypeFiles, SyncConstants
<1>1. local'[p] # made + 1
  BY <1>0
<1>2. CASE local'[p] = 0
  BY <1>2 DEF Covered
<1>3. CASE local'[p] = local[p] /\ local'[p] # 0
  <2>1. Covered(local[p]) /\ local[p] \in Present'
    BY <1>3 DEF Present
  <2>2. local[p] \in waived' \cup recorded' \cup {0}
    BY <2>1, CoveredKept
  <2> QED
    BY <1>3, <2>2 DEF Covered
<1> QED
  BY <1>1, <1>2, <1>3

(* An operation that nobody worked on is as sound as it was.               *)
LEMMA OperationStays ==
  ASSUME SyncInv, [Next]_vars, NEW p \in Paths, OperationSound(p),
         UNCHANGED <<plan, seenLocal, seenRemote, policy>>,
         outcome'[p] = outcome[p], got'[p] = got[p], cur' = p <=> cur = p,
         \/ rows'[p] = rows[p]
         \/ rows'[p].status # "conflict" /\ plan[p] = "upload" /\ outcome[p] = "ok",
         local'[p] \in {local[p], 0, made + 1}
  PROVE  OperationSound(p)'
<1>0. made \in Nat /\ made' \in Nat /\ made <= made'
  BY MadeGrows, TypeParts DEF SyncInv, TypeFiles
<1>1. PICK unchanged \in BOOLEAN, unchanged2 \in BOOLEAN, message \in BOOLEAN, message2 \in BOOLEAN :
        /\ unchanged <=> (local[p] = seenLocal[p] => Covered(local[p]))
        /\ unchanged2 <=> (local[p] = seenLocal[p] => Covered(local[p]))'
        /\ message <=> (seenRemote[p].mid # 0 => Accounted(seenRemote[p].mid, seenRemote[p].hash))
        /\ message2 <=> (seenRemote[p].mid # 0 => Accounted(seenRemote[p].mid, seenRemote[p].hash))'
  OBVIOUS
<1>2. unchanged => unchanged2
  BY <1>1, UnchangedHere
<1>3. message => message2
  BY <1>1, AccountedHere
<1>4. Own(got[p], p) => Own(got[p], p)'
  <2>1. PICK m : m = got[p]
    OBVIOUS
  <2>2. Own(m, p) => Own(m, p)'
    BY OwnKept
  <2> QED
    BY <2>1, <2>2 DEF Own, Exists
<1>5. got[p] \in 1..made => got'[p] \in 1..made'
  BY <1>0
<1> HIDE DEF SyncInv
<1>6. OperationSound(p) <=>
        /\ plan[p] = "none" => outcome[p] = "none"
        /\ plan[p] = "conflict" => outcome[p] # "ok"
        /\ plan[p] = "upload" =>
             /\ outcome[p] = "none" /\ cur # p => policy.direction # "download_only" \/ rows[p].status \in Resolutions
             /\ message
             /\ outcome[p] = "ok" \/ cur = p => got[p] > seenRemote[p].mid /\ Own(got[p], p)
        /\ plan[p] = "download" =>
             /\ outcome[p] = "none" =>
                  (policy.direction # "upload_only" \/ rows[p].status \in Resolutions) /\ unchanged
        /\ plan[p] \in {"download", "keep_both"} =>
             /\ seenRemote[p].mid # 0
             /\ outcome[p] = "ok" \/ cur = p => got[p] \in 1..made
        /\ plan[p] = "delete_local" =>
             /\ policy.propagate_deletions /\ policy.direction # "upload_only"
             /\ (outcome[p] = "none" => unchanged)
        /\ plan[p] = "delete_remote" =>
             /\ policy.propagate_deletions /\ policy.direction # "download_only"
             /\ seenRemote[p].mid # 0 /\ message
        /\ rows[p].status = "conflict" =>
             \/ plan[p] \in {"none", "conflict"}
             \/ plan[p] = "upload" /\ policy.direction = "upload_only" /\ seenRemote[p].mid = 0
             \/ plan[p] = "download" /\ policy.direction = "download_only" /\ seenLocal[p] = 0
  BY <1>1 DEF OperationSound
<1>7. OperationSound(p)' <=>
        /\ plan'[p] = "none" => outcome'[p] = "none"
        /\ plan'[p] = "conflict" => outcome'[p] # "ok"
        /\ plan'[p] = "upload" =>
             /\ outcome'[p] = "none" /\ cur' # p => policy'.direction # "download_only" \/ rows'[p].status \in Resolutions
             /\ message2
             /\ outcome'[p] = "ok" \/ cur' = p => got'[p] > seenRemote'[p].mid /\ Own(got[p], p)'
        /\ plan'[p] = "download" =>
             /\ outcome'[p] = "none" =>
                  (policy'.direction # "upload_only" \/ rows'[p].status \in Resolutions) /\ unchanged2
        /\ plan'[p] \in {"download", "keep_both"} =>
             /\ seenRemote'[p].mid # 0
             /\ outcome'[p] = "ok" \/ cur' = p => got'[p] \in 1..made'
        /\ plan'[p] = "delete_local" =>
             /\ policy'.propagate_deletions /\ policy'.direction # "upload_only"
             /\ (outcome'[p] = "none" => unchanged2)
        /\ plan'[p] = "delete_remote" =>
             /\ policy'.propagate_deletions /\ policy'.direction # "download_only"
             /\ seenRemote'[p].mid # 0 /\ message2
        /\ rows'[p].status = "conflict" =>
             \/ plan'[p] \in {"none", "conflict"}
             \/ plan'[p] = "upload" /\ policy'.direction = "upload_only" /\ seenRemote'[p].mid = 0
             \/ plan'[p] = "download" /\ policy'.direction = "download_only" /\ seenLocal'[p] = 0
  BY <1>1 DEF OperationSound
<1>8. (cur' # p) <=> (cur # p)
  OBVIOUS
<1> HIDE DEF Resolutions
<1> QED
  BY <1>2, <1>3, <1>4, <1>5, <1>6, <1>7, <1>8

(* A plan that is made is sound: what it takes away was given up by a      *)
(* resolution or is a baseline of the Synced Tree.                         *)
LEMMA PlanMade ==
  ASSUME SyncInv, [Next]_vars, Prepare, ~Rest, NEW p \in Paths
  PROVE  OperationSound(p)'
<1>0. /\ TypeFiles /\ TypeTrees /\ ScanSound /\ PositionSound /\ TypePosition /\ NoPath \notin Paths
      /\ local[p] \in 0..MaxChanges
  BY TypeParts, SyncConstants, TreeSound DEF SyncInv, SyncConstants
<1>1. /\ seenLocal' = local /\ pc' = "execute" /\ UNCHANGED <<stage, cur, seenRemote, outcome, got>>
      /\ plan'[p] \in {"none", Ops[p]} /\ rows'[p] = (IF Ops[p] = "conflict" THEN Conflicted(p) ELSE Kept(p))
  BY PrepareEnds
<1>2. UNCHANGED <<local, msgs, made, policy>> /\ pc = "prepare" /\ EngineHistory
  BY PrepareFrame
<1>3. outcome'[p] = "none" /\ cur' # p
  BY <1>0, <1>1, <1>2 DEF PositionSound
<1> DEFINE l == local[p]
           r == seenRemote[p]
           s == Tree[p]
<1>4. /\ l = 0 /\ r.mid = 0 => Ops[p] = "none"
      /\ Ops[p] = "upload" => /\ policy.direction # "download_only" \/ s.status \in Resolutions
                              /\ r.mid = 0 \/ s.status = "keep_local" \/ (s.status \in Reconciled /\ s.rh = r.hash)
      /\ Ops[p] = "download" => /\ policy.direction # "upload_only" \/ s.status \in Resolutions
                                /\ l = 0 \/ s.status = "keep_remote" \/ (s.status \in Reconciled /\ s.lh = l)
                                /\ r.mid # 0
      /\ Ops[p] = "keep_both" => r.mid # 0
      /\ Ops[p] = "delete_local" => /\ policy.propagate_deletions /\ policy.direction # "upload_only"
                                    /\ s.status \in Reconciled /\ s.lh = l
      /\ Ops[p] = "delete_remote" => /\ policy.propagate_deletions /\ policy.direction # "download_only"
                                     /\ r.mid # 0 /\ s.status \in Reconciled /\ s.rh = r.hash
      /\ s.status = "conflict" =>
           \/ Ops[p] \in {"none", "conflict"}
           \/ Ops[p] = "upload" /\ policy.direction = "upload_only" /\ r.mid = 0
           \/ Ops[p] = "download" /\ policy.direction = "download_only" /\ l = 0
  BY OpsPlanned, PolicySays
<1>5. Ops[p] \notin {"none", "conflict"} => rows'[p] = s
  BY <1>1, <1>4 DEF Kept
<1>6. waived' = (waived \cup GivenUp') \cap Present' /\ recorded' = (recorded \cup Baselines') \cap Present'
  BY <1>2 DEF EngineHistory
<1>7. ASSUME l = 0 \/ rows'[p].status = "keep_remote" \/ (rows'[p].status \in Reconciled /\ rows'[p].lh = l)
      PROVE  Covered(local[p])'
  <2>1. l # 0 => l \in Present'
    BY <1>2 DEF Present
  <2>2. rows'[p].status = "keep_remote" => l \in GivenUp'
    BY <1>2 DEF GivenUp
  <2>3. rows'[p].status \in Reconciled => rows'[p].lh \in Baselines'
    BY DEF Baselines, Reconciled
  <2> QED
    BY <1>2, <1>6, <1>7, <2>1, <2>2, <2>3 DEF Covered
<1>8. ASSUME r.mid # 0, rows'[p].status = "keep_local" \/ (rows'[p].status \in Reconciled /\ rows'[p].rh = r.hash)
      PROVE  Accounted(seenRemote[p].mid, seenRemote[p].hash)'
  <2> SUFFICES ASSUME msgs[r.mid].version # 0, <<r.mid, msgs[r.mid].edits>> = r.hash
               PROVE  msgs[r.mid].version \in waived' \cup recorded' \cup {0}
    BY <1>1, <1>2 DEF Accounted, Exists, Fingerprint, Covered
  <2>1. PICK m : m = r.mid
    OBVIOUS
  <2>2. m \in DOMAIN msgs /\ msgs[m].path = p /\ m # 0
    BY <1>0, <1>8, <2>1, EntryOfRow DEF Own, Exists
  <2>3. msgs[m].version \in Present'
    BY <1>2, <2>1, <2>2 DEF Present
  <2>4. CASE rows'[p].status = "keep_local"
    <3>1. \A q \in Paths : rows'[q].mid # 0 => Own(rows'[q].mid, q)
      BY RowsWritten DEF RowSound
    <3>2. PathOf(m, rows') = p
      <4>1. CASE \E q \in Paths : rows'[q].mid = m
        <5>1. PICK q \in Paths : q = (CHOOSE t \in Paths : rows'[t].mid = m) /\ rows'[q].mid = m
          BY <4>1
        <5>2. q = p
          BY <2>1, <2>2, <3>1, <5>1 DEF Own, Exists
        <5> QED
          BY <4>1, <5>1, <5>2 DEF PathOf
      <4>2. CASE ~\E q \in Paths : rows'[q].mid = m
        BY <2>2, <4>2 DEF PathOf
      <4> QED
        BY <4>1, <4>2
    <3>3. PathOf(m, rows)' = p
      BY <1>2, <3>2 DEF PathOf
    <3>4. m \in AtPath(p, rows)'
      BY <1>2, <2>1, <2>2, <3>3 DEF AtPath, Exists
    <3>5. msgs[m].version \in GivenUp'
      BY <1>2, <2>4, <3>4 DEF GivenUp
    <3> QED
      BY <1>6, <2>1, <2>3, <3>5
  <2>5. CASE rows'[p].status \in Reconciled /\ rows'[p].rh = r.hash
    <3>1. msgs[m].version \in Baselines'
      BY <1>2, <2>1, <2>2, <2>5 DEF Baselines, Reconciled, Fingerprint
    <3> QED
      BY <1>6, <2>1, <2>3, <3>1
  <2> QED
    BY <1>8, <2>4, <2>5
<1>9. ASSUME plan'[p] = "none" PROVE OperationSound(p)'
  BY <1>3, <1>9 DEF OperationSound
<1>10. ASSUME plan'[p] = "conflict" PROVE OperationSound(p)'
  BY <1>3, <1>10 DEF OperationSound
<1>11. ASSUME plan'[p] = "upload" PROVE OperationSound(p)'
  <2>1. Ops[p] = "upload" /\ rows'[p] = s
    BY <1>1, <1>5, <1>11
  <2>2. (seenRemote[p].mid # 0 => Accounted(seenRemote[p].mid, seenRemote[p].hash))'
    BY <1>1, <1>4, <1>8, <2>1
  <2> QED
    BY <1>1, <1>2, <1>3, <1>4, <1>11, <2>1, <2>2 DEF OperationSound
<1>12. ASSUME plan'[p] = "download" PROVE OperationSound(p)'
  <2>1. Ops[p] = "download" /\ rows'[p] = s
    BY <1>1, <1>5, <1>12
  <2>2. Covered(local[p])'
    BY <1>4, <1>7, <2>1
  <2> QED
    BY <1>1, <1>2, <1>3, <1>4, <1>12, <2>1, <2>2 DEF OperationSound
<1>13. ASSUME plan'[p] = "delete_local" PROVE OperationSound(p)'
  <2>1. Ops[p] = "delete_local" /\ rows'[p] = s
    BY <1>1, <1>5, <1>13
  <2>2. Covered(local[p])' /\ s.status # "conflict"
    BY <1>4, <1>7, <2>1 DEF Reconciled
  <2> QED
    BY <1>1, <1>2, <1>3, <1>4, <1>13, <2>1, <2>2 DEF OperationSound
<1>14. ASSUME plan'[p] = "delete_remote" PROVE OperationSound(p)'
  <2>1. Ops[p] = "delete_remote" /\ rows'[p] = s
    BY <1>1, <1>5, <1>14
  <2>2. Accounted(seenRemote[p].mid, seenRemote[p].hash)' /\ s.status # "conflict"
    BY <1>4, <1>8, <2>1 DEF Reconciled
  <2> QED
    BY <1>1, <1>2, <1>3, <1>4, <1>14, <2>1, <2>2 DEF OperationSound
<1>15. ASSUME plan'[p] \in {"keep_both", "skip"} PROVE OperationSound(p)'
  <2>1. Ops[p] = plan'[p] /\ rows'[p] = s
    BY <1>1, <1>5, <1>15
  <2>2. s.status # "conflict"
    BY <1>4, <1>15, <2>1
  <2> QED
    BY <1>1, <1>2, <1>3, <1>4, <1>15, <2>1, <2>2 DEF OperationSound
<1>16. plan'[p] \in Operations
  BY <1>1, OpsPlanned DEF Operations
<1> QED
  BY <1>9, <1>10, <1>11, <1>12, <1>13, <1>14, <1>15, <1>16 DEF Operations

(* The executor's steps, on the path it works on.                          *)
LEMMA OperationWorked ==
  ASSUME SyncInv, [Next]_vars, NEW p \in Paths, PathStep(p), OperationSound(p)
  PROVE  OperationSound(p)'
<1>0. /\ TypeFiles /\ TypeTrees /\ TypePlan /\ ScanSound /\ Numbered /\ PositionSound /\ p # NoPath
      /\ made \in Nat /\ made' \in Nat
  BY TypeParts, SyncConstants, MadeGrows DEF SyncInv, SyncConstants, TypeFiles
<1>1. /\ pc = "execute" /\ pc' = "execute" /\ UNCHANGED <<seenLocal, seenRemote, plan, policy, made>>
      /\ outcome[p] = "none" /\ cur \in {p, NoPath} /\ (stage = "none" => cur = NoPath)
      /\ \/ Finish(p, "ok") \/ Finish(p, "failed")
         \/ Enter(p, "sent") /\ UploadSend(p)
         \/ Enter(p, "journaled") /\ UploadJournal(p)
         \/ Enter(p, "fetched") /\ DownloadFetch(p)
         \/ Enter(p, "checked") /\ (DownloadCheck(p) \/ DeleteCheck(p))
  BY PathSteps
<1>2. PICK message \in BOOLEAN, message2 \in BOOLEAN, unchanged \in BOOLEAN, unchanged2 \in BOOLEAN :
        /\ message <=> (seenRemote[p].mid # 0 => Accounted(seenRemote[p].mid, seenRemote[p].hash))
        /\ message2 <=> (seenRemote[p].mid # 0 => Accounted(seenRemote[p].mid, seenRemote[p].hash))'
        /\ unchanged <=> (local[p] = seenLocal[p] => Covered(local[p]))
        /\ unchanged2 <=> (local[p] = seenLocal[p] => Covered(local[p]))'
  OBVIOUS
<1>3. message => message2
  BY <1>1, <1>2, AccountedHere
<1>4. UNCHANGED local => (unchanged => unchanged2)
  BY <1>1, <1>2, UnchangedHere
<1>5. /\ plan[p] = "none" => outcome[p] = "none"
      /\ plan[p] = "conflict" => outcome[p] # "ok"
      /\ plan[p] = "upload" =>
           /\ outcome[p] = "none" /\ cur # p => policy.direction # "download_only" \/ rows[p].status \in Resolutions
           /\ message
           /\ outcome[p] = "ok" \/ cur = p => got[p] > seenRemote[p].mid /\ Own(got[p], p)
      /\ plan[p] = "download" =>
           /\ outcome[p] = "none" =>
                (policy.direction # "upload_only" \/ rows[p].status \in Resolutions) /\ unchanged
      /\ plan[p] \in {"download", "keep_both"} =>
           /\ seenRemote[p].mid # 0
           /\ outcome[p] = "ok" \/ cur = p => got[p] \in 1..made
      /\ plan[p] = "delete_local" =>
           /\ policy.propagate_deletions /\ policy.direction # "upload_only"
           /\ (outcome[p] = "none" => unchanged)
      /\ plan[p] = "delete_remote" =>
           /\ policy.propagate_deletions /\ policy.direction # "download_only"
           /\ seenRemote[p].mid # 0 /\ message
      /\ rows[p].status = "conflict" =>
           \/ plan[p] \in {"none", "conflict"}
           \/ plan[p] = "upload" /\ policy.direction = "upload_only" /\ seenRemote[p].mid = 0
           \/ plan[p] = "download" /\ policy.direction = "download_only" /\ seenLocal[p] = 0
  BY <1>2 DEF OperationSound
<1>6. plan[p] # "none" /\ (plan[p] = "conflict" => cur # p)
  BY <1>0, <1>1 DEF PositionSound, Pending, PathStep, ExecuteNothing, Fail, UploadSend, UploadDiscard, UploadJournal,
     UploadCaption, DownloadFetch, DownloadCheck, DownloadReplace, DownloadAside, DeleteCheck, DeleteLocal,
     DeleteRemote, At
<1>13. SUFFICES
        /\ plan[p] = "conflict" => outcome'[p] # "ok"
        /\ plan[p] = "upload" =>
             /\ outcome'[p] = "none" /\ cur' # p => policy.direction # "download_only" \/ rows'[p].status \in Resolutions
             /\ outcome'[p] = "ok" \/ cur' = p => got'[p] > seenRemote[p].mid /\ Own(got[p], p)'
        /\ plan[p] = "download" =>
             /\ outcome'[p] = "none" =>
                  (policy.direction # "upload_only" \/ rows'[p].status \in Resolutions) /\ unchanged2
        /\ plan[p] \in {"download", "keep_both"} => (outcome'[p] = "ok" \/ cur' = p => got'[p] \in 1..made)
        /\ plan[p] = "delete_local" => (outcome'[p] = "none" => unchanged2)
        /\ rows'[p].status = "conflict" => rows[p].status = "conflict"
  <2>1. OperationSound(p)' <=>
          /\ plan'[p] = "none" => outcome'[p] = "none"
          /\ plan'[p] = "conflict" => outcome'[p] # "ok"
          /\ plan'[p] = "upload" =>
               /\ outcome'[p] = "none" /\ cur' # p => policy'.direction # "download_only" \/ rows'[p].status \in Resolutions
               /\ message2
               /\ outcome'[p] = "ok" \/ cur' = p => got'[p] > seenRemote'[p].mid /\ Own(got[p], p)'
          /\ plan'[p] = "download" =>
               /\ outcome'[p] = "none" =>
                    (policy'.direction # "upload_only" \/ rows'[p].status \in Resolutions) /\ unchanged2
          /\ plan'[p] \in {"download", "keep_both"} =>
               /\ seenRemote'[p].mid # 0
               /\ outcome'[p] = "ok" \/ cur' = p => got'[p] \in 1..made'
          /\ plan'[p] = "delete_local" =>
               /\ policy'.propagate_deletions /\ policy'.direction # "upload_only"
               /\ (outcome'[p] = "none" => unchanged2)
          /\ plan'[p] = "delete_remote" =>
               /\ policy'.propagate_deletions /\ policy'.direction # "download_only"
               /\ seenRemote'[p].mid # 0 /\ message2
          /\ rows'[p].status = "conflict" =>
               \/ plan'[p] \in {"none", "conflict"}
               \/ plan'[p] = "upload" /\ policy'.direction = "upload_only" /\ seenRemote'[p].mid = 0
               \/ plan'[p] = "download" /\ policy'.direction = "download_only" /\ seenLocal'[p] = 0
    BY <1>2 DEF OperationSound
  <2> QED
    BY <1>1, <1>3, <1>5, <1>6, <2>1
<1>7. CASE Finish(p, "failed")
  <2>1. outcome'[p] = "failed" /\ cur' # p
    BY <1>0, <1>7 DEF Finish, TypePlan
  <2>2. rows'[p] = rows[p]
    BY <1>7, <1>0 DEF Finish, PathStep, ExecuteNothing, Fail, UploadSend, UploadDiscard, UploadJournal, UploadCaption,
       DownloadFetch, DownloadCheck, DownloadReplace, DownloadAside, DeleteCheck, DeleteLocal, DeleteRemote, store, Enter
  <2> QED
    BY <2>1, <2>2
<1>8. CASE Finish(p, "ok")
  <2>1. outcome'[p] = "ok" /\ cur' # p
    BY <1>0, <1>8 DEF Finish, TypePlan
  <2>2. \/ plan[p] \in {"skip", "delete_local", "delete_remote"} /\ rows'[p] = rows[p]
        \/ cur = p /\ UNCHANGED <<got, rows>>
    BY <1>8, <1>0, <2>1 DEF Finish, PathStep, ExecuteNothing, Fail, UploadSend, UploadDiscard, UploadJournal,
       UploadCaption, DownloadFetch, DownloadCheck, DownloadReplace, DownloadAside, DeleteCheck, DeleteLocal,
       DeleteRemote, store, Enter, At, TypePlan
  <2>3. CASE cur = p /\ UNCHANGED <<got, rows>>
    <3>1. Own(got[p], p) => Own(got[p], p)'
      <4>1. PICK m : m = got[p]
        OBVIOUS
      <4>2. Own(m, p) => Own(m, p)'
        BY OwnKept
      <4> QED
        BY <2>3, <4>1, <4>2 DEF Own, Exists
    <3> QED
      BY <1>5, <1>6, <2>1, <2>3, <3>1
  <2>4. CASE plan[p] \in {"skip", "delete_local", "delete_remote"} /\ rows'[p] = rows[p]
    BY <2>1, <2>4
  <2> QED
    BY <2>2, <2>3, <2>4
<1>9. CASE Enter(p, "sent") /\ UploadSend(p)
  <2>1. /\ plan[p] = "upload" /\ cur' = p /\ got'[p] = Len(msgs) + 1 /\ rows' = rows /\ local' = local
        /\ Len(msgs) < MaxMessages /\ msgs' = Append(msgs, [path |-> p, version |-> local[p], edits |-> 0])
    BY <1>0, <1>9 DEF Enter, UploadSend, disk, store, TypePlan
  <2>2. local[p] \in 0..MaxChanges /\ local[p] <= made' /\ made' \in 0..MaxChanges
    BY <1>0, <1>1 DEF TypeFiles, Numbered
  <2>3. /\ DOMAIN msgs' = DOMAIN msgs \cup {Len(msgs) + 1}
        /\ msgs'[Len(msgs) + 1] = [path |-> p, version |-> local[p], edits |-> 0]
    BY <1>0, <1>1, <2>1, <2>2, MessagePosted
  <2>4. Own(got[p], p)'
    BY <2>1, <2>3 DEF Own, Exists
  <2>5. got'[p] > seenRemote[p].mid
    <3>1. seenRemote[p].mid = 0 \/ seenRemote[p].mid \in 1..Len(msgs)
      BY <1>0, EntryOfRow, DomainOfMsgs DEF Own
    <3> QED
      BY <1>0, <2>1, <3>1, DomainOfMsgs
  <2> QED
    BY <2>1, <2>4, <2>5
<1>10. CASE Enter(p, "journaled") /\ UploadJournal(p)
  <2>1. /\ plan[p] = "upload" /\ cur' = p /\ cur = p /\ UNCHANGED <<got, local, msgs>>
        /\ rows' = rows \/ rows' = [rows EXCEPT ![p] = Journaled(seenLocal[p], got[p])]
    BY <1>10 DEF Enter, UploadJournal, At, disk
  <2>2. rows'[p].status = "conflict" => rows[p].status = "conflict"
    <3>1. Journaled(seenLocal[p], got[p]).status = "syncing"
      BY DEF Journaled
    <3>2. rows \in [Paths -> Row]
      BY TypeParts DEF SyncInv, TypeStore
    <3> QED
      BY <2>1, <3>1, <3>2
  <2>3. Own(got[p], p)'
    BY <1>5, <2>1 DEF Own, Exists
  <2> QED
    BY <1>5, <2>1, <2>2, <2>3
<1>11. CASE Enter(p, "fetched") /\ DownloadFetch(p)
  <2>1. /\ plan[p] \in {"download", "keep_both"} /\ rows' = rows /\ local' = local
        /\ outcome' = outcome
        /\ got'[p] = msgs[seenRemote[p].mid].version /\ Exists(seenRemote[p].mid)
    BY <1>0, <1>11 DEF Enter, DownloadFetch, disk, store, TypePlan
  <2>2. seenRemote[p].mid \in DOMAIN msgs
    BY <1>0, <1>5, <2>1, EntryOfRow DEF Own
  <2>3. got'[p] \in 1..made
    BY <1>0, <2>1, <2>2, DomainOfMsgs DEF Exists, Numbered, MessageType
  <2> QED
    BY <1>4, <1>5, <2>1, <2>3
<1>12. CASE Enter(p, "checked") /\ (DownloadCheck(p) \/ DeleteCheck(p))
  <2>1. /\ UNCHANGED <<rows, local, got, outcome>>
        /\ \/ plan[p] = "download" /\ cur = p
           \/ plan[p] \in {"delete_local", "delete_remote"}
    BY <1>12 DEF Enter, DownloadCheck, DeleteCheck, At, disk, store
  <2> QED
    BY <1>4, <1>5, <2>1
<1> QED
  BY <1>1, <1>7, <1>8, <1>9, <1>10, <1>11, <1>12

(* Only the mapping's owner changes its settings, and only between cycles. *)
LEMMA UsersKeepStore ==
  ASSUME UserStep \/ UNCHANGED vars
  PROVE  /\ UNCHANGED <<pc, stage, cur, known, seenLocal, seenRemote, plan, outcome, got>>
         /\ pc # "idle" => UNCHANGED <<rows, cleanup, policy>>
<1>1. UNCHANGED <<pc, stage, cur, known, seenLocal, seenRemote, plan, outcome, got>>
  BY UserFrame DEF vars, position, cycle
<1>2. pc # "idle" => UNCHANGED <<rows, cleanup, policy>>
  BY DEF UserStep, vars, store, WriteFile, RemoveFile, PostMessage, EditMessage, DeleteMessage, Resolve, UpdatePair,
     ReplacePair
<1> QED
  BY <1>1, <1>2

(* A step on one path leaves the other paths to themselves.                *)
LEMMA OtherPaths ==
  ASSUME SyncInv, NEW p \in Paths, PathStep(p), NEW q \in Paths, q # p
  PROVE  outcome'[q] = outcome[q] /\ got'[q] = got[q] /\ rows'[q] = rows[q] /\ local'[q] = local[q]
         /\ cur' # q /\ cur # q
<1>0. TypeFiles /\ TypeStore /\ TypePlan /\ NoPath \notin Paths
  BY TypeParts, SyncConstants DEF SyncInv, SyncConstants
<1>1. /\ cur \in {p, NoPath}
      /\ \/ Finish(p, "ok") \/ Finish(p, "failed")
         \/ \E s \in {"sent", "journaled", "fetched", "checked"} : Enter(p, s)
  BY PathSteps
<1>2. outcome'[q] = outcome[q] /\ cur' # q
  BY <1>0, <1>1 DEF Finish, Enter, TypePlan
<1>3. got'[q] = got[q] /\ rows'[q] = rows[q]
  BY <1>0 DEF TypePlan, TypeStore, store, PathStep, ExecuteNothing, Fail, UploadSend, UploadDiscard, UploadJournal,
     UploadCaption, DownloadFetch, DownloadCheck, DownloadReplace, DownloadAside, DeleteCheck, DeleteLocal, DeleteRemote
<1>4. local'[q] = local[q]
  BY <1>0 DEF TypeFiles, disk, PathStep, ExecuteNothing, Fail, UploadSend, UploadDiscard, UploadJournal,
     UploadCaption, DownloadFetch, DownloadCheck, DownloadReplace, DownloadAside, DeleteCheck, DeleteLocal, DeleteRemote
<1> QED
  BY <1>0, <1>1, <1>2, <1>3, <1>4

(* The plan stays sound until the cycle is over (executor.rs: every await  *)
(* lets the users change either side in the meantime).                     *)
LEMMA PlanKept == ASSUME SyncInv, [Next]_vars PROVE PlanSound'
<1>0. PlanSound /\ PositionSound /\ TypePosition /\ TypeFiles /\ TypeStore /\ NoPath \notin Paths
  BY TypeParts, SyncConstants DEF SyncInv, SyncConstants
<1> SUFFICES ASSUME pc' \in {"execute", "tidy", "record"}, NEW p \in Paths PROVE OperationSound(p)'
  BY DEF PlanSound
<1>1. ~Rest /\ ~Abandon /\ ~Record
  BY RestHolds DEF Abandon, Record
<1>2. CASE pc \notin {"execute", "tidy", "record"}
  <2>1. ~(UserStep \/ UNCHANGED vars)
    BY <1>2, UsersKeepStore
  <2>2. ~StartCycle /\ ~ScanRemote
    BY ScanFrame DEF StartCycle, AfterCleanup
  <2>3. ~CleanupDecide /\ ~CleanupDelete /\ ~CleanupSave
    BY <1>1, <1>2 DEF CleanupDecide, CleanupDelete, CleanupSave, AfterCleanup
  <2>4. ~Settle /\ \A q \in Paths : ~PathStep(q)
    BY <1>2, SettleFrame, PathSteps
  <2>5. Prepare
    BY <1>1, <2>1, <2>2, <2>3, <2>4 DEF Next, EngineStep, PathStep
  <2> QED
    BY <1>1, <2>5, PlanMade
<1>3. CASE pc \in {"execute", "tidy", "record"}
  <2>0. OperationSound(p)
    BY <1>0, <1>3 DEF PlanSound
  <2>1. CASE UserStep \/ UNCHANGED vars
    <3>1. UNCHANGED <<plan, seenLocal, seenRemote, policy, outcome, got, cur, rows>>
      BY <1>3, <2>1, UsersKeepStore
    <3>2. local'[p] \in {local[p], 0, made + 1}
      BY <1>0, <2>1 DEF UserStep, vars, disk, WriteFile, RemoveFile, PostMessage, EditMessage, DeleteMessage, Resolve,
         UpdatePair, ReplacePair, TypeFiles
    <3> QED
      BY <2>0, <3>1, <3>2, OperationStays
  <2>2. CASE CleanupDecide
    <3>1. /\ UNCHANGED <<cur, known, seenLocal, seenRemote, plan, outcome, got>> /\ UNCHANGED <<local, policy>>
      BY <1>1, <2>2, DecideFrame
    <3>2. rows' = rows
      BY <1>1, <2>2 DEF CleanupDecide
    <3> QED
      BY <2>0, <3>1, <3>2, OperationStays
  <2>3. CASE CleanupDelete \/ CleanupSave
    <3>1. UNCHANGED <<plan, seenLocal, seenRemote, policy, outcome, got, cur, rows, local>>
      BY <2>3 DEF CleanupDelete, CleanupSave, store, cycle, disk
    <3> QED
      BY <2>0, <3>1, OperationStays
  <2>4. CASE Settle
    <3>1. UNCHANGED <<stage, cur, cycle, local, policy>>
      BY <1>1, <2>4, SettleFrame DEF Settle
    <3>2. UNCHANGED <<plan, seenLocal, seenRemote, policy, outcome, got, cur, local>>
      BY <3>1 DEF cycle
    <3>3. PICK journaled \in SUBSET {q \in Paths : Uploaded(q)} :
            rows' = [q \in Paths |-> IF q \in journaled THEN Journaled(seenLocal[q], got[q]) ELSE rows[q]]
      BY <2>4 DEF Settle
    <3>4. CASE p \notin journaled
      BY <2>0, <3>2, <3>3, <3>4, OperationStays
    <3>5. CASE p \in journaled
      <4>1. rows'[p].status = "syncing"
        BY <3>3, <3>5 DEF Journaled
      <4>2. plan[p] = "upload" /\ outcome[p] = "ok"
        BY <3>5 DEF Uploaded
      <4> QED
        BY <2>0, <3>2, <4>1, <4>2, OperationStays
    <3> QED
      BY <3>4, <3>5
  <2>5. ASSUME NEW q \in Paths, PathStep(q) PROVE OperationSound(p)'
    <3>1. CASE p = q
      BY <2>0, <2>5, <3>1, OperationWorked
    <3>2. CASE p # q
      <4>1. UNCHANGED <<plan, seenLocal, seenRemote, policy>>
        BY <2>5, PathSteps
      <4>2. outcome'[p] = outcome[p] /\ got'[p] = got[p] /\ rows'[p] = rows[p] /\ local'[p] = local[p]
            /\ (cur' = p <=> cur = p)
        BY <2>5, <3>2, OtherPaths
      <4> QED
        BY <2>0, <4>1, <4>2, OperationStays
    <3> QED
      BY <3>1, <3>2
  <2>6. ~StartCycle /\ ~ScanRemote /\ ~Prepare
    BY <1>3, ScanFrame, PrepareFrame DEF StartCycle
  <2> QED
    BY <1>1, <2>1, <2>2, <2>3, <2>4, <2>5, <2>6 DEF Next, EngineStep, PathStep
<1> QED
  BY <1>2, <1>3

(* A message that is checked, or was sent a moment ago, is in the channel. *)
LEMMA CheckedPosted == ASSUME SyncInv PROVE CheckedMessage \subseteq DOMAIN msgs
<1>0. /\ PlanSound /\ PositionSound /\ TypePosition /\ TypeTrees /\ ScanSound /\ NoPath \notin Paths
      /\ \A i \in DOMAIN cleanup : ItemSound(cleanup[i])
      /\ cleanup \in Seq(ItemType)
  BY TypeParts, StoreParts, SyncConstants DEF SyncInv, SyncConstants, SoundStore
<1>1. CASE pc \in {"retry", "tidy"} /\ stage = "checked"
  <2>1. 1 \in DOMAIN cleanup /\ Head(cleanup) = cleanup[1]
    BY <1>0, <1>1, LenProperties, EmptySeq DEF PositionSound
  <2>2. Head(cleanup).old \in DOMAIN msgs
    BY <1>0, <2>1 DEF ItemSound, Dated
  <2> QED
    BY <1>1, <2>2 DEF CheckedMessage
<1>2. CASE pc = "execute" /\ stage = "checked" /\ plan[cur] = "delete_remote"
  <2>1. cur \in Paths
    BY <1>0, <1>2 DEF PositionSound, TypePosition
  <2>2. seenRemote[cur].mid # 0
    BY <1>0, <1>2, <2>1 DEF PlanSound, OperationSound
  <2>3. seenRemote[cur].mid \in DOMAIN msgs
    BY <1>0, <2>1, <2>2, EntryOfRow DEF Own
  <2> QED
    BY <1>2, <2>3 DEF CheckedMessage
<1>3. CASE pc = "execute" /\ stage = "sent"
  <2>1. cur \in Paths /\ plan[cur] = "upload"
    BY <1>0, <1>3 DEF PositionSound, TypePosition
  <2>2. got[cur] \in DOMAIN msgs
    BY <1>0, <1>3, <2>1 DEF PlanSound, OperationSound, Own
  <2> QED
    BY <1>3, <2>2 DEF CheckedMessage
<1>4. CASE /\ ~(pc \in {"retry", "tidy"} /\ stage = "checked")
           /\ ~(pc = "execute" /\ stage = "checked" /\ plan[cur] = "delete_remote")
           /\ ~(pc = "execute" /\ stage = "sent")
  BY <1>4 DEF CheckedMessage
<1> QED
  BY <1>1, <1>2, <1>3, <1>4

(* Where no check has passed there is nothing to be said.                  *)
LEMMA NoCheck == ASSUME stage \notin {"checked", "sent"} PROVE CheckSound
  BY DEF CheckSound, CheckedMessage

(* A user who changes what the engine has just checked races it, and what  *)
(* was put there is waived.                                                *)
LEMMA CheckRaced == ASSUME SyncInv, [Next]_vars, UserStep \/ UNCHANGED vars PROVE CheckSound'
<1>0. /\ CheckSound /\ PositionSound /\ TypePosition /\ TypeFiles /\ NoPath \notin Paths
      /\ CheckedMessage \subseteq DOMAIN msgs
      /\ \A p \in Paths : p \in DOMAIN local
  BY TypeParts, SyncConstants, CheckedPosted DEF SyncInv, SyncConstants, TypeFiles
<1>1. /\ UNCHANGED <<pc, stage, cur, plan, got, seenRemote>>
      /\ pc # "idle" => UNCHANGED cleanup
  BY UsersKeepStore
<1>2. CASE stage \notin {"checked", "sent"}
  <2>1. (stage \notin {"checked", "sent"})'
    BY <1>1, <1>2
  <2> QED
    BY <2>1, NoCheck, PTL
<1>3. CASE stage \in {"checked", "sent"}
  <2>1. pc # "idle" /\ UNCHANGED cleanup
    BY <1>0, <1>1, <1>3 DEF PositionSound
  <2>2. CheckedMessage' = CheckedMessage
    BY <1>1, <2>1 DEF CheckedMessage
  <2>3. UserStep => waived' = (waived \cup Replaced \cup Raced \cup GivenUp') \cap Present'
    BY UserFrame DEF UserHistory
  <2>4. ~UserStep => UNCHANGED vars
    OBVIOUS
  <2>5. Grows
    BY MessagesKept DEF SyncInv, Messaged
  <2>6. ASSUME pc = "execute", stage = "checked", plan[cur] \in {"download", "delete_local"}
        PROVE  local'[cur] \in waived' \cup recorded' \cup {0}
    <3>1. cur \in Paths /\ Covered(local[cur]) /\ CheckedFile = {cur}
      BY <1>0, <2>6 DEF PositionSound, TypePosition, CheckSound, CheckedFile
    <3>2. local'[cur] # 0 => local'[cur] \in Present'
      BY <3>1 DEF Present
    <3>3. CASE local'[cur] = local[cur]
      BY <3>1, <3>2, <3>3, CoveredKept
    <3>4. CASE local'[cur] # local[cur]
      <4>1. local'[cur] \in Raced
        BY <3>1, <3>4 DEF Raced
      <4>2. UserStep
        BY <2>4, <3>4 DEF vars, disk
      <4> QED
        BY <2>3, <3>2, <4>1, <4>2
    <3> QED
      BY <3>3, <3>4
  <2>7. ASSUME NEW m \in CheckedMessage
        PROVE  msgs'[m].version \in waived' \cup recorded' \cup {0}
                 \/ (stage = "sent" /\ msgs'[m].version = local'[cur])
    <3>1. m \in DOMAIN msgs /\ m \in DOMAIN msgs'
      BY <1>0, <2>5 DEF Grows
    <3>2. msgs'[m].version # 0 => msgs'[m].version \in Present'
      BY <3>1 DEF Present
    <3>3. CASE msgs'[m] # msgs[m]
      <4>1. msgs'[m].version \in Raced
        BY <3>1, <3>3 DEF Raced
      <4>2. UserStep
        BY <2>4, <3>3 DEF vars
      <4> QED
        BY <2>3, <3>2, <4>1, <4>2
    <3>4. CASE msgs'[m] = msgs[m] /\ Covered(msgs[m].version)
      <4>1. msgs[m].version \in Present' \cup {0}
        BY <3>2, <3>4
      <4> QED
        BY <3>4, <4>1, CoveredKept
    <3>5. CASE msgs'[m] = msgs[m] /\ stage = "sent" /\ msgs[m].version = local[cur] /\ local'[cur] # local[cur]
      <4>1. cur \in Paths
        BY <1>0, <3>5 DEF PositionSound, TypePosition
      <4>2. local[cur] \in Replaced
        BY <3>5, <4>1 DEF Replaced
      <4>3. UserStep
        BY <2>4, <3>5 DEF vars, disk
      <4> QED
        BY <2>3, <3>2, <3>5, <4>2, <4>3
    <3>6. Covered(msgs[m].version) \/ (stage = "sent" /\ msgs[m].version = local[cur])
      BY <1>0 DEF CheckSound
    <3> QED
      BY <3>3, <3>4, <3>5, <3>6
  <2> QED
    BY <1>1, <2>2, <2>6, <2>7 DEF CheckSound, Covered
<1> QED
  BY <1>2, <1>3

(* What passes its check may go (verify_local_precondition,                *)
(* verify_remote_precondition, cleanup_action), and so may an upload of    *)
(* what the folder still holds.                                            *)
LEMMA CheckKept == ASSUME SyncInv, [Next]_vars PROVE CheckSound'
<1>0. /\ PlanSound /\ PositionSound /\ TypePosition /\ TypeFiles /\ TypeStore /\ TypePlan /\ TypeTrees /\ ScanSound
      /\ Numbered /\ NoPath \notin Paths /\ \A i \in DOMAIN cleanup : ItemSound(cleanup[i])
  BY TypeParts, StoreParts, SyncConstants DEF SyncInv, SyncConstants, SoundStore
<1>1. ASSUME stage' \notin {"checked", "sent"} PROVE CheckSound'
  <2>1. (stage \notin {"checked", "sent"})'
    BY <1>1
  <2> QED
    BY <2>1, NoCheck, PTL
<1>2. CASE Rest
  BY <1>1, <1>2, RestHolds
<1>3. CASE UserStep \/ UNCHANGED vars
  BY <1>3, CheckRaced
<1>4. CASE StartCycle \/ ScanRemote \/ Prepare \/ Settle
  <2>1. stage = "none"
    BY <1>0, <1>4, ScanFrame, PrepareFrame, SettleFrame DEF StartCycle, PositionSound
  <2>2. CASE Rest
    BY <1>2, <2>2
  <2>3. CASE ~Rest
    <3>1. UNCHANGED stage
      BY <1>4, <2>3, ScanFrame, PrepareEnds DEF StartCycle, Settle
    <3> QED
      BY <1>1, <2>1, <3>1
  <2> QED
    BY <2>2, <2>3
<1>5. CASE CleanupDelete \/ CleanupSave
  BY <1>1, <1>5 DEF CleanupDelete, CleanupSave
<1>6. CASE CleanupDecide
  <2>1. CASE UNCHANGED stage
    BY <1>1, <1>6, <2>1 DEF CleanupDecide
  <2>2. CASE /\ Exists(Head(cleanup).old) /\ Fingerprint(Head(cleanup).old) = Head(cleanup).hash
             /\ UNCHANGED <<rows, cleanup, pc, cur, cycle>> /\ stage' = "checked"
    <3>1. pc \in {"retry", "tidy"} /\ UNCHANGED <<msgs, local>>
      BY <1>6, DecideFrame
    <3>2. cleanup # << >> /\ cleanup \in Seq(ItemType)
      BY <1>0, <3>1 DEF PositionSound, TypeStore
    <3>3. 1 \in DOMAIN cleanup /\ Head(cleanup) = cleanup[1]
      BY <3>2, LenProperties, EmptySeq
    <3>4. PICK m, h : m = Head(cleanup).old /\ h = Head(cleanup).hash
      OBVIOUS
    <3>5. m \in DOMAIN msgs /\ Accounted(m, h)
      BY <1>0, <3>3, <3>4 DEF ItemSound, Dated
    <3>6. Covered(msgs[m].version)
      BY <2>2, <3>4, <3>5 DEF Accounted
    <3>7. msgs[m].version \in Present'
      BY <2>2, <3>1, <3>4, <3>5 DEF Present, Exists
    <3>8. msgs'[m].version \in waived' \cup recorded' \cup {0}
      BY <3>1, <3>6, <3>7, CoveredKept
    <3>9. CheckedMessage' = {m} /\ pc' # "execute"
      BY <2>2, <3>1, <3>4 DEF CheckedMessage
    <3> QED
      BY <3>8, <3>9 DEF CheckSound, Covered
  <2> QED
    BY <1>2, <1>6, <2>1, <2>2 DEF CleanupDecide
<1>7. ASSUME NEW p \in Paths, PathStep(p) PROVE CheckSound'
  <2>0. /\ pc = "execute" /\ pc' = "execute" /\ UNCHANGED <<seenLocal, seenRemote, plan>> /\ outcome[p] = "none"
        /\ \/ Finish(p, "ok") \/ Finish(p, "failed")
           \/ Enter(p, "sent") /\ UploadSend(p)
           \/ Enter(p, "journaled") /\ UploadJournal(p)
           \/ Enter(p, "fetched") /\ DownloadFetch(p)
           \/ Enter(p, "checked") /\ (DownloadCheck(p) \/ DeleteCheck(p))
    BY <1>7, PathSteps
  <2>1. CASE Finish(p, "ok") \/ Finish(p, "failed") \/ Enter(p, "journaled") \/ Enter(p, "fetched")
    BY <1>1, <2>1 DEF Finish, Enter
  <2>2. CASE Enter(p, "sent") /\ UploadSend(p)
    <3>1. /\ cur' = p /\ stage' = "sent" /\ got'[p] = Len(msgs) + 1 /\ local' = local /\ UNCHANGED made
          /\ Len(msgs) < MaxMessages /\ msgs' = Append(msgs, [path |-> p, version |-> local[p], edits |-> 0])
      BY <1>0, <2>2 DEF Enter, UploadSend, disk, TypePlan
    <3>2. local[p] \in 0..MaxChanges /\ local[p] <= made' /\ made' \in 0..MaxChanges /\ made <= made'
      BY <1>0, <3>1 DEF TypeFiles, Numbered
    <3>3. msgs'[Len(msgs) + 1] = [path |-> p, version |-> local[p], edits |-> 0]
      BY <1>0, <3>1, <3>2, MessagePosted
    <3>4. CheckedMessage' = {got'[p]}
      BY <2>0, <3>1 DEF CheckedMessage
    <3> QED
      BY <3>1, <3>3, <3>4 DEF CheckSound
  <2>3. CASE Enter(p, "checked") /\ DownloadCheck(p)
    <3>1. cur' = p /\ stage' = "checked" /\ plan[p] = "download" /\ local[p] = seenLocal[p] /\ local' = local
      BY <2>3 DEF Enter, DownloadCheck, disk
    <3>2. Covered(local[p])
      BY <1>0, <2>0, <3>1 DEF PlanSound, OperationSound
    <3>3. local[p] \in Present' \cup {0}
      BY <3>1 DEF Present
    <3>4. CheckedMessage' = {}
      BY <2>0, <3>1 DEF CheckedMessage
    <3>5. local'[p] \in waived' \cup recorded' \cup {0}
      BY <3>1, <3>2, <3>3, CoveredKept
    <3> QED
      BY <3>1, <3>4, <3>5 DEF CheckSound, Covered
  <2>4. CASE Enter(p, "checked") /\ DeleteCheck(p)
    <3>1. cur' = p /\ stage' = "checked" /\ UNCHANGED <<local, msgs>>
      BY <2>4 DEF Enter, DeleteCheck, disk
    <3>2. CASE plan[p] = "delete_local" /\ local[p] = seenLocal[p]
      <4>1. Covered(local[p])
        BY <1>0, <2>0, <3>2 DEF PlanSound, OperationSound
      <4>2. local[p] \in Present' \cup {0}
        BY <3>1 DEF Present
      <4>3. CheckedMessage' = {}
        BY <2>0, <3>1, <3>2 DEF CheckedMessage
      <4>4. local'[p] \in waived' \cup recorded' \cup {0}
        BY <3>1, <4>1, <4>2, CoveredKept
      <4> QED
        BY <3>1, <4>3, <4>4 DEF CheckSound, Covered
    <3>3. CASE /\ plan[p] = "delete_remote" /\ Exists(seenRemote[p].mid)
               /\ Fingerprint(seenRemote[p].mid) = seenRemote[p].hash
      <4>1. PICK m, h : m = seenRemote[p].mid /\ h = seenRemote[p].hash
        OBVIOUS
      <4>2. m # 0 /\ Accounted(m, h)
        BY <1>0, <2>0, <3>3, <4>1 DEF PlanSound, OperationSound
      <4>3. m \in DOMAIN msgs
        BY <1>0, <4>1, <4>2, EntryOfRow DEF Own
      <4>4. Covered(msgs[m].version) /\ msgs[m].version \in Present'
        BY <3>1, <3>3, <4>1, <4>2, <4>3 DEF Accounted, Present, Exists
      <4>5. msgs'[m].version \in waived' \cup recorded' \cup {0}
        BY <3>1, <4>4, CoveredKept
      <4>6. CheckedMessage' = {m} /\ plan'[p] = "delete_remote"
        BY <2>0, <3>1, <3>3, <4>1 DEF CheckedMessage
      <4> QED
        BY <3>1, <4>5, <4>6 DEF CheckSound, Covered
    <3> QED
      BY <2>4, <3>2, <3>3 DEF DeleteCheck
  <2> QED
    BY <2>0, <2>1, <2>2, <2>3, <2>4
<1> QED
  BY <1>2, <1>3, <1>4, <1>5, <1>6, <1>7 DEF Next, EngineStep, PathStep, Abandon, Record

LEMMA NumberedKept == ASSUME SyncInv, [Next]_vars PROVE Numbered'
<1>1. \A m \in DOMAIN msgs' : msgs'[m].version <= made' /\ msgs'[m].edits <= made'
  BY MessagesKept DEF SyncInv, Messaged
<1> QED
  BY <1>1, FilesKept, TreesKept DEF Numbered

LEMMA SyncInitial == ASSUME Init PROVE SyncInv
<1>0. /\ MaxChanges \in Nat /\ MaxMessages \in Nat /\ NoPath \notin Paths
      /\ 0 \in 0..MaxChanges /\ 0 \in 0..MaxMessages
  BY SyncConstants DEF SyncConstants
<1>1. TypeFiles
  BY <1>0, EmptySeq DEF Init, TypeFiles, Versions
<1>2. TypeStore
  <2>1. NoRow \in Row
    BY <1>0 DEF NoRow, Row, Hash, Statuses
  <2> QED
    BY <2>1, EmptySeq DEF Init, TypeStore
<1>3. TypePosition
  BY DEF Init, TypePosition
<1>4. TypeTrees
  <2>1. NoEntry \in EntryType
    BY <1>0 DEF NoEntry, EntryType, Hash
  <2> QED
    BY <1>0, <2>1 DEF Init, TypeTrees
<1>5. TypePlan
  BY DEF Init, TypePlan, Operations
<1>6. TypeHistory
  BY DEF Init, TypeHistory
<1>7. TypeOK
  BY <1>1, <1>2, <1>3, <1>4, <1>5, <1>6, TypeParts
<1>8. DOMAIN msgs = {} /\ DOMAIN cleanup = {}
  BY LenProperties, EmptySeq DEF Init
<1>9. Numbered
  BY <1>8 DEF Init, Numbered
<1>10. StoreSound
  BY <1>8 DEF Init, StoreSound, NoRow, Null
<1>11. ScanSound /\ PositionSound /\ PlanSound
  BY DEF Init, ScanSound, NoEntry, PositionSound, PlanSound
<1>12. CheckSound
  BY NoCheck DEF Init
<1> QED
  BY <1>7, <1>9, <1>10, <1>11, <1>12 DEF SyncInv

LEMMA SyncKept == ASSUME SyncInv, [Next]_vars PROVE SyncInv'
<1>1. TypeFiles' /\ TypeStore' /\ TypePosition' /\ TypeTrees' /\ TypePlan' /\ TypeHistory'
  BY FilesKept, StoreKept, PositionKept, TreesKept, PlanTyped, HistoryTyped
<1>2. TypeOK'
  BY <1>1, TypeParts, PTL
<1> QED
  BY <1>2, NumberedKept, StoreKept, TreesKept, PositionKept, PlanKept, CheckKept DEF SyncInv

(***************************************************************************)
(* At every point of a cycle the Synced Tree, the scanned trees, the plan  *)
(* and the cleanup journal agree with the folder and the channel, whatever *)
(* the users change while the engine runs and wherever it stops            *)
(* (reconcile_pair, executor::execute, retry_pending_cleanup).             *)
(***************************************************************************)
THEOREM SyncInvariant == Spec => []SyncInv
<1>1. Init => SyncInv
  BY SyncInitial
<1>2. SyncInv /\ [Next]_vars => SyncInv'
  BY SyncKept
<1> QED
  BY <1>1, <1>2, PTL DEF Spec

(***************************************************************************)
(* What a step of the engine may do.                                       *)
(***************************************************************************)
(* A step that moves the engine is one of its own, and those that change a *)
(* file or a message are steps on one path or the cleanup's deletion.      *)
LEMMA EngineWrites ==
  ASSUME SyncInv, [Next]_vars, EngineMoves
  PROVE  /\ UNCHANGED local \/ \E p \in Paths : DownloadReplace(p) \/ DeleteLocal(p)
         /\ \/ UNCHANGED msgs
            \/ CleanupDelete
            \/ \E p \in Paths : UploadSend(p) \/ UploadDiscard(p) \/ DeleteRemote(p)
<1>1. EngineStep
  BY TreeWriters DEF EngineMoves, position
<1>2. ~UserStep
  BY UserFrame DEF EngineMoves, position
<1>3. /\ \A p \in Paths : ~WriteFile(p) /\ ~RemoveFile(p) /\ ~PostMessage(p)
      /\ \A m \in DOMAIN msgs : ~EditMessage(m) /\ ~DeleteMessage(m)
  BY <1>2 DEF UserStep
<1> QED
  BY <1>3, FileWriters

(* The engine takes a file away after its check only.                      *)
LEMMA FilesTaken ==
  ASSUME SyncInv, [Next]_vars, EngineMoves, NEW p \in Paths, local'[p] # local[p]
  PROVE  /\ Covered(local[p]) /\ OperationSound(p) /\ outcome[p] = "none"
         /\ \/ plan[p] = "download" /\ local'[p] # 0
            \/ plan[p] = "delete_local"
<1>0. PlanSound /\ CheckSound /\ TypeFiles
  BY TypeParts DEF SyncInv
<1>1. PICK q \in Paths : DownloadReplace(q) \/ DeleteLocal(q)
  BY EngineWrites
<1>2. q = p
  BY <1>0, <1>1 DEF DownloadReplace, DeleteLocal, TypeFiles
<1>3. /\ pc = "execute" /\ cur = p /\ stage = "checked" /\ plan[p] \in {"download", "delete_local"}
      /\ plan[p] = "download" => local'[p] = got[p]
  BY <1>0, <1>1, <1>2 DEF DownloadReplace, DeleteLocal, At, TypeFiles
<1>4. OperationSound(p) /\ Covered(local[p])
  BY <1>0, <1>3 DEF PlanSound, CheckSound
<1>5. plan[p] = "download" => got[p] \in 1..made
  BY <1>3, <1>4 DEF OperationSound
<1>6. outcome[p] = "none"
  BY <1>1, <1>2, PathSteps DEF PathStep
<1> QED
  BY <1>0, <1>3, <1>4, <1>5, <1>6 DEF TypeFiles

(* It takes a message away after its check, or an upload of what the       *)
(* folder still holds.                                                     *)
LEMMA MessagesTaken ==
  ASSUME SyncInv, [Next]_vars, EngineMoves, NEW m \in DOMAIN msgs, msgs'[m] # msgs[m]
  PROVE  /\ m \in CheckedMessage
         /\ UNCHANGED <<local, aside>> \/ stage # "sent"
         /\ stage = "sent" => local' = local /\ cur \in Paths
         /\ \/ CleanupDelete /\ m = Head(cleanup).old
            \/ pc = "execute" /\ stage = "sent" /\ m = got[cur]
            \/ \E p \in Paths : pc = "execute" /\ plan[p] = "delete_remote" /\ OperationSound(p)
<1>0. PlanSound /\ TypeFiles /\ TypeOK /\ Numbered /\ PositionSound /\ TypePosition
  BY TypeParts DEF SyncInv
<1>1. CASE CleanupDelete
  <2>1. m = Head(cleanup).old
    BY <1>1 DEF CleanupDelete
  <2> QED
    BY <1>1, <2>1 DEF CleanupDelete, CheckedMessage, disk
<1>2. ASSUME NEW p \in Paths, UploadDiscard(p)
      PROVE  m = got[p] /\ pc = "execute" /\ stage = "sent" /\ cur = p /\ UNCHANGED <<local, aside>>
  BY <1>2 DEF UploadDiscard, At, disk
<1>3. ASSUME NEW p \in Paths, DeleteRemote(p)
      PROVE  /\ m = seenRemote[p].mid /\ pc = "execute" /\ stage = "checked" /\ cur = p /\ UNCHANGED <<local, aside>>
             /\ plan[p] = "delete_remote" /\ OperationSound(p)
  BY <1>0, <1>3 DEF DeleteRemote, At, disk, PlanSound
<1>4. ASSUME NEW p \in Paths, UploadSend(p) PROVE FALSE
  <2>1. local[p] \in 0..MaxChanges /\ local[p] <= made' /\ made' \in 0..MaxChanges /\ made <= made'
    BY <1>0, MadeGrows, <1>4 DEF TypeFiles, Numbered, UploadSend
  <2> QED
    BY <1>0, <1>4, <2>1, MessagePosted DEF UploadSend
<1>5. CASE \E p \in Paths : UploadDiscard(p)
  BY <1>2, <1>5 DEF CheckedMessage
<1>6. CASE \E p \in Paths : DeleteRemote(p)
  <2>1. PICK p \in Paths : DeleteRemote(p)
    BY <1>6
  <2>2. m \in CheckedMessage
    BY <1>3, <2>1 DEF CheckedMessage
  <2> QED
    BY <1>3, <2>1, <2>2
<1> QED
  BY <1>1, <1>4, <1>5, <1>6, EngineWrites

(***************************************************************************)
(* What the engine has not recorded it neither overwrites nor deletes      *)
(* (verify_local_precondition, verify_remote_precondition, cleanup_action).*)
(***************************************************************************)
THEOREM UnrecordedSafe == Spec => UnrecordedKept
<1>1. ASSUME SyncInv, [Next]_vars, EngineMoves, NEW v \in Present, v \notin Present' PROVE v \in waived \cup recorded
  <2>0. CheckSound /\ TypeFiles
    BY <1>1, TypeParts DEF SyncInv
  <2>1. /\ \A p \in Paths : local'[p] # v
        /\ v \notin aside'
        /\ \A m \in DOMAIN msgs' : msgs'[m].version # v
        /\ v # 0
    BY <1>1 DEF Present
  <2>2. CASE v \in {local[p] : p \in Paths}
    <3>1. PICK p \in Paths : v = local[p]
      BY <2>2
    <3> QED
      BY <1>1, <2>1, <3>1, FilesTaken DEF Covered
  <2>3. CASE v \in aside
    <3>1. aside \subseteq aside'
      BY <1>1, FileWriters DEF DownloadAside
    <3> QED
      BY <2>1, <2>3, <3>1
  <2>4. CASE v \in {msgs[m].version : m \in DOMAIN msgs}
    <3>1. PICK m \in DOMAIN msgs : v = msgs[m].version
      BY <2>4
    <3>2. m \in DOMAIN msgs'
      BY <1>1, MessagesKept DEF SyncInv, Messaged, Grows
    <3>3. msgs'[m] # msgs[m]
      BY <2>1, <3>1, <3>2
    <3>4. m \in CheckedMessage /\ (stage = "sent" => local' = local /\ cur \in Paths)
      BY <1>1, <3>3, MessagesTaken
    <3>5. Covered(v) \/ (stage = "sent" /\ v = local[cur])
      BY <2>0, <3>1, <3>4 DEF CheckSound
    <3> QED
      BY <2>1, <3>4, <3>5 DEF Covered
  <2> QED
    BY <2>2, <2>3, <2>4 DEF Present
<1>2. SyncInv /\ [Next]_vars => (EngineMoves => Present \ Present' \subseteq waived \cup recorded)
  BY <1>1
<1> QED
  BY <1>2, SyncInvariant, PTL DEF Spec, UnrecordedKept

(***************************************************************************)
(* The engine keeps to the reviewed direction and deletion preference      *)
(* (operations_for_policy, and settings that only change while it is       *)
(* stopped).                                                               *)
(***************************************************************************)
THEOREM PolicyKept == Spec => PolicyHeld
<1> DEFINE Held ==
      EngineMoves =>
         /\ \A p \in Paths : LET chosen == rows[p].status \in Resolutions IN
              /\ local'[p] # local[p] => policy.direction # "upload_only" \/ chosen
              /\ local'[p] = 0 /\ local[p] # 0 => policy.propagate_deletions
              /\ Len(msgs') > Len(msgs) /\ cur' = p => policy.direction # "download_only" \/ chosen
         /\ \A m \in DOMAIN msgs : Exists(m) /\ msgs'[m].version = 0 =>
              \/ policy.propagate_deletions /\ policy.direction # "download_only"
              \/ pc = "execute" /\ m = got[cur] /\ stage = "sent"
              \/ pc # "execute" /\ m = Head(cleanup).old /\ m < Head(cleanup).new
<1>1. ASSUME SyncInv, [Next]_vars, EngineMoves, NEW p \in Paths, local'[p] # local[p]
      PROVE  /\ policy.direction # "upload_only" \/ rows[p].status \in Resolutions
             /\ local'[p] = 0 => policy.propagate_deletions
  BY <1>1, FilesTaken DEF OperationSound
<1>2. ASSUME SyncInv, [Next]_vars, EngineMoves, NEW p \in Paths, Len(msgs') > Len(msgs), cur' = p
      PROVE  policy.direction # "download_only" \/ rows[p].status \in Resolutions
  <2>0. TypeFiles /\ PlanSound /\ NoPath \notin Paths
    BY <1>2, TypeParts, SyncConstants DEF SyncInv, SyncConstants
  <2>1. ASSUME NEW k, msgs' = [msgs EXCEPT ![k] = Gone] PROVE FALSE
    <3>1. DOMAIN msgs' = DOMAIN msgs /\ Len(msgs) \in Nat
      BY <2>0, <2>1, DomainOfMsgs
    <3>2. msgs' \in Seq(MessageType)
      BY <1>2, FilesKept DEF TypeFiles
    <3>3. Len(msgs') = Len(msgs)
      BY <2>0, <3>1, <3>2, LenProperties, DomainOfMsgs DEF TypeFiles
    <3> QED
      BY <1>2, <3>1, <3>3
  <2>2. PICK q \in Paths : UploadSend(q)
    <3>1. msgs' # msgs
      BY <1>2, <2>0, DomainOfMsgs
    <3> QED
      BY <1>2, <2>1, <3>1, EngineWrites DEF CleanupDelete, UploadDiscard, DeleteRemote
  <2>3. cur' = q /\ plan[q] = "upload" /\ outcome[q] = "none" /\ stage = "none" /\ pc = "execute"
    BY <2>2 DEF UploadSend, Enter, Pending
  <2>4. cur # q
    BY <1>2, <2>0, <2>3 DEF SyncInv, PositionSound
  <2> QED
    BY <1>2, <2>0, <2>3, <2>4 DEF PlanSound, OperationSound
<1>3. ASSUME SyncInv, [Next]_vars, EngineMoves, NEW m \in DOMAIN msgs, Exists(m), msgs'[m].version = 0
      PROVE  \/ policy.propagate_deletions /\ policy.direction # "download_only"
             \/ pc = "execute" /\ m = got[cur] /\ stage = "sent"
             \/ pc # "execute" /\ m = Head(cleanup).old /\ m < Head(cleanup).new
  <2>1. \/ CleanupDelete /\ m = Head(cleanup).old
        \/ pc = "execute" /\ stage = "sent" /\ m = got[cur]
        \/ \E p \in Paths : pc = "execute" /\ plan[p] = "delete_remote" /\ OperationSound(p)
    BY <1>3, MessagesTaken DEF Exists
  <2>2. CASE CleanupDelete /\ m = Head(cleanup).old
    <3>1. pc \in {"retry", "tidy"} /\ cleanup # << >> /\ cleanup \in Seq(ItemType)
      BY <1>3, <2>2, TypeParts DEF CleanupDelete, SyncInv, PositionSound, TypeStore
    <3>2. 1 \in DOMAIN cleanup /\ Head(cleanup) = cleanup[1]
      BY <3>1, LenProperties, EmptySeq
    <3>3. ItemSound(cleanup[1])
      BY <1>3, <3>2, StoreParts, TypeParts DEF SyncInv, SoundStore
    <3> QED
      BY <2>2, <3>1, <3>2, <3>3 DEF ItemSound
  <2>3. CASE \E p \in Paths : pc = "execute" /\ plan[p] = "delete_remote" /\ OperationSound(p)
    BY <2>3 DEF OperationSound
  <2> QED
    BY <2>1, <2>2, <2>3
<1>4. SyncInv /\ [Next]_vars => Held
  <2> SUFFICES ASSUME SyncInv, [Next]_vars, EngineMoves PROVE Held
    OBVIOUS
  <2>1. \A p \in Paths : local'[p] = 0 /\ local[p] # 0 => local'[p] # local[p]
    OBVIOUS
  <2> QED
    BY <1>1, <1>2, <1>3, <2>1
<1> QED
  BY <1>4, SyncInvariant, PTL DEF Spec, PolicyHeld

(***************************************************************************)
(* Conflicts.                                                              *)
(***************************************************************************)
(* What the plan makes of a conflict while the cycle executes it.          *)
OneWay(p) ==
    \/ policy.direction = "upload_only" /\ seenRemote[p].mid = 0
    \/ policy.direction = "download_only" /\ seenLocal[p] = 0

LEMMA MarkedConflict ==
  ASSUME NEW p \in Paths, NEW row \in Row, row.status = "conflict"
  PROVE  Marked(row, "conflict").status = "conflict"
  BY DEF Marked, Row

(* Resuming, adopting and forgetting are what a new plan does to a         *)
(* conflict (resume_interrupted_uploads, adopt_matching_files).            *)
LEMMA ConflictPlanned ==
  ASSUME SyncInv, Prepare, NEW p \in Paths, rows[p].status = "conflict", rows'[p].status # "conflict"
  PROVE  \/ local[p] = 0 /\ seenRemote[p].mid = 0
         \/ /\ policy.adopt_matching_files /\ local[p] # 0 /\ seenRemote[p].mid # 0
            /\ rows'[p] = [rows[p] EXCEPT !.status = "synced"]
<1> DEFINE adopted == Upserted(local[p], seenRemote[p], "synced")
<1>0. TypeTrees /\ ScanSound /\ RowSound(p, rows[p]) /\ Kept(p) \in Row /\ rows[p] \in Row /\ rows[p] # NoRow
  BY TypeParts, TreeSound DEF SyncInv, RowSound, NoRow
<1>1. SUFFICES ASSUME local[p] # 0 \/ seenRemote[p].mid # 0
               PROVE  /\ policy.adopt_matching_files /\ local[p] # 0 /\ seenRemote[p].mid # 0
                      /\ rows'[p] = [rows[p] EXCEPT !.status = "synced"]
  OBVIOUS
<1>2. rows'[p] \in {Kept(p), Conflicted(p)}
  BY DEF Prepare
<1>3. Kept(p) = Tree[p]
  BY <1>1 DEF Kept
<1>4. Tree[p] = IF Baselined(p) THEN adopted ELSE rows[p]
  BY DEF Tree
<1>5. adopted.status = "synced" /\ adopted # NoRow
  BY DEF Upserted, NoRow
<1>6. Conflicted(p).status = "conflict"
  <2>1. Tree[p] # NoRow
    BY <1>0, <1>4, <1>5
  <2>2. Conflicted(p) = [Tree[p] EXCEPT !.status = "conflict"]
    BY <1>3, <2>1 DEF Conflicted, Marked
  <2>3. Tree[p] \in Row
    BY <1>0, <1>3
  <2> QED
    BY <2>2, <2>3 DEF Row
<1>7. rows'[p] = adopted /\ Baselined(p)
  BY <1>2, <1>3, <1>4, <1>6
<1>8. Adoptable(local[p], seenRemote[p], rows[p])
  BY <1>7 DEF Baselined, Resumable
<1>9. /\ policy.adopt_matching_files /\ local[p] # 0 /\ seenRemote[p].mid # 0
      /\ rows[p].lh = local[p] /\ rows[p].rh = seenRemote[p].hash
  BY <1>0, <1>8 DEF Adoptable
<1>10. rows[p].mid = seenRemote[p].mid
  <2>1. PICK m, h : m = seenRemote[p].mid /\ h = seenRemote[p].hash
    OBVIOUS
  <2>2. h \in {m} \X (0..MaxChanges) /\ m # 0 /\ m \in Nat
    BY <1>0, <1>9, <2>1, EntryOfRow DEF Dated, EntryType
  <2>3. h # Null /\ h # Blank /\ h[1] = m
    <3>1. PICK x \in 0..MaxChanges : h = <<m, x>>
      BY <2>2
    <3>2. <<m, x>> # <<>> /\ <<m, x>>[1] = m
      OBVIOUS
    <3>3. <<m, x>> # <<0, 0>>
      BY <2>2
    <3> QED BY <3>1, <3>2, <3>3 DEF Null, Blank
  <2> QED
    BY <1>0, <1>9, <2>1, <2>3 DEF RowSound
<1>11. adopted = [rows[p] EXCEPT !.status = "synced"]
  <2>1. adopted = [lh |-> rows[p].lh, rh |-> rows[p].rh, mid |-> rows[p].mid, status |-> "synced"]
    BY <1>9, <1>10 DEF Upserted
  <2> QED
    BY <1>0, <2>1 DEF Row
<1> QED
  BY <1>7, <1>9, <1>11

(* Executing, a conflict is only overruled where one side owns the path.   *)
LEMMA ConflictExecuted ==
  ASSUME SyncInv, [Next]_vars, pc \in {"execute", "tidy", "record"}, Settle \/ Record \/ \E q \in Paths : UploadJournal(q),
         NEW p \in Paths, rows[p].status = "conflict", rows'[p].status # "conflict"
  PROVE  OneWay(p)
<1>0. /\ TypeStore /\ TypePlan /\ OperationSound(p) /\ rows[p] \in Row
  BY TypeParts, TreeSound DEF SyncInv, PlanSound, RowSound
<1>1. /\ plan[p] = "none" => outcome[p] = "none"
      /\ plan[p] = "conflict" => outcome[p] # "ok"
      /\ plan[p] \in {"none", "conflict"} \/ OneWay(p)
  BY <1>0 DEF OperationSound, OneWay
<1>2. CASE Settle
  <2>1. PICK journaled \in SUBSET {q \in Paths : Uploaded(q)} :
          rows' = [q \in Paths |-> IF q \in journaled THEN Journaled(seenLocal[q], got[q]) ELSE rows[q]]
    BY <1>2 DEF Settle
  <2>2. plan[p] = "upload"
    BY <2>1 DEF Uploaded
  <2> QED
    BY <1>1, <2>2
<1>3. CASE Record
  <2>1. PICK readBack \in BOOLEAN : rows'[p] = Recorded(p, readBack)
    BY <1>3 DEF Record
  <2>2. outcome[p] # "none"
    BY <2>1 DEF Recorded
  <2>3. ASSUME plan[p] = "conflict" PROVE FALSE
    <3>1. outcome[p] = "failed"
      BY <1>0, <1>1, <2>2, <2>3 DEF TypePlan
    <3>2. Recorded(p, readBack) \in {Marked(rows[p], "conflict"), Upserted(seenLocal[p], seenRemote[p], "conflict")}
      BY <2>3, <3>1 DEF Recorded
    <3> QED
      BY <1>0, <2>1, <3>2, MarkedConflict DEF Upserted
  <2> QED
    BY <1>1, <2>2, <2>3
<1>4. CASE \E q \in Paths : UploadJournal(q)
  <2>1. PICK q \in Paths : UploadJournal(q)
    BY <1>4
  <2>2. p = q
    BY <1>0, <2>1 DEF UploadJournal, TypeStore
  <2>3. plan[p] = "upload"
    BY <2>1, <2>2 DEF UploadJournal
  <2> QED
    BY <1>1, <2>3
<1> QED
  BY <1>2, <1>3, <1>4

(***************************************************************************)
(* "No conflict is resolved automatically": a conflict is left by the      *)
(* user, where a copy is missing that the mapping does not own, or as an   *)
(* adoption of the copies it names (prepare_reconciliation,                *)
(* record_results).                                                        *)
(***************************************************************************)
THEOREM ConflictsWait == Spec => ConflictStays
<1> DEFINE Stays ==
      \A p \in Paths :
         LET here == (IF pc = "prepare" THEN local[p] ELSE seenLocal[p]) # 0
             there == seenRemote[p].mid # 0
         IN rows[p].status = "conflict" /\ rows'[p].status # "conflict" =>
              \/ pc = "idle" /\ (rows'[p].status \in Resolutions \/ rows'[p] = NoRow)
              \/ pc # "idle" /\ ~here /\ ~there
              \/ pc # "idle" /\ policy.direction = "upload_only" /\ ~there
              \/ pc # "idle" /\ policy.direction = "download_only" /\ ~here
              \/ /\ policy.adopt_matching_files /\ here /\ there
                 /\ rows'[p] = [rows[p] EXCEPT !.status = "synced"]
<1>1. ASSUME SyncInv, [Next]_vars, NEW p \in Paths, rows[p].status = "conflict", rows'[p].status # "conflict"
      PROVE  \/ pc = "idle" /\ (rows'[p].status \in Resolutions \/ rows'[p] = NoRow)
             \/ pc \in {"execute", "tidy", "record"} /\ OneWay(p)
             \/ pc = "prepare" /\ local[p] = 0 /\ seenRemote[p].mid = 0
             \/ /\ pc = "prepare" /\ policy.adopt_matching_files /\ local[p] # 0 /\ seenRemote[p].mid # 0
                /\ rows'[p] = [rows[p] EXCEPT !.status = "synced"]
  <2>0. TypeStore /\ rows[p] \in Row
    BY <1>1, TypeParts, TreeSound DEF SyncInv, RowSound
  <2>1. ~CleanupDecide
    <3>1. SUFFICES ASSUME CleanupDecide PROVE FALSE
      OBVIOUS
    <3>2. rows' = [rows EXCEPT ![Head(cleanup).path] = Marked(@, "conflict")]
      BY <1>1, <3>1 DEF CleanupDecide
    <3>3. rows'[p] \in {rows[p], Marked(rows[p], "conflict")}
      BY <2>0, <3>2 DEF TypeStore
    <3> QED
      BY <1>1, <2>0, <3>3, MarkedConflict
  <2>2. CASE Prepare
    BY <1>1, <2>2, ConflictPlanned, PrepareFrame
  <2>3. CASE Settle \/ Record \/ \E q \in Paths : UploadJournal(q)
    <3>1. pc \in {"execute", "tidy", "record"}
      BY <2>3, SettleFrame, RecordFrame DEF UploadJournal, At
    <3> QED
      BY <1>1, <2>3, <3>1, ConflictExecuted
  <2>4. ASSUME NEW q \in Paths, NEW resolution \in Resolutions, Resolve(q, resolution)
        PROVE  pc = "idle" /\ rows'[p].status \in Resolutions
    <3>1. pc = "idle" /\ rows' = [rows EXCEPT ![q] = [rows[q] EXCEPT !.status = resolution]]
      BY <2>4 DEF Resolve
    <3>2. q = p
      BY <1>1, <2>0, <3>1 DEF TypeStore
    <3> QED
      BY <2>0, <3>1, <3>2 DEF TypeStore, Row
  <2>5. CASE \E chosen \in Policies : ReplacePair(chosen)
    BY <2>5 DEF ReplacePair
  <2>6. CASE UNCHANGED rows
    BY <1>1, <2>6
  <2> QED
    BY <1>1, <2>1, <2>2, <2>3, <2>4, <2>5, <2>6, StoreWriters
<1>2. SyncInv /\ [Next]_vars => Stays
  <2> SUFFICES ASSUME SyncInv, [Next]_vars, NEW p \in Paths, rows[p].status = "conflict", rows'[p].status # "conflict"
               PROVE  LET here == (IF pc = "prepare" THEN local[p] ELSE seenLocal[p]) # 0
                          there == seenRemote[p].mid # 0
                      IN  \/ pc = "idle" /\ (rows'[p].status \in Resolutions \/ rows'[p] = NoRow)
                          \/ pc # "idle" /\ ~here /\ ~there
                          \/ pc # "idle" /\ policy.direction = "upload_only" /\ ~there
                          \/ pc # "idle" /\ policy.direction = "download_only" /\ ~here
                          \/ /\ policy.adopt_matching_files /\ here /\ there
                             /\ rows'[p] = [rows[p] EXCEPT !.status = "synced"]
    OBVIOUS
  <2> QED
    BY <1>1 DEF OneWay
<1> QED
  BY <1>2, SyncInvariant, PTL DEF Spec, ConflictStays
=============================================================================
