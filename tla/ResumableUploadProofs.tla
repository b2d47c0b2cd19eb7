------------------------ MODULE ResumableUploadProofs ------------------------
(***************************************************************************)
(* Proofs about ResumableUpload, for any number of attempts, parts,        *)
(* workers, file ids and changes of the source.  The parts of the          *)
(* invariant are stated of given values, so that a step can be described   *)
(* by the values before and after it.                                      *)
(***************************************************************************)
EXTENDS ResumableUpload, FiniteSetTheorems, WellFoundedInduction, TLAPS

(* All that Telegram has or may still get of file f is the source. *)
Pure(f, src, st, wi) ==
    /\ \A p \in Parts : st[f][p] \in {Nothing, src.content[p]}
    /\ \A w \in wi : w.file = f => w.byte = src.content[w.part]

(* A settled session of the present stamp: the stamp can no longer lie, and *)
(* nothing but the source was sent.                                        *)
Trusted(h, src, n, st, wi) ==
    /\ h.file <= n
    /\ h.stamp <= src.stamp
    /\ h.settled /\ h.stamp = src.stamp =>
          ~src.young /\ (h.file # 0 => Pure(h.file, src, st, wi))

(* A record: trusted, and its prefix confirmed. *)
RecordOK(rec, src, n, st, wi, ac) ==
    rec # NoRecord =>
        /\ Trusted(rec, src, n, st, wi)
        /\ \A p \in Parts : p < rec.done => <<rec.file, p>> \in ac

(* An attempt whose source did not change: its file is the source. *)
Steady(r, src, st, wi) ==
    r.steady => /\ r.stamp = src.stamp
                /\ r.file # 0 => Pure(r.file, src, st, wi)

(* What an attempt takes for confirmed is. *)
Answers(r, ac) ==
    /\ \A p \in Parts :
          p < r.done \/ p \in r.arrived \/ p \in r.confirmed => <<r.file, p>> \in ac
    /\ r.pc = "Publish" => \A p \in Parts : <<r.file, p>> \in ac

(* The window of parts an attempt has read and not yet counted. *)
Window(r) ==
    /\ r.pc \in {"Verify", "Send", "Publish"} => r.file # 0
    /\ r.pc # "Send" => r.flying = {} /\ r.arrived = {} /\ r.confirmed = {}
    /\ r.arrived \subseteq r.flying
    /\ \A p \in r.flying \cup r.confirmed : p < r.next
    /\ r.pc = "Send" /\ ~r.failed =>
          \A p \in Parts : r.done <= p /\ p < r.next => p \in r.flying \cup r.confirmed

RunOK(r, src, n, st, wi, ac) ==
    /\ Trusted(r, src, n, st, wi)
    /\ Steady(r, src, st, wi)
    /\ Answers(r, ac)
    /\ Window(r)

(* A request on its way belongs to a file in use; one that is awaited       *)
(* carries what its attempt has read.                                      *)
WireOK(wi, n, runs) ==
    \A w \in wi :
        /\ w.file <= n
        /\ w.by # Nobody =>
              /\ runs[w.by].file = w.file
              /\ runs[w.by].pc = "Send"
              /\ w.part \in runs[w.by].flying \ runs[w.by].arrived
              /\ w.byte = runs[w.by].sent[w.part]

Unused(n, st) == \A f \in Files : f > n => st[f] = Blank

IInv ==
    /\ TypeOK
    /\ RecordOK(record, source, files, stored, wire, acked)
    /\ \A a \in Attempts : RunOK(run[a], source, files, stored, wire, acked)
    /\ WireOK(wire, files, run)
    /\ Unused(files, stored)

-----------------------------------------------------------------------------
(* The operators of the model. *)

(* Types of the values an attempt starts from and ends in. *)
LEMMA RunTypes ==
    /\ Blank \in [Parts -> Part]
    /\ \A pc \in {"Idle", "Opened", "Over"} : NotRunning(pc) \in Run
    /\ \A r \in Run : Opened(r) \in Run /\ Uploaded(r) \in Run
    /\ \A r \in Run : r.file # 0 => Recorded(r) \in Session
  <1>1. Blank \in [Parts -> Part]
    BY DEF Blank, Part
  <1>2. \A pc \in {"Idle", "Opened", "Over"} : NotRunning(pc) \in Run
    BY <1>1, UploadAssumption DEF NotRunning, Run, Stamps
  <1>3. \A r \in Run : Opened(r) \in Run
    BY <1>2 DEF Opened, Run
  <1>4. \A r \in Run : Uploaded(r) \in Run
    BY <1>3 DEF Uploaded, Run
  <1>5. \A r \in Run : r.file # 0 => Recorded(r) \in Session
    <2> TAKE r \in Run
    <2> HAVE r.file # 0
    <2>1. Prefix(r.sent, r.done) \in [Parts -> Part]
      BY DEF Prefix, Run, Part
    <2> QED BY <2>1 DEF Recorded, Session, Run
  <1> QED BY <1>1, <1>2, <1>3, <1>4, <1>5

(* The confirmed prefix grows over confirmed parts only. *)
LEMMA NewPrefixOK ==
    ASSUME NEW r \in Run, NEW confirmed \in SUBSET Parts
    PROVE  /\ NewPrefix(r, confirmed) \in r.done..TotalParts
           /\ \A p \in r.done..(NewPrefix(r, confirmed) - 1) : p \in confirmed
  <1> DEFINE T == {n \in Nat : n >= r.done /\ n \notin confirmed}
  <1>1. r.done \in 0..TotalParts /\ TotalParts \in Nat
    BY UploadAssumption DEF Run
  <1>2. TotalParts \in T
    BY <1>1 DEF Parts
  <1>3. PICK n \in T : \A y \in T : ~(<<y, n>> \in OpToRel(<, Nat))
    <2>1. IsWellFoundedOn(OpToRel(<, Nat), Nat)
      BY NatLessThanWellFounded
    <2>2. T \subseteq Nat /\ T # {}
      BY <1>2
    <2> QED BY <2>1, <2>2, WFMin
  <1>4. \A y \in T : ~(y < n)
    BY <1>3 DEF OpToRel
  <1>5. n \in r.done..TotalParts /\ n \notin confirmed
    BY <1>1, <1>2, <1>4
  <1>6. \A p \in r.done..(n - 1) : p \in confirmed
    BY <1>1, <1>4, <1>5
  <1> QED BY <1>5, <1>6 DEF NewPrefix

-----------------------------------------------------------------------------
(* Steps of one attempt that leave the source and Telegram alone. *)

(* More file ids in use harm nobody. *)
LEMMA MoreFiles ==
    ASSUME NEW h, NEW n \in Nat, NEW n2 \in Nat, n <= n2,
           h.file \in Nat, Trusted(h, source, n, stored, wire)
    PROVE  Trusted(h, source, n2, stored, wire)
  BY DEF Trusted

(* It is enough to look at the attempt that moves and at the record. *)
LEMMA OneMoves ==
    ASSUME IInv, NEW a \in Attempts, NEW r \in Run, Moves(a, r),
           UNCHANGED <<source, stored, wire, acked>>,
           files' \in 0..MaxFiles, files <= files',
           record' \in Session \cup {NoRecord},
           RecordOK(record', source, files', stored, wire, acked),
           RunOK(r, source, files', stored, wire, acked),
           r.pc = "Send" => r.done <= r.next,
           \A w \in wire : w.by = a =>
               /\ r.file = run[a].file
               /\ r.pc = "Send"
               /\ w.part \in r.flying \ r.arrived
               /\ r.sent[w.part] = run[a].sent[w.part]
    PROVE  IInv'
  <1>1. TypeOK'
    BY DEF IInv, TypeOK, Moves
  <1>2. run' \in [Attempts -> Run] /\ run'[a] = r
        /\ \A b \in Attempts \ {a} : run'[b] = run[b]
    BY DEF IInv, TypeOK, Moves
  <1>3. files \in Nat /\ files' \in Nat
    BY UploadAssumption DEF IInv, TypeOK
  <1>4. ASSUME NEW b \in Attempts
        PROVE  RunOK(run'[b], source, files', stored, wire, acked)
    <2>1. CASE b = a
      BY <2>1, <1>2
    <2>2. CASE b # a
      <3>1. run'[b] = run[b] /\ RunOK(run[b], source, files, stored, wire, acked)
        BY <2>2, <1>2 DEF IInv
      <3>2. run[b].file \in Nat
        BY DEF IInv, TypeOK, Run, Files
      <3>3. Trusted(run[b], source, files, stored, wire)
        BY <3>1 DEF RunOK
      <3>4. Trusted(run[b], source, files', stored, wire)
        BY <1>3, <3>2, <3>3, MoreFiles
      <3> QED BY <3>1, <3>4 DEF RunOK
    <2> QED BY <2>1, <2>2
  <1>5. WireOK(wire, files', run')
    <2> SUFFICES ASSUME NEW w \in wire
                 PROVE  /\ w.file <= files'
                        /\ w.by # Nobody =>
                              /\ run'[w.by].file = w.file
                              /\ run'[w.by].pc = "Send"
                              /\ w.part \in run'[w.by].flying \ run'[w.by].arrived
                              /\ w.byte = run'[w.by].sent[w.part]
      BY DEF WireOK
    <2>1. w \in Request
      BY DEF IInv, TypeOK
    <2>2. w.file <= files' 
      <3>1. w.file <= files /\ w.file \in Nat
        BY <2>1 DEF IInv, WireOK, Request, Files
      <3> QED BY <3>1, <1>3
    <2>3. CASE w.by = a
      BY <2>2, <2>3, <1>2 DEF IInv, WireOK
    <2>4. CASE w.by # a
      BY <2>1, <2>2, <2>4, <1>2 DEF IInv, WireOK, Request
    <2> QED BY <2>3, <2>4
  <1>6. Unused(files', stored)
    BY <1>3 DEF IInv, Unused, Files
  <1> QED BY <1>1, <1>4, <1>5, <1>6 DEF IInv

(* An attempt that is not sending awaits nothing. *)
LEMMA NoneAwaited ==
    ASSUME IInv, NEW a \in Attempts, run[a].pc # "Send" \/ run[a].flying = {}
    PROVE  \A w \in wire : w.by # a
  BY UploadAssumption DEF IInv, WireOK

(* Facts about the values at hand. *)
LEMMA Facts ==
    ASSUME IInv, NEW a \in Attempts
    PROVE  /\ run[a] \in Run
           /\ RunOK(run[a], source, files, stored, wire, acked)
           /\ RecordOK(record, source, files, stored, wire, acked)
           /\ record \in Session \cup {NoRecord}
           /\ files \in 0..MaxFiles
           /\ source.stamp \in Nat
           /\ MaxFiles \in Nat
           /\ TotalParts \in Nat
  BY UploadAssumption DEF IInv, TypeOK, Stamps

(* Ending an attempt is always right. *)
LEMMA OverOK ==
    ASSUME source.stamp \in Nat, files \in Nat,
           NEW pc \in {"Idle", "Over"}
    PROVE  RunOK(NotRunning(pc), source, files, stored, wire, acked)
  BY DEF RunOK, Trusted, Steady, Answers, Window, NotRunning, Parts

(* So is going back to the beginning. *)
LEMMA OpenedOK ==
    ASSUME IInv, NEW a \in Attempts
    PROVE  /\ RunOK(Opened(run[a]), source, files, stored, wire, acked)
           /\ RunOK([Opened(run[a]) EXCEPT !.restarted = TRUE],
                    source, files, stored, wire, acked)
           /\ [Opened(run[a]) EXCEPT !.restarted = TRUE] \in Run
  <1>1. run[a] \in Run /\ RunOK(run[a], source, files, stored, wire, acked)
        /\ files \in Nat
    BY Facts
  <1>2. Opened(run[a]) \in Run
    BY <1>1, RunTypes
  <1>3. [Opened(run[a]) EXCEPT !.restarted = TRUE] \in Run
    BY <1>2 DEF Run
  <1> QED
    BY <1>1, <1>3 DEF RunOK, Trusted, Steady, Answers, Window, Opened, NotRunning, Parts, Run

(* What save() writes is as good as the attempt. *)
LEMMA RecordedOK ==
    ASSUME NEW r \in Run, r.file # 0,
           NEW n, RunOK(r, source, n, stored, wire, acked)
    PROVE  /\ Recorded(r) \in Session
           /\ RecordOK(Recorded(r), source, n, stored, wire, acked)
  BY RunTypes DEF RunOK, RecordOK, Trusted, Answers, Recorded

(* A new attempt holds the present stamp and no session. *)
LEMMA BeginOK ==
    ASSUME IInv, NEW a \in Attempts, Begin(a)
    PROVE  IInv'
  <1> DEFINE r == Opened([stamp |-> source.stamp, steady |-> TRUE])
  <1>1. r \in Run
    BY RunTypes DEF Opened, IInv, TypeOK, Run
  <1>2. RunOK(r, source, files, stored, wire, acked)
    BY Facts DEF RunOK, Trusted, Steady, Answers, Window, Opened, NotRunning, Parts
  <1>3. r.pc # "Send"
    BY DEF Opened, NotRunning
  <1>4. \A w \in wire : w.by # a
    BY NoneAwaited DEF Begin
  <1> HIDE DEF r
  <1> QED BY <1>1, <1>2, <1>3, <1>4, Facts, OneMoves DEF Begin, telegram, r

(* A new session has a file id nothing was sent under. *)
LEMMA NewSessionOK ==
    ASSUME IInv, NEW a \in Attempts, run[a].pc \in {"Opened", "Remove"},
           NewSession(a), record' \in {record, NoRecord},
           UNCHANGED <<source, stored, wire, acked>>
    PROVE  IInv'
  <1> PICK s \in BOOLEAN :
           /\ run[a].stamp = source.stamp => (s <=> ~source.young)
           /\ Moves(a, [run[a] EXCEPT !.pc = "Verify", !.file = files + 1,
                        !.done = 0, !.digest = Blank, !.settled = s])
    BY DEF NewSession
  <1> DEFINE r == [run[a] EXCEPT
           !.pc = "Verify", !.file = files + 1, !.done = 0, !.digest = Blank,
           !.settled = s]
  <1>1. run[a] \in Run /\ RunOK(run[a], source, files, stored, wire, acked)
        /\ RecordOK(record, source, files, stored, wire, acked)
        /\ record \in Session \cup {NoRecord}
        /\ files \in 0..MaxFiles /\ MaxFiles \in Nat /\ source.stamp \in Nat
    BY Facts
  <1>2. files' = files + 1 /\ files' \in 0..MaxFiles /\ files' \in Files
    BY <1>1 DEF NewSession, Files
  <1>3. Moves(a, r)
    OBVIOUS
  <1>4. r \in Run
    <2>1. 0 \in 0..TotalParts /\ files + 1 \in Files /\ Blank \in [Parts -> Part]
      BY <1>1, <1>2, RunTypes, UploadAssumption
    <2> QED BY <1>1, <2>1 DEF Run
  <1>5. Pure(files', source, stored, wire)
    <2>1. stored[files'] = Blank
      BY <1>1, <1>2 DEF IInv, Unused
    <2>2. \A w \in wire : w.file # files'
      BY <1>1, <1>2 DEF IInv, WireOK, TypeOK, Request, Files
    <2> QED BY <2>1, <2>2 DEF Pure, Blank
  <1>6. /\ r.pc = "Verify" /\ r.file = files' /\ r.done = 0
        /\ r.settled = s
        /\ r.stamp = run[a].stamp /\ r.steady = run[a].steady
        /\ r.flying = run[a].flying /\ r.arrived = run[a].arrived
        /\ r.confirmed = run[a].confirmed /\ r.next = run[a].next
    BY <1>1, <1>2 DEF Run
  <1> HIDE DEF r
  <1>7. Trusted(r, source, files', stored, wire)
    BY <1>1, <1>2, <1>5, <1>6 DEF RunOK, Trusted
  <1>8. Steady(r, source, stored, wire)
    BY <1>1, <1>5, <1>6 DEF RunOK, Steady
  <1>9. Answers(r, acked) /\ Window(r)
    BY <1>1, <1>2, <1>6 DEF RunOK, Answers, Window, Parts, Files
  <1>10. RecordOK(record', source, files', stored, wire, acked)
    <2>1. CASE record = NoRecord \/ record' = NoRecord
      BY <2>1 DEF RecordOK
    <2>2. CASE record # NoRecord /\ record' = record
      <3>1. record.file \in Nat
        BY <1>1, <2>2 DEF Session, Files
      <3>2. Trusted(record, source, files', stored, wire)
        BY <1>1, <1>2, <2>2, <3>1, MoreFiles DEF RecordOK
      <3> QED BY <1>1, <2>2, <3>2 DEF RecordOK
    <2> QED BY <2>1, <2>2
  <1>11. \A w \in wire : w.by # a
    BY NoneAwaited
  <1>13. RunOK(r, source, files', stored, wire, acked)
    BY <1>7, <1>8, <1>9 DEF RunOK
  <1>14. files <= files' /\ record' \in Session \cup {NoRecord} /\ r.pc # "Send"
    BY <1>1, <1>2, <1>6
  <1> QED BY <1>2, <1>4, <1>10, <1>3, <1>11, <1>13, <1>14, OneMoves

(* The session is the recorded one, a new one, or none until the removal. *)
LEMMA LoadOK ==
    ASSUME IInv, NEW a \in Attempts, NEW old \in BOOLEAN, Load(a, old)
    PROVE  IInv'
  <1>1. run[a] \in Run /\ RunOK(run[a], source, files, stored, wire, acked)
        /\ RecordOK(record, source, files, stored, wire, acked)
        /\ record \in Session \cup {NoRecord}
        /\ files \in 0..MaxFiles /\ MaxFiles \in Nat /\ TotalParts \in Nat
    BY Facts
  <1>2. \A w \in wire : w.by # a
    BY NoneAwaited DEF Load
  <1>3. CASE Usable(run[a], old) /\ UNCHANGED files /\
             Moves(a, [run[a] EXCEPT
                 !.pc = "Verify", !.file = record.file, !.settled = TRUE,
                 !.done = record.done, !.digest = record.digest,
                 !.resumed = record.done > 0])
    <2> DEFINE r == [run[a] EXCEPT
                 !.pc = "Verify", !.file = record.file, !.settled = TRUE,
                 !.done = record.done, !.digest = record.digest,
                 !.resumed = record.done > 0]
    <2>1. record \in Session /\ record # NoRecord /\ record.settled = TRUE
          /\ record.stamp = run[a].stamp
      BY <1>1, <1>3 DEF Usable, Session
    <2>2. (record.done > 0) \in BOOLEAN
      OBVIOUS
    <2>3. r \in Run
      BY <1>1, <2>1, <2>2 DEF Run, Session
    <2>4. /\ r.pc = "Verify" /\ r.file = record.file /\ r.done = record.done
          /\ r.settled = TRUE
          /\ r.stamp = run[a].stamp /\ r.steady = run[a].steady
          /\ r.flying = run[a].flying /\ r.arrived = run[a].arrived
          /\ r.confirmed = run[a].confirmed /\ r.next = run[a].next
      BY <1>1 DEF Run
    <2>5. record.file # 0 /\ run[a].pc = "Opened"
      BY <2>1 DEF Session, Files, Load
    <2> HIDE DEF r
    <2>6. Trusted(r, source, files, stored, wire)
      BY <1>1, <2>1, <2>4 DEF RecordOK, Trusted
    <2>7. Steady(r, source, stored, wire)
      BY <1>1, <2>1, <2>4 DEF RecordOK, RunOK, Trusted, Steady
    <2>8. Answers(r, acked) /\ Window(r)
      BY <1>1, <2>1, <2>4, <2>5 DEF RecordOK, RunOK, Answers, Window
    <2>9. RunOK(r, source, files, stored, wire, acked)
      BY <2>6, <2>7, <2>8 DEF RunOK
    <2>10. Moves(a, r)
      BY <1>3 DEF r
    <2> QED BY <1>1, <1>2, <1>3, <2>3, <2>4, <2>9, <2>10, OneMoves DEF Load, telegram
  <1>4. CASE record = NoRecord /\ NewSession(a)
    BY <1>4, NewSessionOK DEF Load, telegram
  <1>5. CASE Moves(a, [run[a] EXCEPT !.pc = "Remove"]) /\ UNCHANGED files
    <2> DEFINE r == [run[a] EXCEPT !.pc = "Remove"]
    <2>1. r \in Run
      BY <1>1 DEF Run
    <2>2. RunOK(r, source, files, stored, wire, acked) /\ r.pc = "Remove"
      BY <1>1 DEF RunOK, Trusted, Steady, Answers, Window, Run, Load
    <2>3. Moves(a, r)
      BY <1>5
    <2> HIDE DEF r
    <2> QED BY <1>1, <1>2, <1>5, <2>1, <2>2, <2>3, OneMoves DEF Load, telegram
  <1> QED BY <1>3, <1>4, <1>5 DEF Load

(* A record that cannot be continued is removed. *)
LEMMA RemoveOK ==
    ASSUME IInv, NEW a \in Attempts, Remove(a)
    PROVE  IInv'
  BY NewSessionOK DEF Remove, telegram

(* Reading the prefix again concerns the attempt alone. *)
LEMMA VerifyPartOK ==
    ASSUME IInv, NEW a \in Attempts, VerifyPart(a)
    PROVE  IInv'
  <1> DEFINE r == [run[a] EXCEPT !.sent[run[a].next] = source.content[run[a].next],
                                 !.next = @ + 1]
  <1>1. run[a] \in Run /\ RunOK(run[a], source, files, stored, wire, acked)
        /\ TotalParts \in Nat
    BY Facts
  <1>2. run[a].next \in Parts /\ run[a].next + 1 \in 0..TotalParts
    BY <1>1 DEF VerifyPart, Run, Parts
  <1>3. source.content[run[a].next] \in Part
    BY <1>2, UploadAssumption DEF IInv, TypeOK, Parts, Part
  <1>4. r \in Run
    BY <1>1, <1>2, <1>3 DEF Run
  <1>5. RunOK(r, source, files, stored, wire, acked) /\ r.pc = "Verify"
    BY <1>1 DEF VerifyPart, RunOK, Trusted, Steady, Answers, Window, Run
  <1>6. \A w \in wire : w.by # a
    BY NoneAwaited DEF VerifyPart
  <1>7. Moves(a, r)
    BY DEF VerifyPart
  <1> HIDE DEF r
  <1> QED BY <1>4, <1>5, <1>6, <1>7, Facts, OneMoves DEF VerifyPart, telegram

(* A prefix that is the same is sent on from its end. *)
LEMMA VerifiedOK ==
    ASSUME IInv, NEW a \in Attempts, Verified(a)
    PROVE  IInv'
  <1> DEFINE r == [run[a] EXCEPT !.pc = "Send", !.digest = Blank]
  <1>1. run[a] \in Run /\ RunOK(run[a], source, files, stored, wire, acked)
        /\ TotalParts \in Nat
    BY Facts
  <1>2. r \in Run
    BY <1>1, RunTypes DEF Run
  <1>3. RunOK(r, source, files, stored, wire, acked) /\ r.done <= r.next
    BY <1>1 DEF Verified, RunOK, Trusted, Steady, Answers, Window, Run, Parts
  <1>4. \A w \in wire : w.by # a
    BY NoneAwaited DEF Verified
  <1>5. Moves(a, r)
    BY DEF Verified
  <1>6. run[a].file # 0
    BY <1>1 DEF Verified, RunOK, Window
  <1>7. /\ record' \in Session \cup {NoRecord}
        /\ RecordOK(record', source, files, stored, wire, acked)
    BY <1>1, <1>6, RecordedOK DEF Verified
  <1> HIDE DEF r
  <1> QED BY <1>2, <1>3, <1>4, <1>5, <1>7, Facts, OneMoves DEF Verified, telegram

(* Starting over, or ending, without the record. *)
LEMMA RestartOK ==
    ASSUME IInv, NEW a \in Attempts, NEW may, Restart(a, may), run[a].pc # "Send"
    PROVE  IInv'
  <1>1. files \in Nat /\ source.stamp \in Nat /\ files \in 0..MaxFiles
    BY Facts
  <1>2. \A w \in wire : w.by # a
    BY NoneAwaited
  <1>3. RecordOK(record', source, files, stored, wire, acked)
        /\ record' \in Session \cup {NoRecord}
    BY DEF Restart, RecordOK
  <1>4. CASE Moves(a, [Opened(run[a]) EXCEPT !.restarted = TRUE])
    <2> DEFINE r == [Opened(run[a]) EXCEPT !.restarted = TRUE]
    <2>1. r.pc = "Opened"
      BY DEF Opened, NotRunning
    <2>2. r \in Run /\ RunOK(r, source, files, stored, wire, acked)
      BY OpenedOK
    <2>3. Moves(a, r)
      BY <1>4
    <2> HIDE DEF r
    <2> QED BY <1>1, <1>2, <1>3, <2>1, <2>2, <2>3, OneMoves DEF Restart, telegram
  <1>5. CASE Moves(a, NotRunning("Over"))
    <2> DEFINE r == NotRunning("Over")
    <2>1. r.pc = "Over"
      BY DEF NotRunning
    <2>2. r \in Run /\ RunOK(r, source, files, stored, wire, acked)
      BY <1>1, OverOK, RunTypes
    <2>3. Moves(a, r)
      BY <1>5
    <2> HIDE DEF r
    <2> QED BY <1>1, <1>2, <1>3, <2>1, <2>2, <2>3, OneMoves DEF Restart, telegram
  <1> QED BY <1>4, <1>5 DEF Restart

(* A failed read stops the reading. *)
LEMMA ReadFailsOK ==
    ASSUME IInv, NEW a \in Attempts, ReadFails(a)
    PROVE  IInv'
  <1> DEFINE r == [run[a] EXCEPT !.failed = TRUE]
  <1>1. run[a] \in Run /\ RunOK(run[a], source, files, stored, wire, acked)
    BY Facts
  <1>2. r \in Run
    BY <1>1 DEF Run
  <1>3. RunOK(r, source, files, stored, wire, acked) /\ r.done <= r.next
    BY <1>1 DEF IInv, TypeOK, ReadFails, RunOK, Trusted, Steady, Answers, Window, Run
  <1>4. r.pc = "Send" /\ r.file = run[a].file /\ r.sent = run[a].sent
        /\ r.flying = run[a].flying /\ r.arrived = run[a].arrived
    BY <1>1 DEF ReadFails, Run
  <1>5. \A w \in wire : w.by = a => w.part \in r.flying \ r.arrived
    BY <1>4, UploadAssumption DEF IInv, WireOK
  <1>6. Moves(a, r)
    BY DEF ReadFails
  <1> HIDE DEF r
  <1> QED BY <1>2, <1>3, <1>4, <1>5, <1>6, Facts, OneMoves DEF ReadFails, telegram

(* Confirming a part moves the window; its request is no longer on its way. *)
LEMMA ConfirmOK ==
    ASSUME IInv, NEW a \in Attempts, NEW p \in Parts, Confirm(a, p)
    PROVE  IInv'
  <1> DEFINE r == Advanced(run[a], p)
             all == run[a].confirmed \cup {p}
             n == NewPrefix(run[a], all)
  <1>1. run[a] \in Run /\ RunOK(run[a], source, files, stored, wire, acked)
        /\ TotalParts \in Nat /\ run[a].pc = "Send" /\ p \in run[a].arrived
        /\ run[a].done <= run[a].next
    BY Facts DEF Confirm, IInv, TypeOK
  <1>2. all \in SUBSET Parts
    BY <1>1 DEF Run
  <1>3. n \in run[a].done..TotalParts /\ \A q \in run[a].done..(n - 1) : q \in all
    BY <1>1, <1>2, NewPrefixOK
  <1>4. r = [run[a] EXCEPT !.flying = @ \ {p}, !.arrived = @ \ {p}, !.done = n,
                           !.confirmed = {q \in all : q >= n}]
    BY DEF Advanced
  <1>5. /\ r.pc = "Send" /\ r.file = run[a].file /\ r.sent = run[a].sent
        /\ r.flying = run[a].flying \ {p} /\ r.arrived = run[a].arrived \ {p}
        /\ r.done = n /\ r.confirmed = {q \in all : q >= n}
        /\ r.next = run[a].next /\ r.failed = run[a].failed
        /\ r.stamp = run[a].stamp /\ r.settled = run[a].settled
        /\ r.steady = run[a].steady
    BY <1>1, <1>4 DEF Run
  <1>6. r \in Run
    <2>1. run[a].flying \ {p} \in SUBSET Parts /\ run[a].arrived \ {p} \in SUBSET Parts
          /\ {q \in all : q >= n} \in SUBSET Parts
      BY <1>1, <1>2 DEF Run
    <2>2. n \in 0..TotalParts
      BY <1>1, <1>3 DEF Run
    <2> HIDE DEF n, all
    <2> QED BY <1>1, <1>4, <2>1, <2>2 DEF Run
  <1> HIDE DEF r, all, n
  <1>7. Trusted(r, source, files, stored, wire) /\ Steady(r, source, stored, wire)
    BY <1>1, <1>5 DEF RunOK, Trusted, Steady
  <1>8. run[a].done \in Nat /\ n \in Nat /\ run[a].next \in Nat /\ Parts \subseteq Nat
    BY <1>1, <1>3 DEF Run, Parts
  <1>9. \A q \in all : <<run[a].file, q>> \in acked /\ q < run[a].next
    BY <1>1, <1>2 DEF RunOK, Answers, Window, all
  <1>10. Answers(r, acked)
    BY <1>1, <1>3, <1>5, <1>8, <1>9 DEF RunOK, Answers
  <1>11. n <= run[a].next
    <2>1. CASE n = run[a].done
      BY <1>1, <2>1
    <2>2. CASE n # run[a].done
      <3>1. n - 1 \in run[a].done..(n - 1)
        BY <1>3, <1>8, <2>2
      <3>2. n - 1 \in all
        BY <1>3, <3>1
      <3>3. n - 1 < run[a].next
        BY <1>9, <3>2
      <3> QED BY <1>8, <3>3
    <2> QED BY <2>1, <2>2
  <1>12. Window(r)
    <2>1. \A q \in Parts : ~r.failed /\ n <= q /\ q < r.next => q \in r.flying \cup r.confirmed
      BY <1>1, <1>3, <1>5, <1>8 DEF RunOK, Window, all
    <2> QED BY <1>1, <1>5, <1>9, <2>1 DEF RunOK, Window
  <1>13. \A w \in wire : w.by = a => w.part \in r.flying \ r.arrived
    BY <1>1, <1>5, UploadAssumption DEF IInv, WireOK
  <1>14. Moves(a, r)
    BY DEF Confirm, r
  <1>15. RunOK(r, source, files, stored, wire, acked)
    BY <1>7, <1>10, <1>12 DEF RunOK
  <1>16. r.file # 0
    BY <1>1, <1>5 DEF RunOK, Window
  <1>17. /\ record' \in Session \cup {NoRecord}
         /\ RecordOK(record', source, files, stored, wire, acked)
    <2>1. record' \in {record, Recorded(r)}
      BY DEF Confirm, r
    <2> QED BY <1>6, <1>15, <1>16, <2>1, RecordedOK, Facts
  <1> QED BY <1>5, <1>6, <1>11, <1>13, <1>14, <1>15, <1>17, Facts, OneMoves
          DEF Confirm, telegram

(* When nothing is awaited and nothing failed, all parts are confirmed. *)
LEMMA EndSendOK ==
    ASSUME IInv, NEW a \in Attempts, EndSend(a)
    PROVE  IInv'
  <1>1. run[a] \in Run /\ RunOK(run[a], source, files, stored, wire, acked)
        /\ TotalParts \in Nat /\ run[a].pc = "Send" /\ run[a].flying = {}
        /\ files \in Nat /\ files \in 0..MaxFiles /\ source.stamp \in Nat
    BY Facts DEF EndSend
  <1>2. \A w \in wire : w.by # a
    BY NoneAwaited, <1>1
  <1>3. run[a].file # 0
    BY <1>1 DEF RunOK, Window
  <1>4. /\ record' \in Session \cup {NoRecord}
        /\ RecordOK(record', source, files, stored, wire, acked)
    BY <1>1, <1>3, RecordedOK DEF EndSend
  <1>5. CASE run[a].failed
    <2> DEFINE r == NotRunning("Over")
    <2>1. r \in Run /\ r.pc = "Over" /\ RunOK(r, source, files, stored, wire, acked)
      BY <1>1, OverOK, RunTypes DEF NotRunning
    <2>2. Moves(a, r)
      BY <1>5 DEF EndSend
    <2> HIDE DEF r
    <2> QED BY <1>1, <1>2, <1>4, <2>1, <2>2, OneMoves DEF EndSend, telegram
  <1>6. CASE ~run[a].failed
    <2> DEFINE r == Uploaded(run[a])
    <2>1. r \in Run
      BY <1>1, RunTypes
    <2>2. r.pc = "Publish" /\ r.file = run[a].file /\ r.stamp = run[a].stamp
          /\ r.steady = run[a].steady /\ r.settled = FALSE /\ r.done = 0
          /\ r.flying = {} /\ r.arrived = {} /\ r.confirmed = {}
      BY DEF Uploaded, Opened, NotRunning
    <2>3. run[a].next = TotalParts
      <3>1. Cardinality(run[a].flying) < Workers
        <4>1. Cardinality({}) = 0
          BY FS_EmptySet
        <4> QED BY <1>1, <4>1, UploadAssumption
      <3> QED BY <1>1, <1>6, <3>1 DEF EndSend, CanRead, Run
    <2>4. \A p \in Parts : <<run[a].file, p>> \in acked
      BY <1>1, <1>6, <2>3 DEF RunOK, Window, Answers, Parts, Run
    <2>5. Moves(a, r)
      BY <1>6 DEF EndSend
    <2> HIDE DEF r
    <2>6. RunOK(r, source, files, stored, wire, acked)
      BY <1>1, <1>3, <2>2, <2>4 DEF RunOK, Trusted, Steady, Answers, Window
    <2> QED BY <1>1, <1>2, <1>4, <2>1, <2>2, <2>5, <2>6, OneMoves DEF EndSend, telegram
  <1> QED BY <1>5, <1>6

(* Publishing, or being refused, changes nothing else. *)
LEMMA PublishOK ==
    ASSUME IInv, NEW a \in Attempts, Publish(a) \/ PublishRefused(a)
    PROVE  IInv'
  <1>1. run[a] \in Run /\ RunOK(run[a], source, files, stored, wire, acked)
        /\ run[a].pc = "Publish"
    BY Facts DEF Publish, PublishRefused
  <1>2. \A w \in wire : w.by # a
    BY NoneAwaited, <1>1
  <1>3. ASSUME NEW pc \in {"Discard", "Unusable"}, Moves(a, [run[a] EXCEPT !.pc = pc]),
               UNCHANGED <<source, record, files, stored, wire, acked>>
        PROVE  IInv'
    <2> DEFINE r == [run[a] EXCEPT !.pc = pc]
    <2>1. r \in Run
      BY <1>1 DEF Run
    <2>2. RunOK(r, source, files, stored, wire, acked) /\ r.pc = pc
      BY <1>1 DEF RunOK, Trusted, Steady, Answers, Window, Run
    <2>3. Moves(a, r)
      BY <1>3
    <2> HIDE DEF r
    <2> QED BY <1>2, <1>3, <2>1, <2>2, <2>3, Facts, OneMoves
  <1> QED BY <1>3 DEF Publish, PublishRefused, telegram

(* The record of a published file goes, or stays as it was. *)
LEMMA FinishOK ==
    ASSUME IInv, NEW a \in Attempts, Finish(a)
    PROVE  IInv'
  <1> DEFINE r == NotRunning("Over")
  <1>1. files \in 0..MaxFiles /\ files \in Nat /\ source.stamp \in Nat
    BY Facts
  <1>2. r \in Run /\ r.pc = "Over" /\ RunOK(r, source, files, stored, wire, acked)
    BY <1>1, OverOK, RunTypes DEF NotRunning
  <1>3. \A w \in wire : w.by # a
    BY NoneAwaited DEF Finish
  <1>4. /\ record' \in Session \cup {NoRecord}
        /\ RecordOK(record', source, files, stored, wire, acked)
    BY Facts DEF Finish, RecordOK
  <1>5. Moves(a, r)
    BY DEF Finish
  <1> HIDE DEF r
  <1> QED BY <1>1, <1>2, <1>3, <1>4, <1>5, OneMoves DEF Finish, telegram

-----------------------------------------------------------------------------
(* Steps that change what is on its way or what Telegram holds. *)

(* They keep whatever they keep pure. *)
LEMMA KeepsPure ==
    ASSUME source' = source, files' = files, acked \subseteq acked',
           \A f \in Files : Pure(f, source, stored, wire) => Pure(f, source, stored', wire')
    PROVE  /\ \A r \in Run : RunOK(r, source, files, stored, wire, acked) =>
                             RunOK(r, source', files', stored', wire', acked')
           /\ \A rec \in Session \cup {NoRecord} :
                  RecordOK(rec, source, files, stored, wire, acked) =>
                  RecordOK(rec, source', files', stored', wire', acked')
  <1>1. ASSUME NEW r \in Run, RunOK(r, source, files, stored, wire, acked)
        PROVE  RunOK(r, source', files', stored', wire', acked')
    <2>1. r.file # 0 => r.file \in Files
      BY DEF Run
    <2> QED BY <1>1, <2>1 DEF RunOK, Trusted, Steady, Answers
  <1>2. ASSUME NEW rec \in Session, RecordOK(rec, source, files, stored, wire, acked)
        PROVE  RecordOK(rec, source', files', stored', wire', acked')
    <2>1. rec.file \in Files
      BY DEF Session
    <2> QED BY <1>2, <2>1 DEF RecordOK, Trusted
  <1>3. RecordOK(NoRecord, source', files', stored', wire', acked')
    BY DEF RecordOK
  <1> QED BY <1>1, <1>2, <1>3

(* The invariant, put together again. *)
LEMMA Together ==
    ASSUME IInv, source' = source, files' = files, record' = record,
           acked \subseteq acked',
           \A f \in Files : Pure(f, source, stored, wire) => Pure(f, source, stored', wire'),
           TypeOK', WireOK(wire', files, run'), Unused(files, stored'),
           \A a \in Attempts : run'[a] = run[a] \/ RunOK(run'[a], source', files', stored', wire', acked')
    PROVE  IInv'
  <1>1. RecordOK(record', source', files', stored', wire', acked')
    BY KeepsPure DEF IInv, TypeOK
  <1>2. ASSUME NEW a \in Attempts
        PROVE  RunOK(run'[a], source', files', stored', wire', acked')
    <2>1. run[a] \in Run /\ RunOK(run[a], source, files, stored, wire, acked)
      BY Facts
    <2> QED BY <2>1, KeepsPure
  <1> QED BY <1>1, <1>2 DEF IInv

(* A request that nobody awaits any more is still the same request. *)
LEMMA OrphansPure ==
    ASSUME UNCHANGED stored,
           \A v \in wire' : \E w \in wire :
               v.file = w.file /\ v.part = w.part /\ v.byte = w.byte,
           NEW f \in Files, Pure(f, source, stored, wire)
    PROVE  Pure(f, source, stored', wire')
  BY DEF Pure

(* What a stopped attempt had sent is no longer awaited. *)
LEMMA StopOK ==
    ASSUME IInv, NEW a \in Attempts, Stop(a)
    PROVE  IInv'
  <1>1. files \in Nat /\ source.stamp \in Nat /\ run \in [Attempts -> Run]
        /\ wire \in SUBSET Request
    BY Facts DEF IInv, TypeOK
  <1>2. ASSUME NEW v \in wire'
        PROVE  \E w \in wire : /\ v \in Request
                               /\ v.file = w.file /\ v.part = w.part /\ v.byte = w.byte
                               /\ v.by = IF w.by = a THEN Nobody ELSE w.by
    <2>1. PICK w \in wire : v = [w EXCEPT !.by = IF @ = a THEN Nobody ELSE @]
      BY DEF Stop, Orphaned
    <2>2. w \in Request
      BY <1>1
    <2> QED BY <2>1, <2>2 DEF Request
  <1>3. run'[a] = NotRunning("Over") /\ run' \in [Attempts -> Run]
        /\ \A b \in Attempts \ {a} : run'[b] = run[b]
    BY <1>1, RunTypes DEF Stop, Moves
  <1>4. RunOK(NotRunning("Over"), source, files, stored, wire, acked)
    BY <1>1, OverOK
  <1>5. \A f \in Files : Pure(f, source, stored, wire) => Pure(f, source, stored', wire')
    BY <1>2, OrphansPure DEF Stop
  <1>6. RunOK(run'[a], source', files', stored', wire', acked')
    <2>1. acked \subseteq acked' /\ source' = source /\ files' = files
      BY DEF Stop
    <2>2. NotRunning("Over") \in Run
      BY RunTypes
    <2> QED BY <1>3, <1>4, <1>5, <2>1, <2>2, KeepsPure
  <1>7. TypeOK'
    <2>1. run'[a].pc # "Send"
      BY <1>3 DEF NotRunning
    <2> QED BY <1>2, <1>3, <2>1 DEF IInv, TypeOK, Stop
  <1>8. WireOK(wire', files, run')
    <2> SUFFICES ASSUME NEW v \in wire'
                 PROVE  /\ v.file <= files
                        /\ v.by # Nobody =>
                              /\ run'[v.by].file = v.file
                              /\ run'[v.by].pc = "Send"
                              /\ v.part \in run'[v.by].flying \ run'[v.by].arrived
                              /\ v.byte = run'[v.by].sent[v.part]
      BY DEF WireOK
    <2>1. PICK w \in wire : /\ v \in Request
                            /\ v.file = w.file /\ v.part = w.part /\ v.byte = w.byte
                            /\ v.by = IF w.by = a THEN Nobody ELSE w.by
      BY <1>2
    <2>2. v.by # Nobody => v.by \in Attempts \ {a} /\ w.by = v.by
      BY <2>1, UploadAssumption DEF Request
    <2> QED BY <1>3, <2>1, <2>2 DEF IInv, WireOK
  <1>9. Unused(files, stored')
    BY DEF IInv, Stop
  <1> QED BY <1>3, <1>5, <1>6, <1>7, <1>8, <1>9, Together DEF Stop

(* A part that failed is no longer awaited. *)
LEMMA PartFailsOK ==
    ASSUME IInv, NEW a \in Attempts, NEW p \in Parts, PartFails(a, p)
    PROVE  IInv'
  <1> DEFINE r == [run[a] EXCEPT !.flying = @ \ {p}, !.arrived = @ \ {p}, !.failed = TRUE]
  <1>1. run \in [Attempts -> Run] /\ wire \in SUBSET Request /\ run[a] \in Run
        /\ RunOK(run[a], source, files, stored, wire, acked)
        /\ run[a].pc = "Send" /\ run[a].done <= run[a].next
    BY Facts DEF IInv, TypeOK, PartFails
  <1>2. ASSUME NEW v \in wire'
        PROVE  \E w \in wire : /\ v \in Request
                               /\ v.file = w.file /\ v.part = w.part /\ v.byte = w.byte
                               /\ v.by = IF w.by = a /\ w.part = p THEN Nobody ELSE w.by
    <2>1. PICK w \in wire : v = [w EXCEPT !.by = IF @ = a /\ w.part = p THEN Nobody ELSE @]
      BY DEF PartFails
    <2>2. w \in Request
      BY <1>1
    <2> QED BY <2>1, <2>2 DEF Request
  <1>3. r \in Run
    BY <1>1 DEF Run
  <1>4. /\ r.pc = "Send" /\ r.file = run[a].file /\ r.sent = run[a].sent
        /\ r.flying = run[a].flying \ {p} /\ r.arrived = run[a].arrived \ {p}
        /\ r.done = run[a].done /\ r.confirmed = run[a].confirmed
        /\ r.next = run[a].next /\ r.failed = TRUE
        /\ r.stamp = run[a].stamp /\ r.settled = run[a].settled
        /\ r.steady = run[a].steady
    BY <1>1 DEF Run
  <1>5. Moves(a, r)
    BY DEF PartFails
  <1> HIDE DEF r
  <1>6. run'[a] = r /\ run' \in [Attempts -> Run]
        /\ \A b \in Attempts \ {a} : run'[b] = run[b]
    BY <1>1, <1>3, <1>5 DEF Moves
  <1>7. RunOK(r, source, files, stored, wire, acked)
    BY <1>1, <1>4 DEF RunOK, Trusted, Steady, Answers, Window
  <1>8. \A f \in Files : Pure(f, source, stored, wire) => Pure(f, source, stored', wire')
    BY <1>2, OrphansPure DEF PartFails
  <1>9. RunOK(run'[a], source', files', stored', wire', acked')
    <2>1. acked \subseteq acked' /\ source' = source /\ files' = files
      BY DEF PartFails
    <2> QED BY <1>3, <1>6, <1>7, <1>8, <2>1, KeepsPure
  <1>10. TypeOK'
    BY <1>1, <1>2, <1>4, <1>6 DEF IInv, TypeOK, PartFails
  <1>11. WireOK(wire', files, run')
    <2> SUFFICES ASSUME NEW v \in wire'
                 PROVE  /\ v.file <= files
                        /\ v.by # Nobody =>
                              /\ run'[v.by].file = v.file
                              /\ run'[v.by].pc = "Send"
                              /\ v.part \in run'[v.by].flying \ run'[v.by].arrived
                              /\ v.byte = run'[v.by].sent[v.part]
      BY DEF WireOK
    <2>1. PICK w \in wire : /\ v \in Request
                            /\ v.file = w.file /\ v.part = w.part /\ v.byte = w.byte
                            /\ v.by = IF w.by = a /\ w.part = p THEN Nobody ELSE w.by
      BY <1>2
    <2>2. CASE v.by = Nobody
      BY <2>1, <2>2 DEF IInv, WireOK
    <2>3. CASE v.by = a
      <3>1. w.by = a /\ w.part # p
        BY <2>1, <2>3, UploadAssumption
      <3> QED BY <1>4, <1>6, <2>1, <2>3, <3>1, UploadAssumption DEF IInv, WireOK
    <2>4. CASE v.by \in Attempts \ {a}
      BY <1>6, <2>1, <2>4, UploadAssumption DEF IInv, WireOK
    <2> QED BY <2>1, <2>2, <2>3, <2>4 DEF Request
  <1>12. Unused(files, stored')
    BY DEF IInv, PartFails
  <1> QED BY <1>6, <1>8, <1>9, <1>10, <1>11, <1>12, Together DEF PartFails

(* A part that is read is a part of the source as it is now. *)
LEMMA ReadPartOK ==
    ASSUME IInv, NEW a \in Attempts, ReadPart(a)
    PROVE  IInv'
  <1> DEFINE p == run[a].next
             r == [run[a] EXCEPT !.sent[p] = source.content[p],
                                 !.next = @ + 1, !.flying = @ \cup {p}]
             new == [file |-> run[a].file, part |-> p,
                     byte |-> source.content[p], by |-> a]
  <1>1. run \in [Attempts -> Run] /\ wire \in SUBSET Request /\ run[a] \in Run
        /\ RunOK(run[a], source, files, stored, wire, acked)
        /\ run[a].pc = "Send" /\ run[a].done <= run[a].next
        /\ TotalParts \in Nat /\ run[a].file \in Files
    BY Facts DEF IInv, TypeOK, ReadPart, RunOK, Window, Run
  <1>2. p \in Parts /\ p \in Nat /\ p + 1 \in 0..TotalParts
    BY <1>1 DEF ReadPart, CanRead, Run, Parts
  <1>3. source.content[p] \in Bytes /\ source.content[p] \in Part
    BY <1>2, UploadAssumption DEF IInv, TypeOK, Parts, Part
  <1>4. r \in Run
    <2>1. run[a].flying \cup {p} \in SUBSET Parts
      BY <1>1, <1>2 DEF Run
    <2> HIDE DEF p
    <2>2. [run[a].sent EXCEPT ![p] = source.content[p]] \in [Parts -> Part]
      BY <1>1, <1>2, <1>3 DEF Run
    <2> QED BY <1>1, <1>2, <2>1, <2>2 DEF Run, p
  <1>5. /\ r.pc = "Send" /\ r.file = run[a].file
        /\ r.sent = [run[a].sent EXCEPT ![p] = source.content[p]]
        /\ r.flying = run[a].flying \cup {p} /\ r.arrived = run[a].arrived
        /\ r.done = run[a].done /\ r.confirmed = run[a].confirmed
        /\ r.next = p + 1 /\ r.failed = run[a].failed
        /\ r.stamp = run[a].stamp /\ r.settled = run[a].settled
        /\ r.steady = run[a].steady
    BY <1>1 DEF Run
  <1>6. Moves(a, r) /\ wire' = wire \cup {new}
    BY DEF ReadPart
  <1>7. new \in Request /\ new.file = run[a].file /\ new.part = p
        /\ new.byte = source.content[p] /\ new.by = a
    BY <1>1, <1>2, <1>3 DEF Request
  <1> HIDE DEF r, new
  <1>8. run'[a] = r /\ run' \in [Attempts -> Run]
        /\ \A b \in Attempts \ {a} : run'[b] = run[b]
    BY <1>1, <1>4, <1>6 DEF Moves
  <1>9. \A q \in run[a].flying : q < p /\ q \in Parts /\ q # p
    BY <1>1, <1>2 DEF RunOK, Window, Run, Parts
  <1>10. Window(r)
    <2>1. \A q \in r.flying \cup r.confirmed : q < r.next
      BY <1>1, <1>2, <1>5 DEF RunOK, Window, Run, Parts
    <2>2. ~r.failed => \A q \in Parts : r.done <= q /\ q < r.next =>
                          q \in r.flying \cup r.confirmed
      BY <1>1, <1>2, <1>5 DEF RunOK, Window, Parts
    <2> QED BY <1>1, <1>5, <2>1, <2>2 DEF RunOK, Window
  <1> HIDE DEF p
  <1>11. RunOK(r, source, files, stored, wire, acked)
    BY <1>1, <1>5, <1>10 DEF RunOK, Trusted, Steady, Answers
  <1>12. \A f \in Files : Pure(f, source, stored, wire) => Pure(f, source, stored', wire')
    BY <1>6, <1>7 DEF Pure, ReadPart
  <1>13. RunOK(run'[a], source', files', stored', wire', acked')
    <2>1. acked \subseteq acked' /\ source' = source /\ files' = files
      BY DEF ReadPart
    <2> QED BY <1>4, <1>8, <1>11, <1>12, <2>1, KeepsPure
  <1>14. TypeOK'
    <2>1. r.done <= r.next
      BY <1>1, <1>2, <1>5 DEF Run, p
    <2>2. wire' \in SUBSET Request
      BY <1>1, <1>6, <1>7
    <2> QED BY <1>8, <2>1, <2>2 DEF IInv, TypeOK, ReadPart
  <1>15. WireOK(wire', files, run')
    <2> SUFFICES ASSUME NEW w \in wire'
                 PROVE  /\ w.file <= files
                        /\ w.by # Nobody =>
                              /\ run'[w.by].file = w.file
                              /\ run'[w.by].pc = "Send"
                              /\ w.part \in run'[w.by].flying \ run'[w.by].arrived
                              /\ w.byte = run'[w.by].sent[w.part]
      BY DEF WireOK
    <2>1. CASE w = new
      <3>1. p \notin run[a].arrived
        BY <1>1, <1>9 DEF RunOK, Window
      <3>2. r.sent[p] = source.content[p]
        BY <1>1, <1>2, <1>5 DEF Run
      <3> QED BY <1>1, <1>5, <1>7, <1>8, <2>1, <3>1, <3>2 DEF RunOK, Trusted
    <2>2. CASE w \in wire /\ w.by = a
      <3>1. w.part \in run[a].flying \ run[a].arrived /\ w.file <= files
            /\ w.file = run[a].file /\ w.byte = run[a].sent[w.part]
        BY <2>2, UploadAssumption DEF IInv, WireOK
      <3>2. r.sent[w.part] = run[a].sent[w.part]
        BY <1>1, <1>5, <1>9, <3>1 DEF Run
      <3> QED BY <1>5, <1>8, <2>2, <3>1, <3>2
    <2>3. CASE w \in wire /\ w.by # a
      BY <1>1, <1>8, <2>3 DEF IInv, WireOK, Request
    <2> QED BY <1>6, <2>1, <2>2, <2>3
  <1>16. Unused(files, stored')
    BY DEF IInv, ReadPart
  <1> QED BY <1>8, <1>12, <1>13, <1>14, <1>15, <1>16, Together DEF ReadPart

(* A request is its four fields. *)
LEMMA SameRequest ==
    ASSUME NEW v \in Request, NEW w \in Request,
           v.file = w.file, v.part = w.part, v.byte = w.byte, v.by = w.by
    PROVE  v = w
  BY DEF Request

(* A part that arrives is what its request carried; it is the only request *)
(* for that part which the attempt awaits.                                 *)
LEMMA DeliverOK ==
    ASSUME IInv, NEW w \in wire, Deliver(w)
    PROVE  IInv'
  <1>1. run \in [Attempts -> Run] /\ wire \in SUBSET Request /\ w \in Request
        /\ stored \in [Files -> [Parts -> Part]] /\ files \in Nat
    BY Facts, UploadAssumption DEF IInv, TypeOK
  <1>2. w.file \in Files /\ w.part \in Parts /\ w.byte \in Part /\ w.file <= files
    BY <1>1 DEF IInv, WireOK, Request, Part
  <1>3. stored' = [stored EXCEPT ![w.file] = [stored[w.file] EXCEPT ![w.part] = w.byte]]
        /\ stored' \in [Files -> [Parts -> Part]]
    BY <1>1, <1>2 DEF Deliver
  <1>4. \A f \in Files : Pure(f, source, stored, wire) => Pure(f, source, stored', wire')
    <2> SUFFICES ASSUME NEW f \in Files, Pure(f, source, stored, wire)
                 PROVE  Pure(f, source, stored', wire')
      OBVIOUS
    <2>1. \A v \in wire' : v \in wire
      BY DEF Deliver
    <2>2. \A p \in Parts : stored'[f][p] \in {Nothing, source.content[p]}
      BY <1>1, <1>2, <1>3 DEF Pure
    <2> QED BY <2>1, <2>2 DEF Pure
  <1>5. source' = source /\ files' = files /\ record' = record
        /\ acked' = acked \cup {<<w.file, w.part>>} /\ wire' = wire \ {w}
    BY DEF Deliver
  <1>6. CASE w.by = Nobody
    <2>1. run' = run
      BY <1>1, <1>6, UploadAssumption DEF Deliver
    <2>2. TypeOK'
      BY <1>1, <1>2, <1>3, <1>5, <2>1 DEF IInv, TypeOK
    <2>3. WireOK(wire', files, run')
      BY <1>5, <2>1 DEF IInv, WireOK
    <2>4. Unused(files, stored')
      BY <1>1, <1>2, <1>3 DEF IInv, Unused, Files
    <2> QED BY <1>4, <1>5, <2>1, <2>2, <2>3, <2>4, Together
  <1>7. CASE w.by # Nobody
    <2> DEFINE a == w.by
               r == [run[a] EXCEPT !.arrived = @ \cup {w.part}]
    <2>1. a \in Attempts /\ run[a] \in Run
      BY <1>1, <1>7 DEF Request
    <2>2. r \in Run
      BY <1>2, <2>1 DEF Run
    <2>3. /\ r.pc = run[a].pc /\ r.file = run[a].file /\ r.sent = run[a].sent
          /\ r.flying = run[a].flying /\ r.arrived = run[a].arrived \cup {w.part}
          /\ r.done = run[a].done /\ r.confirmed = run[a].confirmed
          /\ r.next = run[a].next /\ r.failed = run[a].failed
          /\ r.stamp = run[a].stamp /\ r.settled = run[a].settled
          /\ r.steady = run[a].steady
      BY <2>1 DEF Run
    <2>4. run' = [b \in Attempts |-> IF b = a THEN r ELSE run[b]]
      BY <2>1 DEF Deliver
    <2> HIDE DEF r
    <2>5. run'[a] = r /\ run' \in [Attempts -> Run]
          /\ \A b \in Attempts \ {a} : run'[b] = run[b]
      BY <1>1, <2>1, <2>2, <2>4
    <2>6. run[a].file = w.file /\ run[a].pc = "Send"
          /\ w.part \in run[a].flying \ run[a].arrived
          /\ w.byte = run[a].sent[w.part]
      BY <1>7 DEF IInv, WireOK
    <2>7. TypeOK'
      <3>1. acked' \in SUBSET (Files \X Parts)
        BY <1>2, <1>5 DEF IInv, TypeOK
      <3> QED BY <1>3, <1>5, <2>3, <2>5, <3>1 DEF IInv, TypeOK
    <2>8. WireOK(wire', files, run')
      <3> SUFFICES ASSUME NEW v \in wire'
                   PROVE  /\ v.file <= files
                          /\ v.by # Nobody =>
                                /\ run'[v.by].file = v.file
                                /\ run'[v.by].pc = "Send"
                                /\ v.part \in run'[v.by].flying \ run'[v.by].arrived
                                /\ v.byte = run'[v.by].sent[v.part]
        BY DEF WireOK
      <3>1. v \in wire /\ v # w /\ v \in Request
        BY <1>1, <1>5
      <3>2. CASE v.by = a
        <4>1. run[a].file = v.file /\ v.part \in run[a].flying \ run[a].arrived
              /\ v.byte = run[a].sent[v.part] /\ v.file <= files
          BY <1>7, <3>1, <3>2 DEF IInv, WireOK
        <4>2. v.part # w.part
          <5> SUFFICES ASSUME v.part = w.part
                       PROVE  FALSE
            OBVIOUS
          <5>1. v.file = w.file /\ v.byte = w.byte /\ v.by = w.by
            BY <2>6, <3>2, <4>1
          <5> QED BY <1>1, <3>1, <5>1, SameRequest
        <4> QED BY <2>3, <2>5, <2>6, <3>2, <4>1, <4>2
      <3>3. CASE v.by # a
        BY <2>5, <3>1, <3>3 DEF IInv, WireOK, Request
      <3> QED BY <3>2, <3>3
    <2>9. Unused(files, stored')
      BY <1>1, <1>2, <1>3 DEF IInv, Unused, Files
    <2>10. RunOK(r, source', files', stored', wire', acked')
      <3>1. RunOK(run[a], source, files, stored, wire, acked)
        BY <2>1, Facts
      <3>2. RunOK(run[a], source', files', stored', wire', acked')
        BY <1>4, <1>5, <2>1, <3>1, KeepsPure
      <3> QED BY <1>5, <2>3, <2>6, <3>2 DEF RunOK, Trusted, Steady, Answers, Window
    <2> QED BY <1>4, <1>5, <2>1, <2>5, <2>7, <2>8, <2>9, <2>10, Together
  <1> QED BY <1>6, <1>7

(* Parts that expire leave nothing wrong behind. *)
LEMMA ExpireOK ==
    ASSUME IInv, NEW f \in Files, Expire(f)
    PROVE  IInv'
  <1>1. stored \in [Files -> [Parts -> Part]] /\ stored' = [stored EXCEPT ![f] = Blank]
    BY DEF IInv, TypeOK, Expire
  <1>2. source' = source /\ files' = files /\ record' = record /\ acked' = acked
        /\ wire' = wire /\ run' = run
    BY DEF Expire
  <1>3. TypeOK'
    BY <1>1, <1>2, RunTypes DEF IInv, TypeOK
  <1>4. \A g \in Files : Pure(g, source, stored, wire) => Pure(g, source, stored', wire')
    BY <1>1, <1>2 DEF Pure, Blank
  <1>5. WireOK(wire', files, run')
    BY <1>2 DEF IInv
  <1>6. Unused(files, stored')
    BY <1>1 DEF IInv, Unused
  <1> QED BY <1>2, <1>3, <1>4, <1>5, <1>6, Together

-----------------------------------------------------------------------------
(* Steps of the source. *)

(* A change of the source is one no settled session misses: the stamp was  *)
(* young, and then no settled session has it, or it is a new one.          *)
LEMMA ModifyOK ==
    ASSUME IInv, NEW content \in Contents, Modify(content)
    PROVE  IInv'
  <1>1. run \in [Attempts -> Run] /\ source.stamp \in Nat /\ source.stamp \in Stamps
        /\ source \in [content : Contents, stamp : Stamps, young : BOOLEAN]
        /\ MaxStamps \in Nat
    BY UploadAssumption DEF IInv, TypeOK, Stamps
  <1>2. source' \in [content : Contents, stamp : Stamps, young : BOOLEAN]
        /\ source'.young = TRUE
        /\ \/ source.young /\ source'.stamp = source.stamp
           \/ source'.stamp = source.stamp + 1
    <2>1. CASE source.young /\ source' = [source EXCEPT !.content = content]
      BY <1>1, <2>1
    <2>2. CASE /\ source.stamp < MaxStamps
               /\ source' = [content |-> content, stamp |-> source.stamp + 1, young |-> TRUE]
      BY <1>1, <2>2 DEF Stamps
    <2> QED BY <2>1, <2>2 DEF Modify
  <1>3. ASSUME NEW h, h.stamp \in Nat, Trusted(h, source, files, stored, wire)
        PROVE  Trusted(h, source', files, stored, wire)
    BY <1>1, <1>2, <1>3 DEF Trusted
  <1>4. UNCHANGED <<record, files, stored, wire, acked>>
    BY DEF Modify, telegram
  <1>5. RecordOK(record', source', files', stored', wire', acked')
    <2>1. CASE record = NoRecord
      BY <1>4, <2>1 DEF RecordOK
    <2>2. CASE record # NoRecord
      <3>1. record.stamp \in Nat
        BY <2>2 DEF IInv, TypeOK, Session, Stamps
      <3> QED BY <1>3, <1>4, <2>2, <3>1 DEF IInv, RecordOK
    <2> QED BY <2>1, <2>2
  <1>6. ASSUME NEW a \in Attempts
        PROVE  /\ run'[a] \in Run
               /\ RunOK(run'[a], source', files', stored', wire', acked')
               /\ run'[a].file = run[a].file /\ run'[a].pc = run[a].pc
               /\ run'[a].sent = run[a].sent /\ run'[a].flying = run[a].flying
               /\ run'[a].arrived = run[a].arrived
               /\ run'[a].done = run[a].done /\ run'[a].next = run[a].next
    <2> DEFINE r == [run[a] EXCEPT !.steady = FALSE]
    <2>1. run[a] \in Run /\ RunOK(run[a], source, files, stored, wire, acked)
      BY Facts
    <2>2. r \in Run
      BY <2>1 DEF Run
    <2>3. /\ r.pc = run[a].pc /\ r.file = run[a].file /\ r.sent = run[a].sent
          /\ r.flying = run[a].flying /\ r.arrived = run[a].arrived
          /\ r.done = run[a].done /\ r.confirmed = run[a].confirmed
          /\ r.next = run[a].next /\ r.failed = run[a].failed
          /\ r.stamp = run[a].stamp /\ r.settled = run[a].settled
          /\ r.steady = FALSE
      BY <2>1 DEF Run
    <2>4. run'[a] = r
      BY DEF Modify
    <2> HIDE DEF r
    <2>5. Trusted(r, source, files, stored, wire)
      BY <2>1, <2>3 DEF RunOK, Trusted
    <2>6. r.stamp \in Nat
      BY <2>2 DEF Run, Stamps
    <2>7. Trusted(r, source', files, stored, wire)
      BY <1>3, <2>5, <2>6
    <2>8. Steady(r, source', stored, wire) /\ Answers(r, acked) /\ Window(r)
      BY <2>1, <2>3 DEF RunOK, Steady, Answers, Window
    <2> QED BY <1>4, <2>2, <2>3, <2>4, <2>7, <2>8 DEF RunOK
  <1>7. run' \in [Attempts -> Run]
    <2>1. run' = [a \in Attempts |-> [run[a] EXCEPT !.steady = FALSE]]
      BY DEF Modify
    <2> QED BY <1>6, <2>1
  <1>8. TypeOK'
    BY <1>2, <1>4, <1>6, <1>7 DEF IInv, TypeOK
  <1>9. WireOK(wire', files', run')
    BY <1>4, <1>6 DEF IInv, TypeOK, WireOK, Request
  <1>10. Unused(files', stored')
    BY <1>4 DEF IInv
  <1> QED BY <1>5, <1>6, <1>8, <1>9, <1>10 DEF IInv

(* A stamp that is young is held by no settled session. *)
LEMMA TimePassesOK ==
    ASSUME IInv, TimePasses
    PROVE  IInv'
  <1>1. source' = [source EXCEPT !.young = FALSE] /\ source.young
        /\ UNCHANGED <<record, files, stored, wire, run, acked>>
    BY DEF TimePasses, telegram
  <1>2. source' \in [content : Contents, stamp : Stamps, young : BOOLEAN]
        /\ source'.stamp = source.stamp /\ source'.content = source.content
    BY <1>1 DEF IInv, TypeOK
  <1>3. TypeOK'
    BY <1>1, <1>2 DEF IInv, TypeOK
  <1>4. \A h : Trusted(h, source, files, stored, wire) =>
               Trusted(h, source', files, stored, wire)
    BY <1>1, <1>2 DEF Trusted
  <1>5. \A f : Pure(f, source, stored, wire) => Pure(f, source', stored, wire)
    BY <1>2 DEF Pure
  <1>6. RecordOK(record', source', files', stored', wire', acked')
    BY <1>1, <1>4 DEF IInv, RecordOK
  <1>7. ASSUME NEW a \in Attempts
        PROVE  RunOK(run'[a], source', files', stored', wire', acked')
    <2>1. RunOK(run[a], source, files, stored, wire, acked)
      BY Facts
    <2>2. Steady(run[a], source', stored, wire)
      BY <1>2, <1>5, <2>1 DEF RunOK, Steady
    <2> QED BY <1>1, <1>4, <2>1, <2>2 DEF RunOK
  <1> QED BY <1>1, <1>3, <1>6, <1>7 DEF IInv

-----------------------------------------------------------------------------
(* The invariant holds at the beginning. *)
LEMMA InitOK ==
    ASSUME Init
    PROVE  IInv
  <1>1. PICK content \in Contents, young \in BOOLEAN :
            source = [content |-> content, stamp |-> 0, young |-> young]
    BY DEF Init
  <1>2. source \in [content : Contents, stamp : Stamps, young : BOOLEAN]
        /\ source.stamp \in Nat
    BY <1>1, UploadAssumption DEF Stamps
  <1>3. files \in Nat /\ files \in 0..MaxFiles
    BY UploadAssumption DEF Init
  <1>4. \A a \in Attempts : run[a] = NotRunning("Idle") /\ run[a].pc = "Idle"
    BY DEF Init, NotRunning
  <1>5. TypeOK
    <2>1. run \in [Attempts -> Run]
      BY RunTypes DEF Init
    <2>2. stored \in [Files -> [Parts -> Part]]
      BY RunTypes DEF Init
    <2>3. record \in Session \cup {NoRecord} /\ wire \in SUBSET Request
          /\ acked \in SUBSET (Files \X Parts)
      BY DEF Init
    <2> QED BY <1>2, <1>3, <1>4, <2>1, <2>2, <2>3 DEF TypeOK
  <1>6. \A a \in Attempts : RunOK(run[a], source, files, stored, wire, acked)
    BY <1>2, <1>3, <1>4, OverOK
  <1>7. RecordOK(record, source, files, stored, wire, acked)
    BY DEF Init, RecordOK
  <1>8. WireOK(wire, files, run)
    BY DEF Init, WireOK
  <1>9. Unused(files, stored)
    BY DEF Init, Unused
  <1> QED BY <1>5, <1>6, <1>7, <1>8, <1>9 DEF IInv

(* Every step keeps it. *)
LEMMA StepOK ==
    ASSUME IInv, [Next]_vars
    PROVE  IInv'
  <1>1. CASE UNCHANGED vars
    BY <1>1 DEF IInv, TypeOK, vars
  <1>2. ASSUME NEW a \in Attempts,
               \/ Begin(a) \/ Remove(a) \/ VerifyPart(a) \/ Verified(a) \/ Stale(a)
               \/ \E old \in BOOLEAN : Load(a, old)
        PROVE  IInv'
    <2>1. CASE Stale(a)
      BY <2>1, RestartOK DEF Stale
    <2> QED BY <1>2, <2>1, BeginOK, RemoveOK, VerifyPartOK, VerifiedOK, LoadOK
  <1>3. ASSUME NEW a \in Attempts, Sending(a)
        PROVE  IInv'
    BY <1>3, ReadPartOK, ReadFailsOK, EndSendOK, ConfirmOK, PartFailsOK DEF Sending
  <1>4. ASSUME NEW a \in Attempts,
               Publish(a) \/ PublishRefused(a) \/ Finish(a) \/ GiveUp(a) \/ Stop(a)
        PROVE  IInv'
    <2>1. CASE GiveUp(a)
      BY <2>1, RestartOK DEF GiveUp
    <2> QED BY <1>4, <2>1, PublishOK, FinishOK, StopOK
  <1>5. ASSUME NEW w \in wire, Deliver(w)
        PROVE  IInv'
    BY <1>5, DeliverOK
  <1>6. ASSUME NEW content \in Contents, Modify(content)
        PROVE  IInv'
    BY <1>6, ModifyOK
  <1>7. CASE TimePasses
    BY <1>7, TimePassesOK
  <1>8. ASSUME NEW f \in Files, Expire(f)
        PROVE  IInv'
    BY <1>8, ExpireOK
  <1> QED BY <1>1, <1>2, <1>3, <1>4, <1>5, <1>6, <1>7, <1>8 DEF Next

(* It says what is wanted. *)
LEMMA InvImplies ==
    ASSUME IInv
    PROVE  TypeOK /\ RecordIsConfirmed /\ PublishedIsSource
  <1>1. TypeOK
    BY DEF IInv
  <1>2. ASSUME record # NoRecord, NEW p \in 0..(record.done - 1)
        PROVE  <<record.file, p>> \in acked
    <2>1. record.done \in 0..TotalParts /\ TotalParts \in Nat
      BY <1>1, <1>2, UploadAssumption DEF TypeOK, Session
    <2>2. p \in Parts /\ p < record.done
      BY <1>2, <2>1 DEF Parts
    <2> QED BY <1>2, <2>2 DEF IInv, RecordOK
  <1>3. ASSUME NEW a \in Attempts, run[a].pc = "Publish", NEW p \in Parts
        PROVE  <<run[a].file, p>> \in acked
    BY <1>3, Facts DEF RunOK, Answers
  <1>4. ASSUME NEW a \in Attempts, run[a].pc = "Publish", run[a].steady, NEW p \in Parts
        PROVE  stored[run[a].file][p] \in {Nothing, source.content[p]}
    <2>1. RunOK(run[a], source, files, stored, wire, acked)
      BY Facts
    <2>2. Pure(run[a].file, source, stored, wire)
      BY <1>4, <2>1 DEF RunOK, Window, Steady
    <2> QED BY <2>2 DEF Pure
  <1> QED BY <1>1, <1>2, <1>3, <1>4 DEF RecordIsConfirmed, PublishedIsSource

(* Whatever attempts run side by side, stop or crash, and whenever their   *)
(* parts arrive: upload() never sends past a prefix it has not read again, *)
(* a record of save() claims only parts that Telegram confirmed, and       *)
(* initiate_upload() never publishes a mixture of two contents as a source *)
(* that did not change while it ran.                                       *)
THEOREM UploadInvariant ==
    Spec => []UploadInv
  <1>1. Init => IInv
    BY InitOK
  <1>2. IInv /\ [Next]_vars => IInv'
    BY StepOK
  <1>3. IInv => UploadInv
    BY InvImplies DEF UploadInv
  <1> QED BY <1>1, <1>2, <1>3, PTL DEF Spec
=============================================================================
