-------------------------- MODULE ProtectedUpload --------------------------
(***************************************************************************)
(* A protected upload and its resumption: cmd_upload_file_encrypted and    *)
(* the envelope functions of commands/fs.rs over the record of             *)
(* resumable_upload.rs.  One attempt at a time sends the file's blocks     *)
(* under one envelope, and last the final record, which holds the digest   *)
(* of the whole plaintext as this attempt read it.  The attempt may end at *)
(* any await, and a later one continues the recorded envelope only when it *)
(* can open it.  Telegram keeps parts per file id, which are drawn at      *)
(* random: what it has of earlier ids nobody can name again and is left    *)
(* out.  A stamp stands for size and modification time; it is young while  *)
(* the file may change again without changing it.  One part holds one      *)
(* block here.  Bandwidth.tla has the quota's reservation,                 *)
(* ResumableUpload.tla the attempts side by side.                          *)
(***************************************************************************)
EXTENDS Naturals, FiniteSets, Sequences

CONSTANTS Blocks,         \* number of blocks of the source
          Secrets,        \* file passphrases the user may enter
          MaxEnvelopes,   \* bound: envelopes created
          MaxEdits        \* bound: changes of the source

ASSUME ProtectedAssumption == {Blocks, MaxEnvelopes} \subseteq Nat \ {0} /\ MaxEdits \in Nat

VARIABLES
  plaintext,       \* block -> version of its content; its stamp; changes so far
  progress,     \* the stored UploadSession, or NoProgress
  storedSession,       \* parts Telegram holds under the file id in use
  flight,       \* requests on their way that no attempt waits for
  secretOf,     \* envelope -> the passphrase its slot is wrapped with
  protectedRun,          \* the attempt
  postedFile       \* the message the last attempt sent, if it sent one: the parts as
                   \* Telegram had them, the envelope, the user's passphrase, whether
                   \* the encrypted-file registry knows it, and what the attempt read

protectedVars == <<plaintext, progress, storedSession, flight, secretOf, protectedRun, postedFile>>

NoProgress == [envelope |-> 0, stamp |-> 0, settled |-> FALSE, done |-> 0, prefix |-> <<>>, fresh |-> FALSE]
\* anew: the file id was drawn by this attempt.  steady: history, the source
\* has not changed since the attempt took its fingerprint.
NoRun == [pc |-> "idle", secret |-> 0, stamp |-> 0, envelope |-> 0, done |-> 0,
          next |-> 1, read |-> <<>>, waits |-> {}, restarted |-> FALSE, resumed |-> FALSE,
          anew |-> FALSE, steady |-> FALSE]

\* The final record follows the blocks: build_final_record seals the digest
\* of what was read, verify_final_record compares it with what was decrypted.
FinalRecord == Blocks + 1
EnvelopePart(e, versions, b) ==
  [block |-> b, envelope |-> e,
   content |-> IF b = FinalRecord THEN versions ELSE <<versions[b]>>]
BlocksIn(n) == IF n = FinalRecord THEN Blocks ELSE n

ProtectedInit ==
  /\ \E young \in BOOLEAN :
        plaintext = [block |-> [b \in 1 .. Blocks |-> 1], stamp |-> 1, young |-> young, edits |-> 0]
  /\ progress = NoProgress /\ storedSession = {} /\ flight = {} /\ secretOf = <<>>
  /\ protectedRun = NoRun /\ postedFile = {}

Envelopes == DOMAIN secretOf
\* A record trusted however recently its source had been written.
UsableUnsettled(stamp) == progress # NoProgress /\ progress.stamp = stamp /\ progress.fresh
\* ResumableUpload::session: only the same source, recently, and only when its
\* modification time lay far enough behind the beginning of the upload.
UsableProgress(stamp) ==
  progress # NoProgress /\ progress.stamp = stamp /\ progress.settled /\ progress.fresh
EnvelopeSession(stamp) == IF UsableProgress(stamp) THEN progress ELSE NoProgress

\* The attempt ends: what is on its way still arrives, or is lost.
RunEnds == protectedRun' = NoRun /\ flight' = flight \cup protectedRun.waits

Start(s) ==
  /\ protectedRun.pc = "idle"
  /\ protectedRun' = [NoRun EXCEPT !.pc = "prepare", !.secret = s, !.stamp = plaintext.stamp, !.steady = TRUE]
  /\ postedFile' = {}
  /\ UNCHANGED <<plaintext, progress, storedSession, flight, secretOf>>

\* Fresh keys, sealed with the secret of the upload that asked.
NewEnvelopeSession(secret) == secretOf' = Append(secretOf, secret)

\* prepare_protected_envelope: the recorded envelope when the credential opens
\* its slots and it is the envelope this upload would create, else a new one.
ContinuesAny(session, secret) == session # NoProgress
Continues(session, secret) == session # NoProgress /\ secretOf[session.envelope] = secret

Prepare ==
  /\ protectedRun.pc = "prepare"
  /\ LET session == EnvelopeSession(protectedRun.stamp) IN
     IF Continues(session, protectedRun.secret)
     THEN /\ protectedRun' = [protectedRun EXCEPT !.pc = "load", !.envelope = session.envelope]
          /\ progress' = session
          /\ UNCHANGED secretOf
     ELSE /\ Cardinality(Envelopes) < MaxEnvelopes
          /\ NewEnvelopeSession(protectedRun.secret)
          /\ protectedRun' = [protectedRun EXCEPT !.pc = "load", !.envelope = Cardinality(Envelopes) + 1]
          /\ progress' = NoProgress
  /\ UNCHANGED <<plaintext, storedSession, flight, postedFile>>

\* ResumableUpload::upload reads the record again and takes it when it is of
\* this envelope; what it says was sent is read and compared.
SameUpload(session) == session # NoProgress /\ session.envelope = protectedRun.envelope
SamePrefix(session) == \A b \in 1 .. BlocksIn(session.done) : session.prefix[b] = plaintext.block[b]

\* A new session under the fingerprint taken at the start.  Of a stamp that
\* has changed since, nobody will ask again whether it had settled.
NewProgress(settled) ==
  [NoProgress EXCEPT !.envelope = protectedRun.envelope, !.stamp = protectedRun.stamp,
                     !.settled = settled, !.fresh = TRUE]

LoadEnvelope ==
  /\ protectedRun.pc = "load"
  /\ LET session == EnvelopeSession(protectedRun.stamp) IN
     \/ /\ SameUpload(session) /\ SamePrefix(session)
        /\ protectedRun' = [protectedRun EXCEPT !.pc = "send", !.done = session.done,
                              !.next = session.done + 1, !.read = session.prefix, !.resumed = session.done > 0]
        /\ progress' = session
        /\ UNCHANGED <<storedSession, flight>>
     \/ /\ ~SameUpload(session)
        /\ protectedRun' = [protectedRun EXCEPT !.pc = "send", !.anew = TRUE]
        /\ progress' = NewProgress(protectedRun.stamp = plaintext.stamp /\ ~plaintext.young)
        /\ storedSession' = {} /\ flight' = {}
  /\ UNCHANGED <<plaintext, secretOf, postedFile>>

\* The same attempt again, with the fingerprint it has, once.
StartOver == [NoRun EXCEPT !.pc = "prepare", !.secret = protectedRun.secret, !.stamp = protectedRun.stamp,
                           !.restarted = TRUE, !.steady = protectedRun.steady]

\* StaleEnvelope: the record goes and the upload starts over, once, with new keys.
StaleEnvelope ==
  /\ protectedRun.pc = "load"
  /\ LET session == EnvelopeSession(protectedRun.stamp) IN
     /\ SameUpload(session) /\ ~SamePrefix(session)
  /\ progress' = NoProgress
  /\ protectedRun' = IF protectedRun.restarted THEN NoRun
            ELSE StartOver
  /\ UNCHANGED <<plaintext, storedSession, flight, secretOf, postedFile>>

\* The next block is read as it is now, encrypted and sent; after the last
\* one the final record, over all that was read.
Send ==
  /\ protectedRun.pc = "send" /\ protectedRun.next <= FinalRecord
  /\ LET b == protectedRun.next
         read == [i \in 1 .. BlocksIn(b) |-> IF i < b THEN protectedRun.read[i] ELSE plaintext.block[i]] IN
     protectedRun' = [protectedRun EXCEPT !.next = b + 1, !.read = read,
                        !.waits = @ \cup {EnvelopePart(protectedRun.envelope, read, b)}]
  /\ UNCHANGED <<plaintext, progress, storedSession, flight, secretOf, postedFile>>

\* Telegram stores a part over an earlier one of the same number.
Over(p) == {q \in storedSession : q.block # p.block} \cup {p}

\* The parts before the first one that is still awaited.
EnvelopePrefix(next, waits) ==
  CHOOSE n \in 0 .. next - 1 :
    /\ \A q \in waits : q.block > n
    /\ n = next - 1 \/ \E q \in waits : q.block = n + 1

PartConfirmed(p) ==
  /\ protectedRun.pc = "send" /\ p \in protectedRun.waits
  /\ storedSession' = Over(p)
  /\ protectedRun' = [protectedRun EXCEPT !.waits = @ \ {p}, !.done = EnvelopePrefix(protectedRun.next, protectedRun.waits \ {p})]
  /\ UNCHANGED <<plaintext, progress, flight, secretOf, postedFile>>

Checkpoint ==
  /\ protectedRun.pc = "send" /\ progress.done # protectedRun.done
  /\ progress' = [progress EXCEPT !.done = protectedRun.done,
                                  !.prefix = [b \in 1 .. BlocksIn(protectedRun.done) |-> protectedRun.read[b]]]
  /\ UNCHANGED <<plaintext, storedSession, flight, secretOf, protectedRun, postedFile>>

\* Every part was confirmed and the last record saved: the message is sent.
Sent ==
  /\ protectedRun.pc = "send" /\ protectedRun.waits = {} /\ protectedRun.done = FinalRecord /\ progress.done = FinalRecord
  /\ protectedRun' = [protectedRun EXCEPT !.pc = "publish"]
  /\ UNCHANGED <<plaintext, progress, storedSession, flight, secretOf, postedFile>>

PublishEnvelope ==
  /\ protectedRun.pc = "publish"
  /\ \E registered \in BOOLEAN :
        postedFile' = {[envelope |-> protectedRun.envelope, secret |-> protectedRun.secret, registered |-> registered,
                       parts |-> storedSession, read |-> protectedRun.read, source |-> plaintext.block,
                       anew |-> protectedRun.anew, steady |-> protectedRun.steady]}
  /\ progress' \in {progress, NoProgress}
  /\ protectedRun' = NoRun
  /\ UNCHANGED <<plaintext, storedSession, flight, secretOf>>

\* Telegram dropped the parts: the record goes, and with it the envelope.
PartsUnusable ==
  /\ protectedRun.pc = "publish"
  /\ storedSession' = {}
  /\ progress' = NoProgress
  /\ protectedRun' = IF protectedRun.resumed /\ ~protectedRun.restarted
            THEN StartOver ELSE NoRun
  /\ UNCHANGED <<plaintext, flight, secretOf, postedFile>>

\* Cancelled, failed, locked out, signed out or the process ended.
StopUpload ==
  /\ protectedRun.pc # "idle" /\ RunEnds
  /\ UNCHANGED <<plaintext, progress, storedSession, secretOf, postedFile>>

ArriveEnvelope(p) ==
  /\ p \in flight
  /\ storedSession' \in {storedSession, Over(p)} /\ flight' = flight \ {p}
  /\ UNCHANGED <<plaintext, progress, secretOf, protectedRun, postedFile>>

\* Another program writes a block; a young stamp may stay the same.
Edit(b) ==
  /\ plaintext.edits < MaxEdits
  /\ \E stamp \in (IF plaintext.young THEN {plaintext.stamp} ELSE {}) \cup {plaintext.stamp + 1} :
        plaintext' = [block |-> [plaintext.block EXCEPT ![b] = plaintext.edits + 2], stamp |-> stamp,
                      young |-> TRUE, edits |-> plaintext.edits + 1]
  /\ protectedRun' = [protectedRun EXCEPT !.steady = FALSE]
  /\ UNCHANGED <<progress, storedSession, flight, secretOf, postedFile>>

\* RACY_SOURCE_WINDOW_SECS have passed since the source was written.
Settle ==
  /\ plaintext.young /\ plaintext' = [plaintext EXCEPT !.young = FALSE]
  /\ UNCHANGED <<progress, storedSession, flight, secretOf, protectedRun, postedFile>>

Age ==
  /\ progress.fresh /\ progress' = [progress EXCEPT !.fresh = FALSE]
  /\ UNCHANGED <<plaintext, storedSession, flight, secretOf, protectedRun, postedFile>>

ProtectedNext ==
  \/ \E s \in Secrets : Start(s)
  \/ Prepare \/ LoadEnvelope \/ StaleEnvelope \/ Send \/ Checkpoint \/ Sent \/ PublishEnvelope \/ PartsUnusable \/ StopUpload
  \/ Age \/ Settle
  \/ \E p \in protectedRun.waits : PartConfirmed(p)
  \/ \E p \in flight : ArriveEnvelope(p)
  \/ \E b \in 1 .. Blocks : Edit(b)

ProtectedSpec == ProtectedInit /\ [][ProtectedNext]_protectedVars

-----------------------------------------------------------------------------
ProtectedTypeOK ==
  /\ plaintext.stamp \in 1 .. (MaxEdits + 1) /\ plaintext.edits \in 0 .. MaxEdits
  /\ Envelopes = 1 .. Cardinality(Envelopes)
  /\ progress.envelope \in Envelopes \cup {0} /\ progress.done \in 0 .. FinalRecord
  /\ \A p \in storedSession \cup flight \cup protectedRun.waits : p.block \in 1 .. FinalRecord /\ p.envelope \in Envelopes

\* The message opens, as a file of these versions: every block decrypts under
\* the message's envelope, and the final record is the digest of them all.
OpensAs(m, versions) == m.parts = {EnvelopePart(m.envelope, versions, b) : b \in 1 .. FinalRecord}

(***************************************************************************)
(* A protected file that was published is sealed with the passphrase its   *)
(* upload was given, and all of it is there under the one envelope the     *)
(* message carries ("Resuming must continue the same envelope",            *)
(* resumable_upload.rs).  When the source did not change while the attempt *)
(* ran, it opens, and as exactly that source: over interruptions, other    *)
(* passphrases, earlier versions and parts that arrive late.  When the     *)
(* attempt continued nothing, it opens as what the attempt read, even if   *)
(* the source changed meanwhile.  Of an attempt that continued an envelope *)
(* and whose source then changed nothing more is promised: a late part of  *)
(* the earlier version makes that file one the final record refuses        *)
(* (resumed_envelope_session, session, verify_final_record).               *)
(***************************************************************************)
PublishedDecrypts ==
  \A m \in postedFile :
    /\ secretOf[m.envelope] = m.secret
    /\ {<<p.block, p.envelope>> : p \in m.parts} = {<<b, m.envelope>> : b \in 1 .. FinalRecord}
    /\ m.steady => OpensAs(m, m.source)
    /\ m.anew => OpensAs(m, m.read)

(***************************************************************************)
(* "Keys are never reused for different content" (commands/fs.rs, before   *)
(* the envelope is prepared): no two contents of one part are ever sent    *)
(* under the same envelope.                                                *)
(***************************************************************************)
OneContentPerEnvelope ==
  \A p, q \in storedSession \cup flight \cup protectedRun.waits :
    p.envelope = q.envelope /\ p.block = q.block => p.content = q.content

(* What a protected upload published, over all of its attempts.            *)
ProtectedInv == ProtectedTypeOK /\ PublishedDecrypts
=============================================================================
