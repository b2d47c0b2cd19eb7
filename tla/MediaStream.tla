----------------------------- MODULE MediaStream -----------------------------
(***************************************************************************)
(* One media response: the byte range a request selects, the source read   *)
(* from the CDN boundary before it in fixed chunks, the slice taken of     *)
(* them and, for protected media, the records that are authenticated       *)
(* before their plaintext is let out (server.rs, crypto/envelope/range.rs, *)
(* decrypt_reader.rs); and the range reads of WebDAV (webdav.rs).  A byte  *)
(* is its position in the file or, before decryption, in the envelope.     *)
(***************************************************************************)
EXTENDS Integers, Sequences, FiniteSets

CONSTANTS MaxSize,     \* bound: plaintext length
          MaxNumber,   \* bound: numbers in a Range field
          SourceChunk, \* CHUNK_SIZE
          Alignment,   \* CDN_ALIGNMENT
          HeaderLength, RecordLength, TagLength, FinalLength  \* the envelope's parts

ASSUME MediaStreamAssumption ==
  /\ \A n \in {MaxSize, MaxNumber, SourceChunk, Alignment, RecordLength, FinalLength} : n \in Nat \ {0}
  /\ HeaderLength \in Nat /\ TagLength \in Nat /\ Alignment % SourceChunk = 0

VARIABLES
  ask,     \* kind of response, length of the file, Range field, what is wrong with the source
  sel,     \* the bytes selected, first and last, and whether they are a range
  src,     \* where the source is, what is still to skip and to take
  buffer,  \* ciphertext not yet decrypted
  rec,     \* the next record
  body,    \* what the client got
  phase,
  charged  \* the bandwidth reservation was committed

streamVars == <<ask, sel, src, buffer, rec, body, phase, charged>>

NoNumber == -1
Least(a, b) == IF a <= b THEN a ELSE b
Most(a, b) == IF a >= b THEN a ELSE b
Records(size) == (size + RecordLength - 1) \div RecordLength
EnvelopeLength(size) == HeaderLength + size + Records(size) * TagLength + FinalLength
SourceLength(kind, size) == IF kind = "protected" THEN EnvelopeLength(size) ELSE size

\* Any request, on a source that may end early or hold records that do not
\* authenticate; record Records(size) stands for the final one.
Asks ==
  {a \in [kind : {"plain", "protected", "dav"}, size : 0..MaxSize, first : NoNumber..MaxNumber, last : NoNumber..MaxNumber,
          lost : 0..1, bad : NoNumber..MaxSize] :
     /\ a.kind # "protected" => a.bad = NoNumber
     /\ a.bad <= Records(a.size)
     /\ a.kind = "dav" => 0 <= a.first /\ a.first <= a.last /\ a.first < a.size}

NoAsk == [kind |-> "plain", size |-> 0, first |-> NoNumber, last |-> NoNumber, lost |-> 0, bad |-> NoNumber]

MediaInit ==
  /\ ask = NoAsk /\ sel = <<0, 0>> /\ src = [next |-> 0, skip |-> 0, left |-> 0]
  /\ buffer = <<>> /\ rec = 0 /\ body = <<>> /\ phase = "idle" /\ charged = FALSE

\* stream_media, and a read of WebDAV, whose start is within the file
Arrives ==
  /\ phase = "idle" /\ ask' \in Asks /\ phase' = "asked"
  /\ UNCHANGED <<sel, src, buffer, rec, body, charged>>

\* ---- select_range
SelectedRange ==
  LET size == ask.size
      end == IF ask.last = NoNumber THEN size - 1 ELSE ask.last
  IN IF ask.first = NoNumber
     THEN IF ask.last = NoNumber THEN <<0, size - 1>>
          ELSE IF ask.last = 0 \/ size = 0 THEN <<>> ELSE <<Most(0, size - ask.last), size - 1>>
     ELSE IF ask.last # NoNumber /\ ask.first > ask.last THEN <<0, size - 1>>
          ELSE IF size = 0 \/ ask.first >= size THEN <<>> ELSE <<ask.first, Least(end, size - 1)>>

\* ---- plaintext_range_to_ciphertext_records, chunk_ciphertext_offset
FirstRecord(s) == s[1] \div RecordLength
LastRecord(s) == s[2] \div RecordLength
RecordOffset(i) == HeaderLength + i * (RecordLength + TagLength)
RecordPlain(i) == Least(RecordLength, ask.size - i * RecordLength)
WholeFile(s) == s[1] = 0 /\ s[2] = ask.size - 1
CipherEnd(s) ==
  RecordOffset(LastRecord(s)) + RecordPlain(LastRecord(s)) + TagLength + IF WholeFile(s) THEN FinalLength ELSE 0

\* The slip of skipping only within a chunk.
LeadingOfChunk(start) == start % SourceChunk

Leading(start) == start % Alignment

\* The source begins at the boundary before the first byte wanted.
Begin(start, count) ==
  src' = [next |-> (start \div Alignment) * Alignment, skip |-> Leading(start), left |-> count]

Refuse ==
  /\ phase = "asked" /\ (SelectedRange = <<>> \/ (ask.kind = "protected" /\ ask.size = 0))
  /\ phase' = "refused" /\ UNCHANGED <<ask, sel, src, buffer, rec, body, charged>>

Respond ==
  /\ phase = "asked" /\ SelectedRange # <<>> /\ ask.kind # "protected"
  /\ sel' = SelectedRange /\ Begin(SelectedRange[1], SelectedRange[2] - SelectedRange[1] + 1)
  /\ phase' = "streaming" /\ UNCHANGED <<ask, buffer, rec, body, charged>>

RespondProtected ==
  /\ phase = "asked" /\ SelectedRange # <<>> /\ ask.kind = "protected" /\ ask.size # 0
  /\ LET from == RecordOffset(FirstRecord(SelectedRange))
     IN Begin(from, CipherEnd(SelectedRange) - from)
  /\ sel' = SelectedRange /\ rec' = FirstRecord(SelectedRange)
  /\ phase' = "streaming" /\ UNCHANGED <<ask, buffer, body, charged>>

\* ---- telegram_media_chunks
SourceEnd == SourceLength(ask.kind, ask.size) - ask.lost
ChunkOf(length) == [k \in 1..(Least(src.next + length, SourceEnd) - src.next) |-> src.next + k - 1]

\* What slice_media_chunks takes of a chunk, and where that leaves the source.
Taken(chunk) ==
  LET skip == Least(src.skip, Len(chunk))
  IN SubSeq(chunk, skip + 1, skip + Least(src.left, Len(chunk) - skip))

Advance(chunk) ==
  src' = [next |-> src.next + Len(chunk), skip |-> src.skip - Least(src.skip, Len(chunk)), left |-> src.left - Len(Taken(chunk))]

SliceChunk ==
  /\ phase = "streaming" /\ ask.kind # "dav" /\ src.left > 0 /\ src.next < SourceEnd
  /\ LET chunk == ChunkOf(SourceChunk)
     IN /\ Advance(chunk)
        /\ IF ask.kind = "plain" THEN body' = body \o Taken(chunk) /\ UNCHANGED buffer
           ELSE buffer' = buffer \o Taken(chunk) /\ UNCHANGED body
  /\ UNCHANGED <<ask, sel, rec, phase, charged>>

\* A source that ends early aborts the body, it does not complete it.
SourceEnds ==
  /\ phase = "streaming" /\ ask.kind # "dav" /\ src.left > 0 /\ src.next >= SourceEnd
  /\ phase' = "aborted" /\ UNCHANGED <<ask, sel, src, buffer, rec, body, charged>>

\* ---- the records of protected media
RecordCipher(i) == [k \in 1..(RecordPlain(i) + TagLength) |-> RecordOffset(i) + k - 1]
Authentic(i, bytes) == bytes = RecordCipher(i) /\ i # ask.bad

FinalCipher == [k \in 1..FinalLength |-> EnvelopeLength(ask.size) - FinalLength + k - 1]

\* feed and finish: the digest of a file that is read whole.
FinalVerified(rest) == rest = FinalCipher /\ ask.bad # Records(ask.size)

Needed ==
  RecordPlain(rec) + TagLength + IF WholeFile(sel) /\ rec = LastRecord(sel) THEN FinalLength ELSE 0

DecryptRecord ==
  /\ phase = "streaming" /\ ask.kind = "protected" /\ rec <= LastRecord(sel) /\ Len(buffer) >= Needed
  /\ LET size == RecordPlain(rec) + TagLength
         cipher == SubSeq(buffer, 1, size)
         rest == SubSeq(buffer, size + 1, Len(buffer))
         offset == rec * RecordLength
         from == Most(0, sel[1] - offset)
         to == Least(sel[2] - offset + 1, RecordPlain(rec))
         last == WholeFile(sel) /\ rec = LastRecord(sel)
     IN IF Authentic(rec, cipher) /\ (last => FinalVerified(rest))
        THEN /\ body' = body \o [k \in 1..(to - from) |-> offset + from + k - 1]
             /\ buffer' = rest /\ rec' = rec + 1 /\ UNCHANGED phase
        ELSE phase' = "aborted" /\ UNCHANGED <<body, buffer, rec>>
  /\ UNCHANGED <<ask, sel, src, charged>>

\* quota_media_chunks: the reservation is committed for a complete body.
FinishBody ==
  /\ phase = "streaming" /\ ask.kind # "dav" /\ src.left = 0 /\ (ask.kind = "protected" => rec > LastRecord(sel))
  /\ phase' = "done" /\ charged' = (Len(body) = sel[2] - sel[1] + 1)
  /\ UNCHANGED <<ask, sel, src, buffer, rec, body>>

\* guard_media_chunks: the account is no longer active, or the client went.
AccountEnds ==
  /\ phase = "streaming" /\ phase' = "aborted"
  /\ UNCHANGED <<ask, sel, src, buffer, rec, body, charged>>

\* guard_protected_chunks: the vault was locked.
CredentialEnds ==
  /\ phase = "streaming" /\ ask.kind = "protected" /\ phase' = "aborted"
  /\ UNCHANGED <<ask, sel, src, buffer, rec, body, charged>>

\* ---- read_media_range: chunks as long as the alignment; a short source
\* gives a short read.
ReadMediaRange ==
  /\ phase = "streaming" /\ ask.kind = "dav" /\ src.left > 0
  /\ IF src.next < SourceEnd
     THEN Advance(ChunkOf(Alignment)) /\ body' = body \o Taken(ChunkOf(Alignment))
     ELSE src' = [src EXCEPT !.left = 0] /\ UNCHANGED body
  /\ UNCHANGED <<ask, sel, buffer, rec, phase, charged>>

\* read_bytes charges what was read.
FinishDavRead ==
  /\ phase = "streaming" /\ ask.kind = "dav" /\ src.left = 0
  /\ phase' = "done" /\ charged' = TRUE /\ UNCHANGED <<ask, sel, src, buffer, rec, body>>

MediaNext ==
  \/ Arrives \/ Refuse \/ Respond \/ RespondProtected \/ SliceChunk \/ SourceEnds \/ DecryptRecord \/ FinishBody
  \/ AccountEnds \/ CredentialEnds \/ ReadMediaRange \/ FinishDavRead

MediaSpec == MediaInit /\ [][MediaNext]_streamVars

MediaTypeOK ==
  /\ ask \in Asks /\ sel \in Seq(Int) /\ Len(sel) = 2 /\ rec \in Nat /\ charged \in BOOLEAN
  /\ src.skip \in Nat /\ src.left \in Nat /\ src.next \in Nat
  /\ phase \in {"idle", "asked", "refused", "streaming", "aborted", "done"}

\* What a Range field asks for, as RFC 9110 has it: a field whose last byte
\* precedes its first is no range.
Wanted ==
  {i \in 0..(ask.size - 1) :
     IF ask.first = NoNumber THEN ask.last = NoNumber \/ i >= ask.size - ask.last
     ELSE \/ ask.last # NoNumber /\ ask.first > ask.last
          \/ i >= ask.first /\ (ask.last = NoNumber \/ i <= ask.last)}

(* The client gets a prefix of the bytes it asked for, and a response that *)
(* completes and is charged gave all of them, whatever the alignment, the  *)
(* chunks, the records and the source did (slice_media_chunks,             *)
(* build_media_response_from_source, read_media_range).                    *)
BodyIsRange ==
  /\ Len(body) <= Cardinality(Wanted)
  /\ \A k \in 1..Len(body) : body[k] \in Wanted /\ Cardinality({i \in Wanted : i < body[k]}) = k - 1
  /\ (phase = "done" /\ (ask.kind = "dav" => ask.lost = 0)) => Len(body) = Cardinality(Wanted) /\ charged
  /\ phase = "refused" => Wanted = {} \/ ask.size = 0

(* No byte of a record that does not authenticate reaches the client, and  *)
(* a client that has a whole protected file has one whose final digest was *)
(* verified (build_encrypted_media_response_from_source).                  *)
OnlyAuthentic ==
  ask.kind = "protected" =>
    /\ \A k \in 1..Len(body) : body[k] \div RecordLength # ask.bad
    /\ (ask.size # 0 /\ Len(body) = ask.size) => ask.bad # Records(ask.size)

(* What a streaming client receives (stream_media, DavMedia::read_range).  *)
MediaInv == MediaTypeOK /\ BodyIsRange /\ OnlyAuthentic
=============================================================================
