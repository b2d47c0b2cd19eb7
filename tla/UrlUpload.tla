----------------------------- MODULE UrlUpload ------------------------------
(***************************************************************************)
(* cmd_upload_from_url: the application fetches a file over HTTP into a    *)
(* private temporary file and publishes it in a folder.  A temporary file  *)
(* survives only when the process ends; the next attempt of the transfer   *)
(* then asks for the rest of it, without a validator (no If-Range, no look *)
(* at an ETag), so that the resource may meanwhile be another one.  The    *)
(* server may not know the size, may ignore the range or answer it with    *)
(* less than was asked for, and a body of undeclared size may end early    *)
(* without an error.  Of HTTP is assumed: a response is of one version of  *)
(* the resource, a body that carries its size is whole or an error, and a  *)
(* 206 begins at the offset asked for (its Content-Range is not read).  An *)
(* empty resource always fails and is left out.                            *)
(***************************************************************************)
EXTENDS Naturals, Sequences

CONSTANTS RemoteSizes,   \* chunks of the file at the URL, by version
          SizeLimit,     \* MAX_REMOTE_UPLOAD_BYTES, in chunks
          MaxRedirects,  \* MAX_REMOTE_REDIRECTS
          SendRetries    \* retry_attempts

ASSUME SizesAssumption == RemoteSizes \in Seq(Nat \ {0}) /\ RemoteSizes # <<>> /\ SizeLimit \in Nat
ASSUME AttemptsAssumption == MaxRedirects \in Nat /\ SendRetries \in Nat

VARIABLES
  url_pc,      \* where the attempt is
  hops,        \* redirects followed
  declared,    \* known_size, 0 when the server gave none
  ranges,      \* whether the server accepts ranges
  temp,        \* the temporary file: NoFile or its content
  stream,      \* what the open response will still deliver
  admitted,    \* bytes the two reservations hold: [down, up]
  cancel,      \* the transfer is in cancelled_transfers
  owner_ok,    \* the captured account is still the signed-in one
  sends,       \* publications tried by this attempt
  urlPosted,      \* what the last attempt has published, if anything
  remoteVersion,  \* the version at the URL
  sizedVersion,   \* the version whose response gave the size
  tempSince,      \* history: the version at the URL when the temporary file was begun
  tempFrom        \* history: where its content comes from

urlVars == <<url_pc, hops, declared, ranges, temp, stream, admitted, cancel, owner_ok, sends, urlPosted,
             remoteVersion, sizedVersion, tempSince, tempFrom>>
urlWorld == <<remoteVersion, owner_ok>>
urlOrigin == <<sizedVersion, tempSince, tempFrom>>

Versions == DOMAIN RemoteSizes
\* n chunks of version v, from the offset h.
Body(v, h, n) == [i \in 1..n |-> [version |-> v, at |-> h + i]]
WholeResource(v) == Body(v, 0, RemoteSizes[v])
NoCharge == [down |-> 0, up |-> 0]
\* No file has a chunk 0.
NoFile == <<[version |-> 0, at |-> 0]>>
Held == IF temp = NoFile THEN 0 ELSE Len(temp)

UrlInit ==
  /\ url_pc = "idle" /\ hops = 0 /\ declared = 0 /\ ranges = FALSE /\ temp = NoFile /\ stream = <<>>
  /\ admitted = NoCharge /\ cancel = FALSE /\ owner_ok = TRUE /\ sends = 0 /\ urlPosted = {}
  /\ remoteVersion = 1 /\ sizedVersion = 1 /\ tempSince = 1 /\ tempFrom = "response"

\* Every return after the temporary file is named drops its guard, which
\* removes the file, and both reservations.
UrlEnds ==
  /\ url_pc' = "idle" /\ temp' = NoFile /\ stream' = <<>> /\ admitted' = NoCharge
  /\ UNCHANGED <<hops, declared, ranges, sends, urlWorld, urlOrigin>>

UploadFromUrl ==
  /\ url_pc = "idle" /\ owner_ok
  /\ url_pc' = "get" /\ hops' = 0 /\ sends' = 0 /\ urlPosted' = {}
  /\ UNCHANGED <<declared, ranges, temp, stream, admitted, cancel, urlWorld, urlOrigin>>

\* validated_remote_get: each location is resolved and validated before use.
Redirected ==
  /\ url_pc = "get" /\ hops < MaxRedirects /\ hops' = hops + 1
  /\ UNCHANGED <<url_pc, declared, ranges, temp, stream, admitted, cancel, sends, urlPosted, urlWorld, urlOrigin>>

\* A refused address, a redirect too many, an error status, an HTML page, a
\* size over the limit, a full disk or a quota that admits no more: the
\* attempt ends before the temporary file is named.
GetFails ==
  /\ url_pc = "get" /\ url_pc' = "idle"
  /\ UNCHANGED <<hops, declared, ranges, temp, stream, admitted, cancel, sends, urlPosted, urlWorld, urlOrigin>>

\* The response, of the version at the URL; what it delivers is all of it when
\* it gives the size (or an error), else as much as comes.
Answered(sized, accepts, n) ==
  /\ url_pc = "get" /\ n <= RemoteSizes[remoteVersion]
  /\ sized => n = RemoteSizes[remoteVersion] /\ n <= SizeLimit
  /\ declared' = (IF sized THEN n ELSE 0) /\ ranges' = accepts
  /\ admitted' = [down |-> declared', up |-> declared'] /\ sizedVersion' = remoteVersion
  /\ stream' = Body(remoteVersion, 0, n) /\ url_pc' = "open"
  /\ UNCHANGED <<hops, temp, cancel, sends, urlPosted, urlWorld, tempSince, tempFrom>>

\* Where the download continues, from what an earlier process left.
ResumeFrom == IF temp # NoFile /\ ranges /\ declared # 0 THEN IF Held >= declared THEN declared ELSE Held ELSE 0

NeedDownload(at) == declared = 0 \/ at < declared

\* No usable remainder: a new file and the response at hand.
CreateTemp ==
  /\ url_pc = "open" /\ ResumeFrom = 0 /\ NeedDownload(0)
  /\ temp' = <<>> /\ url_pc' = "stream" /\ tempSince' = sizedVersion /\ tempFrom' = "response"
  /\ UNCHANGED <<hops, declared, ranges, stream, admitted, cancel, sends, urlPosted, urlWorld, sizedVersion>>

\* 206: append what comes of the version that is there now.
ResumeTemp ==
  /\ url_pc = "open" /\ ResumeFrom > 0 /\ NeedDownload(ResumeFrom)
  /\ \E n \in 0..RemoteSizes[remoteVersion] : /\ ResumeFrom + n <= RemoteSizes[remoteVersion]
                                              /\ stream' = Body(remoteVersion, ResumeFrom, n)
  /\ url_pc' = "stream" /\ tempFrom' = "leftover"
  /\ UNCHANGED <<hops, declared, ranges, temp, admitted, cancel, sends, urlPosted, urlWorld, sizedVersion, tempSince>>

\* Another status: the file again from its beginning, by a second response
\* whose own size is not looked at.
RestartTemp ==
  /\ url_pc = "open" /\ ResumeFrom > 0 /\ NeedDownload(ResumeFrom)
  /\ \E n \in 0..RemoteSizes[remoteVersion] : stream' = Body(remoteVersion, 0, n)
  /\ temp' = <<>> /\ url_pc' = "stream" /\ tempSince' = sizedVersion /\ tempFrom' = "again"
  /\ UNCHANGED <<hops, declared, ranges, admitted, cancel, sends, urlPosted, urlWorld, sizedVersion>>

\* Nothing is left to fetch, by its length: what lies there is taken as it is.
AlreadyDownloaded ==
  /\ url_pc = "open" /\ ~NeedDownload(ResumeFrom) /\ url_pc' = "check" /\ tempFrom' = "leftover"
  /\ UNCHANGED <<hops, declared, ranges, temp, stream, admitted, cancel, sends, urlPosted, urlWorld>>
  /\ UNCHANGED <<sizedVersion, tempSince>>

\* One chunk, refused when it passes the declared size or the limit; the
\* reservations of a file of unknown size grow before the chunk is written.
ChunkFits == Held + 1 <= SizeLimit /\ (declared # 0 => Held + 1 <= declared)

GrowReservations ==
  admitted' = IF declared = 0 THEN [down |-> Held + 1, up |-> Held + 1] ELSE admitted

WriteChunk ==
  /\ url_pc = "stream" /\ ~cancel /\ stream # <<>> /\ ChunkFits
  /\ GrowReservations
  /\ temp' = Append(temp, Head(stream)) /\ stream' = Tail(stream)
  /\ UNCHANGED <<url_pc, hops, declared, ranges, cancel, sends, urlPosted, urlWorld, urlOrigin>>

StreamEnds ==
  /\ url_pc = "stream" /\ stream = <<>> /\ url_pc' = "check"
  /\ UNCHANGED <<hops, declared, ranges, temp, stream, admitted, cancel, sends, urlPosted, urlWorld, urlOrigin>>

\* A connection or disk error, a chunk that does not fit, a quota refusal.
StreamFails ==
  /\ url_pc \in {"open", "stream"} /\ UrlEnds /\ UNCHANGED <<cancel, urlPosted>>

Cancelled ==
  /\ url_pc = "stream" /\ stream # <<>> /\ cancel
  /\ cancel' = FALSE /\ UrlEnds /\ UNCHANGED urlPosted

\* The slip of trusting that the response was whole.
SizeAccepted == Held # 0

SizeMatches == Held # 0 /\ Held <= SizeLimit /\ (declared # 0 => Held = declared)

Checked ==
  /\ url_pc = "check" /\ SizeMatches
  /\ admitted' = [down |-> Held, up |-> Held] /\ url_pc' \in {"upload", "staged"}
  /\ UNCHANGED <<hops, declared, ranges, temp, stream, cancel, sends, urlPosted, urlWorld, urlOrigin>>

CheckFails == url_pc = "check" /\ UrlEnds /\ UNCHANGED <<cancel, urlPosted>>

\* What Telegram has then, and what is known of it.
Publication ==
  [content |-> temp, declared |-> declared, from |-> tempFrom, since |-> tempSince, until |-> remoteVersion]

\* Protected: the file is renamed into a staging directory and handed to the
\* ordinary upload with the reservation (modules ProtectedUpload and
\* TransferEngine); it is removed whatever comes of that.
StagedUpload ==
  /\ url_pc = "staged" /\ urlPosted' \in {urlPosted, {Publication}}
  /\ UrlEnds /\ UNCHANGED cancel

\* upload_stream raced with the cancellation, a missing client or peer.
UploadStream ==
  /\ url_pc = "upload" /\ ~cancel /\ owner_ok /\ url_pc' = "publish"
  /\ UNCHANGED <<hops, declared, ranges, temp, stream, admitted, cancel, sends, urlPosted, urlWorld, urlOrigin>>

UploadFails ==
  /\ url_pc = "upload" /\ cancel' \in {cancel, FALSE} /\ UrlEnds /\ UNCHANGED urlPosted

\* send_message, retried on any error: the answer may be lost after Telegram
\* has published.
SendAccepted ==
  /\ url_pc = "publish" /\ owner_ok /\ urlPosted' = {Publication} /\ UrlEnds /\ UNCHANGED cancel

SendAnswerLost ==
  /\ url_pc = "publish" /\ owner_ok /\ sends <= SendRetries
  /\ urlPosted' \in {urlPosted, {Publication}} /\ sends' = sends + 1
  /\ UNCHANGED <<url_pc, hops, declared, ranges, temp, stream, admitted, cancel, urlWorld, urlOrigin>>

SendGivesUp ==
  /\ url_pc = "publish" /\ (sends > SendRetries \/ ~owner_ok \/ cancel) /\ UrlEnds /\ UNCHANGED <<cancel, urlPosted>>

\* ---- the environment
CancelTransfer ==
  /\ url_pc # "idle" /\ ~cancel /\ cancel' = TRUE
  /\ UNCHANGED <<url_pc, hops, declared, ranges, temp, stream, admitted, sends, urlPosted, urlWorld, urlOrigin>>

OwnerSignsOut ==
  /\ owner_ok /\ owner_ok' = FALSE
  /\ UNCHANGED <<url_pc, hops, declared, ranges, temp, stream, admitted, cancel, sends, urlPosted>>
  /\ UNCHANGED <<remoteVersion, urlOrigin>>

RemoteChanges ==
  /\ remoteVersion < Len(RemoteSizes) /\ remoteVersion' = remoteVersion + 1
  /\ UNCHANGED <<url_pc, hops, declared, ranges, temp, stream, admitted, cancel, owner_ok, sends, urlPosted, urlOrigin>>

\* A staged file lies under another name, where nobody looks for a leftover.
UrlCrash ==
  /\ url_pc # "idle" /\ url_pc' = "idle" /\ stream' = <<>> /\ admitted' = NoCharge /\ cancel' = FALSE
  /\ temp' \in {temp} \cup (IF url_pc = "staged" THEN {NoFile} ELSE {})
  /\ UNCHANGED <<hops, declared, ranges, sends, urlPosted, urlWorld, urlOrigin>>

UrlNext ==
  \/ UploadFromUrl \/ Redirected \/ GetFails
  \/ \E sized, accepts \in BOOLEAN, n \in 0..RemoteSizes[remoteVersion] : Answered(sized, accepts, n)
  \/ CreateTemp \/ ResumeTemp \/ RestartTemp \/ AlreadyDownloaded
  \/ WriteChunk \/ StreamEnds \/ StreamFails \/ Cancelled \/ Checked \/ CheckFails
  \/ StagedUpload \/ UploadStream \/ UploadFails \/ SendAccepted \/ SendAnswerLost \/ SendGivesUp
  \/ CancelTransfer \/ OwnerSignsOut \/ RemoteChanges \/ UrlCrash

UrlSpec == UrlInit /\ [][UrlNext]_urlVars

UrlTypeOK ==
  /\ url_pc \in {"idle", "get", "open", "stream", "check", "upload", "staged", "publish"}
  /\ declared \in {0, RemoteSizes[sizedVersion]} /\ hops \in 0..MaxRedirects
  /\ {remoteVersion, sizedVersion, tempSince} \subseteq Versions /\ tempFrom \in {"response", "again", "leftover"}
  /\ cancel \in BOOLEAN /\ owner_ok \in BOOLEAN /\ ranges \in BOOLEAN /\ sends \in 0..SendRetries + 1

(* What is published has every chunk at its own place, none skipped and    *)
(* none twice, whatever an earlier process left behind and however the     *)
(* server answered the range; it is as long as the declared size, and was  *)
(* at the URL at some time since the temporary file was begun.  So while   *)
(* the resource stays the same, a declared file is published whole; and    *)
(* fetched by one response it always is.  Only what was appended to (or    *)
(* taken from) a leftover mixes versions, and only when the resource       *)
(* changed after the leftover was begun (cmd_upload_from_url_owned: the    *)
(* resumption, the declared size).                                         *)
PostedAsFetched ==
  \A m \in urlPosted :
    /\ \A i \in 1..Len(m.content) : m.content[i].at = i /\ m.content[i].version \in m.since..m.until
    /\ m.declared # 0 => Len(m.content) = m.declared
    /\ m.from # "leftover" => \E v \in Versions : m.content = Body(v, 0, Len(m.content))
    /\ m.declared # 0 /\ (m.from = "response" \/ m.since = m.until) =>
         \E v \in m.since..m.until : m.content = WholeResource(v)

(* No byte is written, or sent, before both quotas have admitted it: a     *)
(* file of unknown size enlarges the reservations ahead of every chunk.    *)
(* (A leftover longer than the declared size holds more, and is refused.)  *)
WrittenIsAdmitted ==
  url_pc \in {"stream", "upload", "staged", "publish"} => admitted.down >= Held /\ admitted.up >= Held

(* What an upload from a URL wrote and published.                          *)
UrlInv == UrlTypeOK /\ PostedAsFetched /\ WrittenIsAdmitted
=============================================================================
