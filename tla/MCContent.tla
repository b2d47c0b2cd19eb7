----------------------------- MODULE MCContent -----------------------------
(***************************************************************************)
(* What moves content for TLC: the transfer queue with two uploads and     *)
(* changing limits, protected uploads, uploads from a URL, the streaming   *)
(* routes, conversions of videos, WebDAV and an offline pack.  They share  *)
(* no state here, so that a behaviour of the group is a behaviour of the   *)
(* component in focus.                                                     *)
(***************************************************************************)
EXTENDS MCTransferEngine, ContentPromises

VARIABLE focus  \* the component whose behaviour this is

groupVars == <<vars, protectedVars, urlVars, transcodeVars, streamVars, davVars, packVars, focus>>

\* A version that shrinks, and one too large to be taken by its size.
MCRemoteSizes == <<3, 2, 4>>

ContentInit ==
  /\ focus \in {"queue", "protected", "url", "transcode", "stream", "webdav", "packs"}
  /\ Init /\ ProtectedInit /\ UrlInit /\ TranscodeInit /\ MediaInit /\ DavInit /\ PackInit
  /\ focus # "queue" => limits = CHOOSE l \in Limits : TRUE
  /\ focus # "packs" => packJob = 0
  /\ focus # "protected" => ~plaintext.young

ContentNext ==
  \/ /\ focus = "queue" /\ Next
     /\ UNCHANGED <<protectedVars, urlVars, transcodeVars, streamVars, davVars, packVars, focus>>
  \/ /\ focus = "protected" /\ ProtectedNext
     /\ UNCHANGED <<vars, urlVars, transcodeVars, streamVars, davVars, packVars, focus>>
  \/ /\ focus = "url" /\ UrlNext
     /\ UNCHANGED <<vars, protectedVars, transcodeVars, streamVars, davVars, packVars, focus>>
  \/ /\ focus = "transcode" /\ TranscodeNext
     /\ UNCHANGED <<vars, protectedVars, urlVars, streamVars, davVars, packVars, focus>>
  \/ /\ focus = "stream" /\ MediaNext
     /\ UNCHANGED <<vars, protectedVars, urlVars, transcodeVars, davVars, packVars, focus>>
  \/ /\ focus = "webdav" /\ DavNext
     /\ UNCHANGED <<vars, protectedVars, urlVars, transcodeVars, streamVars, packVars, focus>>
  \/ /\ focus = "packs" /\ PackNext
     /\ UNCHANGED <<vars, protectedVars, urlVars, transcodeVars, streamVars, davVars, focus>>

ContentSpec == ContentInit /\ [][ContentNext]_groupVars
ContentSymmetry == MCSymmetry \cup Permutations(Callers)
=============================================================================
