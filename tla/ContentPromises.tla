-------------------------- MODULE ContentPromises --------------------------
(***************************************************************************)
(* What moves content: protected uploads, uploads from a URL, conversions  *)
(* of videos, the streaming routes, WebDAV and offline packs, side by      *)
(* side, and what two of them at a time promise the user.  They share no   *)
(* state.                                                                  *)
(***************************************************************************)
EXTENDS ProtectedUpload, UrlUpload, Transcode, MediaStream, WebDav, OfflinePacks

(***************************************************************************)
(* What is published opens, and is what its source held while the attempt  *)
(* looked at it (commands/fs.rs).  A protected upload whose source stays   *)
(* the same publishes exactly that source (ProtectedInv); a file from a    *)
(* URL has every chunk in its place and the declared size, of one version  *)
(* unless it continues a leftover older than the last change (UrlInv).     *)
(***************************************************************************)
PublishedInv == ProtectedInv /\ UrlInv

(***************************************************************************)
(* What the local servers serve is right: MediaInv of the streaming routes *)
(* (server.rs) and DavInv of WebDAV (webdav.rs).                           *)
(***************************************************************************)
ServedInv == MediaInv /\ DavInv
=============================================================================
