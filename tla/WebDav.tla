------------------------------- MODULE WebDav -------------------------------
(***************************************************************************)
(* The WebDAV server (webdav.rs): concurrent requests that resolve a path  *)
(* through one shared index of a folder and then change the folder at      *)
(* Telegram.  A request captures the session it arrived in and validates   *)
(* it before each use of the client; the index is bound to a session too.  *)
(* Other devices of the account change the folder as they like.            *)
(***************************************************************************)
EXTENDS Naturals, FiniteSets

CONSTANTS DavRequests,  \* requests
          DavNames,     \* file names in the folder
          MaxDavIds,    \* bound: messages
          MaxLogins     \* bound: sessions, each of another account than the last

ASSUME DavBoundsAssumption ==
  /\ MaxDavIds \in Nat \ {0} /\ MaxLogins \in Nat \ {0}
  /\ IsFiniteSet(DavNames) /\ Cardinality(DavNames) <= MaxDavIds

VARIABLES
  login,     \* the present session
  chatFiles, \* message id -> [login, name, place] of the files at Telegram
  lastId,    \* the last message id given
  index,     \* DavIndex: the session it is bound to, whether refreshed, name -> id
  davRev,    \* REVISIONS of the account
  req,       \* Request -> what it is at
  gone       \* history: id -> why a request removed it and what it put in its place

davVars == <<login, chatFiles, lastId, index, davRev, req, gone>>

DavIds == 1..MaxDavIds
None == [id |-> 0, login |-> 0]
NoRows == [n \in DavNames |-> None]
NoReq == [pc |-> "idle", kind |-> "none", name |-> "none", guard |-> 0, ticket |-> 0, rows |-> <<>>,
          whole |-> FALSE, node |-> None, new |-> 0]
Present == DOMAIN chatFiles
StillThere == [why |-> "no", by |-> 0]
Put1(f, k, v) == [x \in DOMAIN f \cup {k} |-> IF x = k THEN v ELSE f[x]]
WithoutEntry(f, k) == [x \in DOMAIN f \ {k} |-> f[x]]

DavInit ==
  /\ login = 1 /\ lastId = Cardinality(DavNames)
  /\ chatFiles \in {f \in [1..lastId -> [login : {1}, name : DavNames, place : {"here"}]] :
                      \A i, j \in 1..lastId : f[i].name = f[j].name => i = j}
  /\ index = [guard |-> 0, fresh |-> FALSE, nodes |-> NoRows]
  /\ davRev = 0 /\ req = [r \in DavRequests |-> NoReq] /\ gone = [i \in DavIds |-> StillThere]

Answer(r) == req' = [req EXCEPT ![r] = [NoReq EXCEPT !.pc = "done"]]
At(r, pc) == req' = [req EXCEPT ![r].pc = pc]

\* AccountGuard::validate
GuardValid(r) == req[r].guard = login

\* The slip of trusting the client a request already has.
ClientHeld(r) == TRUE

\* TelegramDavFs::client and account: validated at every use.
ClientValid(r) == GuardValid(r)

\* DavIndex::bind
Bound(ix, g) == IF ix.guard = g THEN ix ELSE [guard |-> g, fresh |-> FALSE, nodes |-> NoRows]

Arrive(r, kind, n) ==
  /\ req[r].pc = "idle"
  /\ req' = [req EXCEPT ![r] = [NoReq EXCEPT !.pc = "look", !.kind = kind, !.name = n, !.guard = login]]
  /\ index' = Bound(index, login)
  /\ UNCHANGED <<login, chatFiles, lastId, davRev, gone>>

\* A PUT is staged in a file of its own, and flushed in the session it was
\* opened in; the staging file goes with the request however it ends.
OpenForWrite(r, n) ==
  /\ req[r].pc = "idle"
  /\ req' = [req EXCEPT ![r] = [NoReq EXCEPT !.pc = "staged", !.kind = "put", !.name = n, !.guard = login]]
  /\ index' = Bound(index, login)
  /\ UNCHANGED <<login, chatFiles, lastId, davRev, gone>>

Flush(r) ==
  /\ req[r].pc = "staged" /\ GuardValid(r) /\ At(r, "look") /\ index' = Bound(index, login)
  /\ UNCHANGED <<login, chatFiles, lastId, davRev, gone>>

\* ---- refresh_folder: a listing with its revision, published under it
Visible(g) == {i \in Present : chatFiles[i].login = g /\ chatFiles[i].place = "here"}

ListFolder(r) ==
  /\ req[r].pc = "look" /\ ~index.fresh /\ GuardValid(r)
  /\ \E S \in SUBSET Visible(req[r].guard) :
       req' = [req EXCEPT ![r].pc = "rows", ![r].ticket = davRev, ![r].whole = (S = Visible(req[r].guard)),
                          ![r].rows = [i \in S |-> chatFiles[i].name]]
  /\ UNCHANGED <<login, chatFiles, lastId, index, davRev, gone>>

\* A name of one file is its alias; files that share a name are told apart by
\* their ids.  An incomplete listing keeps what it did not see.
Aliased(r, n) ==
  LET rows == req[r].rows
      named == {i \in DOMAIN rows : rows[i] = n}
      old == index.nodes[n]
  IN IF ~req[r].whole /\ old.id # 0 /\ old.id \notin DOMAIN rows THEN old
     ELSE IF Cardinality(named) = 1 THEN [id |-> CHOOSE i \in named : TRUE, login |-> req[r].guard] ELSE None

PublishRows(r) ==
  /\ req[r].pc = "rows"
  /\ IF GuardValid(r) /\ req[r].ticket = davRev
     THEN /\ index' = [guard |-> login, fresh |-> TRUE,
                       nodes |-> IF index.guard = login THEN [n \in DavNames |-> Aliased(r, n)]
                                 ELSE [n \in DavNames |-> IF req[r].whole THEN Aliased(r, n) ELSE None]]
          /\ At(r, "node")
     ELSE Answer(r) /\ UNCHANGED index
  /\ UNCHANGED <<login, chatFiles, lastId, davRev, gone>>

IndexAtHand(r) ==
  /\ req[r].pc = "look" /\ index.fresh /\ At(r, "node")
  /\ UNCHANGED <<login, chatFiles, lastId, index, davRev, gone>>

\* The read lock is taken again: the index may be another session's by now.
ReadNode(r) ==
  /\ req[r].pc = "node"
  /\ req' = [req EXCEPT ![r].pc = "fetch", ![r].node = index.nodes[req[r].name]]
  /\ UNCHANGED <<login, chatFiles, lastId, index, davRev, gone>>

\* fetch_media: the message must still be there and not be protected.
Found(r) == req[r].node.id \in Present

Fetched(r) ==
  /\ req[r].pc = "fetch" /\ ClientValid(r)
  /\ \/ req[r].node.id = 0 /\ req[r].kind = "put"
     \/ req[r].node.id # 0 /\ Found(r)

\* The slip of removing what a PUT replaces, or a move leaves, first.
FetchThenRemove(r) ==
  /\ Fetched(r)
  /\ At(r, IF req[r].node.id # 0 THEN "delete" ELSE "send")
  /\ UNCHANGED <<login, chatFiles, lastId, index, davRev, gone>>

FetchMedia(r) ==
  /\ Fetched(r)
  /\ At(r, CASE req[r].kind = "put" -> "send" [] req[r].kind = "delete" -> "delete"
             [] req[r].kind = "rename" -> "edit" [] OTHER -> "forward")
  /\ UNCHANGED <<login, chatFiles, lastId, index, davRev, gone>>

\* ---- flush and upload_temp_file
SendFile(r) ==
  /\ req[r].pc = "send" /\ ClientValid(r) /\ lastId < MaxDavIds
  /\ lastId' = lastId + 1
  /\ chatFiles' = Put1(chatFiles, lastId', [login |-> login, name |-> req[r].name, place |-> "here"])
  /\ req' = [req EXCEPT ![r].pc = "sent", ![r].new = lastId']
  /\ UNCHANGED <<login, index, davRev, gone>>

\* The answer is lost: nothing is retried, the folder is listed anew.
SendLost(r) ==
  /\ req[r].pc = "send" /\ ClientValid(r) /\ lastId < MaxDavIds
  /\ lastId' = lastId + 1
  /\ chatFiles' = Put1(chatFiles, lastId', [login |-> login, name |-> req[r].name, place |-> "here"])
  /\ Answer(r) /\ index' = [index EXCEPT !.fresh = FALSE] /\ davRev' = davRev + 1
  /\ UNCHANGED <<login, gone>>

\* file_inventory::changed
Announce(r) ==
  /\ req[r].pc = "sent" /\ GuardValid(r) /\ davRev' = davRev + 1
  /\ \/ At(r, "invalidate")  \* nothing replaced, or its peer not resolved
     \/ req[r].node.id # 0 /\ At(r, "delete")
  /\ UNCHANGED <<login, chatFiles, lastId, index, gone>>

\* delete_messages, for a DELETE, for what a PUT replaced and for what was moved.
RemoveOld(r) ==
  /\ req[r].pc = "delete" /\ ClientValid(r)
  /\ chatFiles' = WithoutEntry(chatFiles, req[r].node.id)
  /\ gone' = IF Found(r) THEN [gone EXCEPT ![req[r].node.id] = [why |-> req[r].kind, by |-> req[r].new]] ELSE gone
  /\ At(r, "record") /\ UNCHANGED <<login, lastId, index, davRev>>

\* remote_changes::record, also after a rename.
RecordChange(r) ==
  /\ req[r].pc = "record" /\ GuardValid(r) /\ davRev' = davRev + 1 /\ At(r, "invalidate")
  /\ UNCHANGED <<login, chatFiles, lastId, index, gone>>

Invalidate(r) ==
  /\ req[r].pc = "invalidate" /\ Answer(r)
  /\ index' = [index EXCEPT !.fresh = FALSE] /\ davRev' = IF GuardValid(r) THEN davRev + 1 ELSE davRev
  /\ UNCHANGED <<login, chatFiles, lastId, gone>>

\* ---- copy_or_move_file
EditName(r) ==
  /\ req[r].pc = "edit" /\ ClientValid(r)
  /\ \E n \in DavNames : chatFiles' = IF Found(r) THEN [chatFiles EXCEPT ![req[r].node.id].name = n] ELSE chatFiles
  /\ Found(r) /\ At(r, "record") /\ UNCHANGED <<login, lastId, index, davRev, gone>>

ForwardFile(r) ==
  /\ req[r].pc = "forward" /\ ClientValid(r) /\ Found(r) /\ lastId < MaxDavIds
  /\ lastId' = lastId + 1
  /\ chatFiles' = Put1(chatFiles, lastId', [chatFiles[req[r].node.id] EXCEPT !.place = "there"])
  /\ req' = [req EXCEPT ![r].pc = "named", ![r].new = lastId']
  /\ UNCHANGED <<login, index, davRev, gone>>

NameCopy(r) ==
  /\ req[r].pc = "named" /\ ClientValid(r) /\ req[r].new \in Present
  /\ \E n \in DavNames : chatFiles' = [chatFiles EXCEPT ![req[r].new].name = n]
  /\ At(r, IF req[r].kind = "move" THEN "delete" ELSE "invalidate")
  /\ UNCHANGED <<login, lastId, index, davRev, gone>>

\* Every error: an account that changed, a message that went, Telegram's refusal.
RequestFails(r) ==
  /\ req[r].pc \notin {"idle", "invalidate", "done"} /\ Answer(r)
  /\ UNCHANGED <<login, chatFiles, lastId, index, davRev, gone>>

\* ---- the environment
IndexExpires ==
  /\ index.fresh /\ index' = [index EXCEPT !.fresh = FALSE]
  /\ UNCHANGED <<login, chatFiles, lastId, davRev, req, gone>>

SwitchAccount ==
  /\ login < MaxLogins /\ login' = login + 1 /\ davRev' = davRev + 1 /\ lastId < MaxDavIds
  /\ lastId' = lastId + 1
  /\ \E n \in DavNames : chatFiles' = Put1(chatFiles, lastId', [login |-> login', name |-> n, place |-> "here"])
  /\ UNCHANGED <<index, req, gone>>

OtherDeviceRenames(i, n) ==
  /\ i \in Present /\ chatFiles[i].name # n /\ chatFiles' = [chatFiles EXCEPT ![i].name = n]
  /\ UNCHANGED <<login, lastId, index, davRev, req, gone>>

DavStep(r) ==
  \/ \E k \in {"delete", "rename", "move", "copy"}, n \in DavNames : Arrive(r, k, n)
  \/ Flush(r) \/ \E n \in DavNames : OpenForWrite(r, n)
  \/ ListFolder(r) \/ PublishRows(r) \/ IndexAtHand(r) \/ ReadNode(r) \/ FetchMedia(r)
  \/ SendFile(r) \/ SendLost(r) \/ Announce(r) \/ RemoveOld(r) \/ RecordChange(r) \/ Invalidate(r)
  \/ EditName(r) \/ ForwardFile(r) \/ NameCopy(r) \/ RequestFails(r)

DavNext ==
  \/ \E r \in DavRequests : DavStep(r)
  \/ IndexExpires \/ SwitchAccount \/ \E i \in DavIds, n \in DavNames : OtherDeviceRenames(i, n)

DavSpec == DavInit /\ [][DavNext]_davVars

DavTypeOK ==
  /\ login \in 1..MaxLogins /\ lastId \in 0..MaxDavIds /\ Present \subseteq 1..lastId
  /\ index.guard \in 0..login /\ index.nodes \in [DavNames -> [id : 0..MaxDavIds, login : 0..login]]
  /\ \A r \in DavRequests : req[r].guard <= login /\ req[r].node.id \in 0..MaxDavIds /\ req[r].new \in 0..lastId
  /\ gone \in [DavIds -> [why : {"no", "put", "delete", "move"}, by : 0..MaxDavIds]]

(* A file leaves the folder only when a DELETE named it, or when what      *)
(* replaces it, the new upload or the copy in the other folder, reached    *)
(* Telegram before (upload_temp_file, copy_or_move_file), wherever a       *)
(* request stops and whatever other requests do.                           *)
ReplacedFirst ==
  \A i \in DavIds : gone[i].why \in {"put", "move"} =>
    gone[i].by # 0 /\ (gone[i].by \in Present \/ gone[gone[i].by].why # "no")

(* A request never changes a file of a session other than its own, though  *)
(* the index it reads can be bound to the next account's session between   *)
(* its refresh and its use (TelegramDavFs::node, client, DavIndex::bind).  *)
OwnSessionOnly ==
  [][\A i \in Present : \A r \in DavRequests :
       (req[r].pc \in {"delete", "edit"} /\ req'[r].pc = "record" /\ req[r].node.id = i)
          => chatFiles[i].login = req[r].guard]_davVars

(* What requests of WebDAV clients leave in the folder.                    *)
DavInv == DavTypeOK /\ ReplacedFirst
=============================================================================
